\* A server that answers 404 to a PATCH on a share it already completed:
\* a retried write whose 201 was lost then fails for ever, and only
\* list_shares tells the caller the share is done.
CONSTANTS
    Shares <- MCShares
    ShareSize = 2
    MaxPending = 2
    MaxFaults = 2
    MaxRestarts = 0
    LateWriteStatus = 404
    ListStatus = 200
    Swissnum = Swissnum
    None = None

SPECIFICATION Spec
PROPERTY UploadCompletes
CHECK_DEADLOCK FALSE
