\* A server that answers 203 (Non-Authoritative Information, a success
\* status of spec.md 6) to GET .../shares, and 404 to a PATCH on a share it
\* already completed.
CONSTANTS
    Shares <- MCShares
    ShareSize = 2
    MaxPending = 2
    MaxFaults = 2
    MaxRestarts = 0
    LateWriteStatus = 404
    ListStatus = 203
    Swissnum = Swissnum
    None = None

SPECIFICATION Spec
PROPERTY UploadCompletes
CHECK_DEADLOCK FALSE
