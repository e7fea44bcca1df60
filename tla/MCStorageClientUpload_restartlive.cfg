\* The uploading process restarts once and no fault is injected: requests
\* of the first incarnation still reach the server after the restart, and
\* the second incarnation must finish from what create reports.
CONSTANTS
    Shares <- MCShares
    ShareSize = 2
    MaxPending = 2
    MaxFaults = 0
    MaxRestarts = 1
    LateWriteStatus = 201
    ListStatus = 200
    Swissnum = Swissnum
    None = None

SPECIFICATION Spec
PROPERTY UploadCompletes
CHECK_DEADLOCK FALSE
