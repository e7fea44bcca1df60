\* One share of four bytes: ten chunks, and a write of the middle leaves
\* two required ranges, [0,1) and [2,4) or [0,2) and [3,4), in one
\* response.  Two outstanding calls and one fault (lost message, server
\* error or premature timeout).
CONSTANTS
    Shares <- MCOneShare
    ShareSize = 4
    MaxPending = 2
    MaxFaults = 1
    MaxRestarts = 0
    LateWriteStatus = 201
    ListStatus = 200
    Swissnum = Swissnum
    None = None

SPECIFICATION Spec
INVARIANT RequiredCoversMissing
PROPERTY UploadCompletes
CHECK_DEADLOCK FALSE
