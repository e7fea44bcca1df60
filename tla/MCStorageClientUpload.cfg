\* Two shares of two bytes: chunks overlap, arrive out of order and leave
\* gaps; two outstanding calls let responses overtake each other; two
\* faults (lost request or response, server error, premature timeout).
CONSTANTS
    Shares <- MCShares
    ShareSize = 2
    MaxPending = 2
    MaxFaults = 2
    MaxRestarts = 0
    LateWriteStatus = 201
    ListStatus = 200
    Swissnum = Swissnum
    None = None

SPECIFICATION Spec
INVARIANT TypeOK
INVARIANT FinishedMeansStored
INVARIANT RequiredCoversMissing
PROPERTY UploadCompletes
\* The upload ends: once every share is known finished nothing is enabled.
PROPERTY ImplementsUploadAbstract
CHECK_DEADLOCK FALSE
