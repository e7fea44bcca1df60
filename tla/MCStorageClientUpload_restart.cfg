\* The uploading process restarts once; requests of the first incarnation
\* stay on the network and may reach the server after the restart.
CONSTANTS
    Shares <- MCShares
    ShareSize = 2
    MaxPending = 2
    MaxFaults = 1
    MaxRestarts = 1
    LateWriteStatus = 201
    ListStatus = 200
    Swissnum = Swissnum
    None = None

SPECIFICATION Spec
INVARIANT FinishedMeansStored
INVARIANT RequiredCoversMissing
PROPERTY ImplementsUploadAbstract
CHECK_DEADLOCK FALSE
