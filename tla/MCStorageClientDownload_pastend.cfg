\* Reads that may reach beyond the end of a three-byte share.
CONSTANTS
    ShareSize = 3
    MaxLength = 2
    ReadPastEnd = TRUE
SPECIFICATION Spec
INVARIANT
    ReadReturnsRequested
