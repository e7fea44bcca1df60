\* Reads inside a three-byte share, ranges of one or two bytes.
CONSTANTS
    ShareSize = 3
    MaxLength = 2
    ReadPastEnd = FALSE
SPECIFICATION Spec
INVARIANTS
    TypeOK
    ReadReturnsRequested
