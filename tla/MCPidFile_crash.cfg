\* Two nodes and two PIDs: the first may crash between open("w") and the
\* write; the second finds what it left.
CONSTANTS
    Procs = {a, b}
    Pids <- MCPids
    Other = Other
    NoProc = NoProc
    Absent = Absent
    Empty = Empty

SPECIFICATION Spec
INVARIANT PidfileWellFormed
