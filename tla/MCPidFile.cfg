\* Three node processes and two PIDs: PIDs are reused, by nodes and by an
\* unrelated process, and a third node can start after one has gone.
CONSTANTS
    Procs = {a, b, c}
    Pids <- MCPids
    Other = Other
    NoProc = NoProc
    Absent = Absent
    Empty = Empty

SPECIFICATION Spec
INVARIANT SingleInstance
PROPERTY CleanupCompletes
