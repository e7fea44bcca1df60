\* One node and two PIDs: a pidfile left from before names the PID the OS
\* gives the new node.
CONSTANTS
    Procs = {a}
    Pids <- MCPids
    Other = Other
    NoProc = NoProc
    Absent = Absent
    Empty = Empty

SPECIFICATION Spec
PROPERTY RefusedOnlyByOther
