------------------------------ MODULE PidFile ------------------------------
(***************************************************************************)
(* The single-instance guard of src/src/allmydata/util/pid.py:             *)
(* check_pid_process and cleanup_pidfile, run by several node processes   *)
(* that share one pidfile and its sibling "<pidfile>.lock" FileLock.       *)
(*                                                                         *)
(* A process is launched with a PID the OS hands out, checks the pidfile   *)
(* under the lock, writes its own PID, runs, and removes the pidfile under *)
(* the lock when it stops.  Any process may crash at any step: the OS then *)
(* frees its PID and drops its flock, and the pidfile stays as it was.    *)
(* Unrelated processes come and go and may be given a PID the pidfile      *)
(* still names.                                                            *)
(***************************************************************************)
EXTENDS Naturals, FiniteSets

CONSTANTS
    Procs,      \* node processes that run check_pid_process
    Pids,       \* the PIDs the OS hands out
    Other,      \* an unrelated process holding a PID
    NoProc,     \* no process (a free PID, a free lock)
    Absent,     \* pidfile content: the file does not exist
    Empty       \* pidfile content: truncated by open("w"), not yet written

VARIABLES
    pc,         \* process -> the step of pid.py it is at
    pidOf,      \* process -> its PID, or NoProc before it is launched
    owner,      \* PID -> the process holding it, or NoProc
    pidfile,    \* Absent, Empty or the PID written in the file
    lock        \* the process holding the FileLock, or NoProc

vars == <<pc, pidOf, owner, pidfile, lock>>

\* Steps of a node process.  "lock": waiting in FileLock(timeout=2);
\* "check": holding the lock, reading the pidfile; "open": stale file
\* gone, opening the pidfile for writing; "write": pidfile truncated;
\* "running": check_pid_process returned; "cleanup": in cleanup_pidfile,
\* waiting for the lock; "remove": holding it.  Final steps: "exited",
\* "inTheWay" (ProcessInTheWay), "invalid" (InvalidPidFile), "crashed".
Steps == {"new", "lock", "check", "open", "write", "running", "cleanup",
          "remove", "exited", "inTheWay", "invalid", "crashed"}
Alive == {"lock", "check", "open", "write", "running", "cleanup", "remove"}

\* The process ends and the OS frees its PID and any flock it holds.
Exits(p, step) ==
    /\ pc' = [pc EXCEPT ![p] = step]
    /\ owner' = [owner EXCEPT ![pidOf[p]] = NoProc]
    /\ lock' = IF lock = p THEN NoProc ELSE lock

-----------------------------------------------------------------------------
(* check_pid_process                                                       *)

\* The OS starts a node process with a free PID.
Launch(p) ==
    /\ pc[p] = "new"
    /\ \E n \in Pids :
         /\ owner[n] = NoProc
         /\ owner' = [owner EXCEPT ![n] = p]
         /\ pidOf' = [pidOf EXCEPT ![p] = n]
    /\ pc' = [pc EXCEPT ![p] = "lock"]
    /\ UNCHANGED <<pidfile, lock>>

\* Mutant of AcquireLock: the lock is not waited for.
AcquireLockNoWait(p) ==
    /\ pc[p] = "lock"
    /\ lock' = p
    /\ pc' = [pc EXCEPT ![p] = "check"]
    /\ UNCHANGED <<pidOf, owner, pidfile>>

\* with FileLock(lock_path.path, timeout=2): the lock is free.
AcquireLock(p) ==
    /\ pc[p] = "lock"
    /\ lock = NoProc
    /\ lock' = p
    /\ pc' = [pc EXCEPT ![p] = "check"]
    /\ UNCHANGED <<pidOf, owner, pidfile>>

\* The lock stays held by another process for the two seconds: Timeout,
\* re-raised as ProcessInTheWay, and the process exits.
LockTimeout(p) ==
    /\ pc[p] = "lock"
    /\ lock \notin {NoProc, p}
    /\ Exits(p, "inTheWay")
    /\ UNCHANGED <<pidOf, pidfile>>

\* The pidfile check under the lock.  No file: go on.  A file that does
\* not split into a PID and a start time: InvalidPidFile.  A PID some
\* process holds (find_process succeeds): ProcessInTheWay.  A PID nobody
\* holds (NoSuchProcess): the stale file is removed.  Each raise leaves
\* the with-block, releasing the lock, and the process exits.
CheckPidfile(p) ==
    /\ pc[p] = "check"
    /\ CASE pidfile = Absent ->
              /\ pc' = [pc EXCEPT ![p] = "open"]
              /\ UNCHANGED <<owner, pidfile, lock>>
         [] pidfile = Empty ->
              /\ Exits(p, "invalid")
              /\ UNCHANGED pidfile
         [] owner[pidfile] # NoProc ->
              /\ Exits(p, "inTheWay")
              /\ UNCHANGED pidfile
         [] OTHER ->
              /\ pidfile' = Absent
              /\ pc' = [pc EXCEPT ![p] = "open"]
              /\ UNCHANGED <<owner, lock>>
    /\ UNCHANGED pidOf

\* pidfile.open("w") creates or truncates the file.
OpenPidfile(p) ==
    /\ pc[p] = "open"
    /\ pidfile' = Empty
    /\ pc' = [pc EXCEPT ![p] = "write"]
    /\ UNCHANGED <<pidOf, owner, lock>>

\* Mutant of WritePidfile: the lock is kept while the node runs.
WritePidfileKeepsLock(p) ==
    /\ pc[p] = "write"
    /\ pidfile' = pidOf[p]
    /\ pc' = [pc EXCEPT ![p] = "running"]
    /\ UNCHANGED <<pidOf, owner, lock>>

\* f.write of "<pid> <starttime>", the file is closed and the with-block
\* releases the lock: check_pid_process returns and the node runs.
WritePidfile(p) ==
    /\ pc[p] = "write"
    /\ pidfile' = pidOf[p]
    /\ lock' = NoProc
    /\ pc' = [pc EXCEPT ![p] = "running"]
    /\ UNCHANGED <<pidOf, owner>>

-----------------------------------------------------------------------------
(* cleanup_pidfile                                                          *)

\* The node stops and calls cleanup_pidfile.
Stop(p) ==
    /\ pc[p] = "running"
    /\ pc' = [pc EXCEPT ![p] = "cleanup"]
    /\ UNCHANGED <<pidOf, owner, pidfile, lock>>

\* with FileLock(lock_path.path): no timeout, it waits for the lock.
CleanupLock(p) ==
    /\ pc[p] = "cleanup"
    /\ lock = NoProc
    /\ lock' = p
    /\ pc' = [pc EXCEPT ![p] = "remove"]
    /\ UNCHANGED <<pidOf, owner, pidfile>>

\* pidfile.remove(): a missing file raises CannotRemovePidFile.  Either way
\* the lock is released and the process exits.
CleanupRemove(p) ==
    /\ pc[p] = "remove"
    /\ pidfile' = Absent
    /\ Exits(p, "exited")
    /\ UNCHANGED pidOf

-----------------------------------------------------------------------------
(* The environment.                                                         *)

Crash(p) ==
    /\ pc[p] \in Alive
    /\ Exits(p, "crashed")
    /\ UNCHANGED <<pidOf, pidfile>>

\* An unrelated process is started with a free PID, or exits.
OtherStarts(n) ==
    /\ owner[n] = NoProc
    /\ owner' = [owner EXCEPT ![n] = Other]
    /\ UNCHANGED <<pc, pidOf, pidfile, lock>>

OtherExits(n) ==
    /\ owner[n] = Other
    /\ owner' = [owner EXCEPT ![n] = NoProc]
    /\ UNCHANGED <<pc, pidOf, pidfile, lock>>

-----------------------------------------------------------------------------

\* No node runs yet; a pidfile may be left from before (a crash, a reboot).
Init ==
    /\ pc = [p \in Procs |-> "new"]
    /\ pidOf = [p \in Procs |-> NoProc]
    /\ owner = [n \in Pids |-> NoProc]
    /\ pidfile \in {Absent} \cup Pids
    /\ lock = NoProc

Step(p) ==
    \/ Launch(p)
    \/ AcquireLock(p)
    \/ LockTimeout(p)
    \/ CheckPidfile(p)
    \/ OpenPidfile(p)
    \/ WritePidfile(p)
    \/ Stop(p)
    \/ CleanupLock(p)
    \/ CleanupRemove(p)

Next ==
    \/ \E p \in Procs : Step(p) \/ Crash(p)
    \/ \E n \in Pids : OtherStarts(n) \/ OtherExits(n)

\* A live process keeps being scheduled.  FileLock(timeout=2) returns
\* within two seconds, with the lock or with Timeout; cleanup's FileLock
\* polls until it finds the lock free.  Launching, stopping, crashes and
\* unrelated processes are not forced.
Fairness ==
    \A p \in Procs :
        /\ WF_vars(AcquireLock(p) \/ LockTimeout(p))
        /\ WF_vars(CheckPidfile(p))
        /\ WF_vars(OpenPidfile(p))
        /\ WF_vars(WritePidfile(p))
        /\ WF_vars(CleanupLock(p))
        /\ WF_vars(CleanupRemove(p))

Spec == Init /\ [][Next]_vars /\ Fairness

-----------------------------------------------------------------------------
(* Properties.                                                              *)

TypeOK ==
    /\ pc \in [Procs -> Steps]
    /\ pidOf \in [Procs -> Pids \cup {NoProc}]
    /\ owner \in [Pids -> Procs \cup {Other, NoProc}]
    /\ pidfile \in {Absent, Empty} \cup Pids
    /\ lock \in Procs \cup {NoProc}

Instance(p) == pc[p] \in {"running", "cleanup"}

\* check_pid_process lets at most one node run at a time, and the pidfile
\* names the node that runs, whatever the interleaving of the processes'
\* checks, crashes and stale files.
SingleInstance ==
    \A p, q \in Procs :
        Instance(p) => (Instance(q) => p = q) /\ pidfile = pidOf[p]

\* cleanup_pidfile waits for the lock without a timeout; a node that stops
\* nevertheless gets it and exits (or crashes).
CleanupCompletes ==
    \A p \in Procs : pc[p] = "cleanup" ~> pc[p] \in {"exited", "crashed"}

\* The comment in check_pid_process: ProcessInTheWay is raised when some
\* "other process is running at that PID".  A process is never turned
\* away by the pidfile because the PID it names is its own.
RefusedOnlyByOther ==
    [][\A p \in Procs :
         pc[p] = "check" /\ pc'[p] = "inTheWay" => owner[pidfile] # p]_vars

\* The docstring of check_pid_process: the pidfile holds "our PID + start
\* time".  An unparsable (empty) pidfile exists only while its writer is
\* between open("w") and the write.
PidfileWellFormed ==
    pidfile = Empty => \E p \in Procs : pc[p] = "write"

=============================================================================
