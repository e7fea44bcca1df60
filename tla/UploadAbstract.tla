--------------------------- MODULE UploadAbstract ---------------------------
(***************************************************************************)
(* What an immutable upload session promises its caller (spec.md 4.3, 5,   *)
(* 8.4), without messages, retries or faults.                              *)
(*                                                                         *)
(* The server's coverage of each share grows by range union and never      *)
(* shrinks.  Each successful answer it gives is a set of progress records, *)
(* one per share it speaks of, and is sound when given: "finished" only    *)
(* for a share held in full, "required" never omitting a byte the server   *)
(* lacks.  The caller's progress changes only by taking over one answer    *)
(* (create opens the session with one; a chunk write or a listing updates *)
(* it with one) or by a restart, which drops the session.  A failed,       *)
(* abandoned or lost call removes its answer and changes nothing.          *)
(*                                                                         *)
(* The spec is checked as a PROPERTY of StorageClientUpload; Serve and     *)
(* Forget are stated as relations between two states, not in a form TLC   *)
(* would enumerate on its own.                                             *)
(***************************************************************************)
EXTENDS Naturals

CONSTANTS
    Shares,         \* share numbers of the upload
    ShareSize       \* bytes per share

VARIABLES
    stored,         \* server: share -> bytes it holds
    answers,        \* answers given and not yet taken or dropped
    session,        \* caller: "Created" | "Uploading"
    view            \* caller: share -> [finished, required]

avars == <<stored, answers, session, view>>

Bytes == 0 .. ShareSize - 1
Progress == [finished : BOOLEAN, required : SUBSET Bytes]
Unknown == [finished |-> FALSE, required |-> Bytes]

\* A progress record for share s that server state st justifies.
Sound(st, s, p) ==
    IF p.finished THEN st[s] = Bytes ELSE Bytes \ st[s] \subseteq p.required

\* An answer: progress for some of the shares, each one sound against st.
SoundAnswer(st, a) == \A s \in DOMAIN a : Sound(st, s, a[s])

\* The caller's progress once it has taken answer a.
Take(v, a) == [s \in Shares |-> IF s \in DOMAIN a THEN a[s] ELSE v[s]]

\* The server acts on a request: its coverage grows, and any answers it
\* gives are sound against what it now holds.
Serve ==
    /\ \A s \in Shares : stored[s] \subseteq stored'[s]
    /\ answers \subseteq answers'
    /\ \A a \in answers' \ answers : SoundAnswer(stored', a)
    /\ UNCHANGED <<session, view>>

\* Answers are dropped unread (a failed, abandoned or lost call).
Forget ==
    /\ answers' \subseteq answers
    /\ UNCHANGED <<stored, session, view>>

\* A create succeeds: the session starts from the answer it got.
Open ==
    /\ session = "Created"
    /\ session' = "Uploading"
    /\ \E a \in answers : view' = Take(view, a)
    /\ answers' \subseteq answers
    /\ UNCHANGED stored

\* A response is applied: the caller takes over what it said.  Knowledge
\* may go backwards (last-applied-response wins).
Learn ==
    /\ session = "Uploading"
    /\ \E a \in answers : view' = Take(view, a)
    /\ answers' \subseteq answers
    /\ UNCHANGED <<stored, session>>

\* The caller restarts: nothing of the session survives, and no answer to
\* the old session will be read.
Reset ==
    /\ session' = "Created"
    /\ view' = [s \in Shares |-> Unknown]
    /\ answers' = {}
    /\ UNCHANGED stored

Init ==
    /\ stored = [s \in Shares |-> {}]
    /\ answers = {}
    /\ session = "Created"
    /\ view = [s \in Shares |-> Unknown]

Next == Serve \/ Forget \/ Open \/ Learn \/ Reset

Spec == Init /\ [][Next]_avars

=============================================================================
