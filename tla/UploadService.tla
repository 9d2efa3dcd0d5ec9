---------------------------- MODULE UploadService ----------------------------
(***************************************************************************)
(* What AsyncHdfsUploader promises to the code that calls it: a task given *)
(* to it is settled once, as copied or as failed; a wait that returns True *)
(* has seen every task it covers settled; and once shutdown has waited,    *)
(* nothing is left to settle.                                              *)
(***************************************************************************)
EXTENDS Integers, Sequences

CONSTANTS Callers, Paths, All, MaxTasks

VARIABLES
  status,   \* outcome of each task
  path,     \* its source
  waiting,  \* <<t, d>>: a caller waits for t, with a deadline if d; <<>>: it does not
  closed    \* shutdown(final_wait=True) has done its waiting

svars == <<status, path, waiting, closed>>
Tasks == 0 .. MaxTasks - 1

Init ==
  /\ status = [id \in Tasks |-> "none"]
  /\ path = [id \in Tasks |-> All]
  /\ waiting = [c \in Callers |-> <<>>]
  /\ closed = FALSE

\* enqueue_copy: ids are given in order.
Enqueue(c, p) ==
  \E id \in Tasks :
    /\ ~closed /\ waiting[c] = <<>>
    /\ status[id] = "none" /\ \A j \in 0 .. id - 1 : status[j] # "none"
    /\ status' = [status EXCEPT ![id] = "pending"]
    /\ path' = [path EXCEPT ![id] = p]
    /\ UNCHANGED <<waiting, closed>>

\* The pool settles a task.
Settle(id) ==
  /\ status[id] = "pending"
  /\ \E outcome \in {"ok", "failed"} : status' = [status EXCEPT ![id] = outcome]
  /\ UNCHANGED <<path, waiting, closed>>

Wait(c, t, d) ==
  /\ waiting[c] = <<>>
  /\ waiting' = [waiting EXCEPT ![c] = <<t, d>>]
  /\ UNCHANGED <<status, path, closed>>

AllCopied(t)   == \A id \in Tasks : (t = All \/ path[id] = t) => status[id] \in {"none", "ok"}
DrainedPath(t) == \A id \in Tasks : path[id] = t => status[id] # "pending"
Drained(t)     == \A id \in Tasks : (t = All \/ path[id] = t) => status[id] # "pending"

\* A wait returns True, or, for shutdown's own wait, closes the service.
Return(c) ==
  /\ waiting[c] # <<>> /\ Drained(waiting[c][1])
  /\ waiting' = [waiting EXCEPT ![c] = <<>>]
  /\ closed' \in IF waiting[c][1] = All THEN {closed, TRUE} ELSE {closed}
  /\ UNCHANGED <<status, path>>

\* A wait with a deadline gives up.
GiveUp(c) ==
  /\ waiting[c] # <<>> /\ waiting[c][2]
  /\ waiting' = [waiting EXCEPT ![c] = <<>>]
  /\ UNCHANGED <<status, path, closed>>

Next ==
  \/ \E c \in Callers, p \in Paths : Enqueue(c, p)
  \/ \E id \in Tasks : Settle(id)
  \/ \E c \in Callers, t \in Paths \cup {All}, d \in BOOLEAN : Wait(c, t, d)
  \/ \E c \in Callers : Return(c) \/ GiveUp(c)

Spec == Init /\ [][Next]_svars
=============================================================================
