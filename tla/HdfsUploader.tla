---------------------------- MODULE HdfsUploader ----------------------------
(***************************************************************************)
(* The process-local asynchronous uploader (utils/async_hdfs_uploader.py). *)
(* Training threads enqueue copies and go on; a pool of daemon threads     *)
(* takes them from a queue.Queue, tries each one retry_count + 1 times,    *)
(* and releases the waiters of a condition variable.                       *)
(*                                                                         *)
(* Every "with self._lock" block (the condition shares that lock), every   *)
(* queue.Queue call and every copy attempt is one step.  The steps of      *)
(* different threads interleave freely between them.                       *)
(***************************************************************************)
EXTENDS Integers, Sequences, FiniteSets

CONSTANTS
  Callers,     \* threads that call the uploader
  Closers,     \* those that call shutdown_uploader
  Workers,     \* the pool, max_workers of them
  Paths,       \* local paths given as src
  Dirs,        \* those that are directories
  All,         \* what wait_for_all waits for, beside the single paths
  RetryCount,  \* retry_count
  FinalWaits,  \* the values of final_wait given to shutdown
  Timeouts,    \* whether waiting calls pass a timeout
  MaxTasks     \* bound: tasks enqueued in a behaviour

ASSUME ConfigAssumption ==
  /\ Workers # {} /\ IsFiniteSet(Workers)      \* max(1, max_workers)
  /\ RetryCount \in Nat                        \* max(0, retry_count)
  /\ Dirs \subseteq Paths /\ All \notin Paths
  /\ FinalWaits \subseteq BOOLEAN /\ Timeouts \subseteq BOOLEAN
  /\ MaxTasks \in Nat

\* shutdown_uploader runs in the finally block of the thread that trained,
\* so a process that shuts the pool down has no other caller left.
ASSUME CloserIsAlone ==
  /\ Closers \subseteq Callers
  /\ \A c \in Closers : Callers = {c}

VARIABLES
  enabled,     \* config.enable
  queue,       \* the items of queue.Queue: task ids and sentinels
  unfinished,  \* queue.unfinished_tasks
  nextId,      \* _next_id
  srcOf,       \* src of the task with a given id
  inflight,    \* _inflight_by_src, {} for a missing key
  failed,      \* ids in _failed
  uploaded,    \* ids whose hdfs_io.copy returned success
  remote,      \* what HDFS holds at the destination of a path
  pc,          \* where each caller is
  putting,     \* id a caller has registered and not yet put in the queue
  target,      \* what a waiting caller waits for
  timed,       \* the waiting call has a deadline
  result,      \* what the last waiting or disabled call returned
  final,       \* shutdown was called with final_wait
  sentinels,   \* sentinels put by shutdown so far
  wpc,         \* where each worker is
  holding,     \* item a worker took from the queue
  attempt      \* attempt a worker is making

callerVars == <<pc, putting, target, timed, result, final, sentinels>>
workerVars == <<wpc, holding, attempt>>
copyVars   == <<failed, uploaded, remote>>
idVars     == <<nextId, srcOf, inflight>>
vars == <<enabled, queue, unfinished, idVars, copyVars, callerVars, workerVars>>

Ids      == 0 .. MaxTasks - 1
Sentinel == -1
NoItem   == -2
Settled  == uploaded \cup failed
NoSrc    == All

TypeOK ==
  /\ enabled \in BOOLEAN
  /\ queue \in Seq(Ids \cup {Sentinel})
  /\ unfinished \in Int
  /\ nextId \in 0 .. MaxTasks
  /\ srcOf \in [Ids -> Paths \cup {NoSrc}]
  /\ inflight \in [Paths -> SUBSET Ids]
  /\ failed \subseteq Ids
  /\ uploaded \subseteq Ids
  /\ remote \in [Paths -> {"absent", "partial", "whole", "nested"}]
  /\ pc \in [Callers -> {"idle", "put", "check", "asleep", "sentinels", "closed"}]
  /\ putting \in [Callers -> Ids \cup {NoItem}]
  /\ target \in [Callers -> Paths \cup {All}]
  /\ timed \in [Callers -> BOOLEAN]
  /\ result \in [Callers -> {"none", "true", "false", "copied", "raised"}]
  /\ final \in BOOLEAN
  /\ sentinels \in 0 .. Cardinality(Workers)
  /\ wpc \in [Workers -> {"get", "copy", "mark", "finalize", "task_done", "exited"}]
  /\ holding \in [Workers -> Ids \cup {Sentinel, NoItem}]
  /\ attempt \in [Workers -> 1 .. RetryCount + 1]
  /\ \A c \in Callers : pc[c] = "put" => putting[c] \in Ids
  /\ \A w \in Workers : wpc[w] \in {"copy", "mark", "finalize"} => holding[w] \in Ids

\* __init__ and start: the pool is running and there is nothing to do.
Init ==
  /\ enabled \in BOOLEAN
  /\ queue = <<>> /\ unfinished = 0
  /\ nextId = 0 /\ srcOf = [id \in Ids |-> NoSrc] /\ inflight = [p \in Paths |-> {}]
  /\ failed = {} /\ uploaded = {} /\ remote = [p \in Paths |-> "absent"]
  /\ pc = [c \in Callers |-> "idle"]
  /\ putting = [c \in Callers |-> NoItem]
  /\ target = [c \in Callers |-> All]
  /\ timed = [c \in Callers |-> FALSE]
  /\ result = [c \in Callers |-> "none"]
  /\ final = FALSE /\ sentinels = 0
  /\ wpc = [w \in Workers |-> "get"]
  /\ holding = [w \in Workers |-> NoItem]
  /\ attempt = [w \in Workers |-> 1]

-----------------------------------------------------------------------------
(* Calls of the training threads.                                          *)

\* What a copy of p leaves at its destination.  "hdfs dfs -put" of a
\* directory onto an existing one puts it inside; a file is overwritten (-f).
\* A put that dies may leave a directory it had only begun.
AfterCopy(p) ==
  IF p \in Dirs /\ remote[p] # "absent" THEN "nested" ELSE "whole"

AfterFailure(p) ==
  {remote[p]} \cup IF p \in Dirs /\ remote[p] = "absent" THEN {"partial"} ELSE {}

\* enqueue_copy of a disabled uploader: the caller copies, and an error is
\* raised to it.
SyncCopy(c, p) ==
  /\ pc[c] = "idle" /\ ~enabled
  /\ \/ /\ result' = [result EXCEPT ![c] = "copied"]
        /\ remote' = [remote EXCEPT ![p] = AfterCopy(p)]
     \/ /\ result' = [result EXCEPT ![c] = "raised"]
        /\ \E r \in AfterFailure(p) : remote' = [remote EXCEPT ![p] = r]
  /\ UNCHANGED <<enabled, queue, unfinished, idVars, failed, uploaded, pc,
                 putting, target, timed, final, sentinels, workerVars>>

\* enqueue_copy, first half: under the lock, take an id and register it.
Register(c, p) ==
  /\ pc[c] = "idle" /\ enabled
  /\ nextId < MaxTasks
  /\ nextId' = nextId + 1
  /\ srcOf' = [srcOf EXCEPT ![nextId] = p]
  /\ inflight' = [inflight EXCEPT ![p] = @ \cup {nextId}]
  /\ putting' = [putting EXCEPT ![c] = nextId]
  /\ pc' = [pc EXCEPT ![c] = "put"]
  /\ UNCHANGED <<enabled, queue, unfinished, copyVars, target, timed, result,
                 final, sentinels, workerVars>>

\* enqueue_copy, second half: queue.put, outside the lock.
Put(c) ==
  /\ pc[c] = "put"
  /\ queue' = Append(queue, putting[c])
  /\ unfinished' = unfinished + 1
  /\ putting' = [putting EXCEPT ![c] = NoItem]
  /\ pc' = [pc EXCEPT ![c] = "idle"]
  /\ UNCHANGED <<enabled, idVars, copyVars, target, timed, result, final,
                 sentinels, workerVars>>

\* wait_for_path (t a path) and wait_for_all (t = All).
StartWait(c, t, deadline) ==
  /\ pc[c] = "idle"
  /\ target' = [target EXCEPT ![c] = t]
  /\ timed' = [timed EXCEPT ![c] = deadline]
  /\ result' = [result EXCEPT ![c] = "none"]
  /\ pc' = [pc EXCEPT ![c] = "check"]
  /\ UNCHANGED <<enabled, queue, unfinished, idVars, copyVars, putting, final,
                 sentinels, workerVars>>

\* The condition both waiting loops test.
PendingInQueue(t) == IF t = All THEN queue # <<>> ELSE inflight[t] # {}

Pending(t) ==
  IF t = All THEN unfinished > 0 \/ \E p \in Paths : inflight[p] # {}
             ELSE inflight[t] # {}

\* One test of the loop, and cv.wait, which sleeps and gives the lock back.
\* A caller whose deadline has passed gives up instead of sleeping.
Check(c) ==
  /\ pc[c] = "check"
  /\ \/ /\ ~Pending(target[c])
        /\ result' = [result EXCEPT ![c] = "true"]
        /\ pc' = [pc EXCEPT ![c] = IF final THEN "sentinels" ELSE "idle"]
     \/ /\ Pending(target[c])
        /\ pc' = [pc EXCEPT ![c] = "asleep"]
        /\ UNCHANGED result
     \/ /\ Pending(target[c]) /\ timed[c]
        /\ result' = [result EXCEPT ![c] = "false"]
        /\ pc' = [pc EXCEPT ![c] = "idle"]
  /\ UNCHANGED <<enabled, queue, unfinished, idVars, copyVars, putting, target,
                 timed, final, sentinels, workerVars>>

\* cv.wait(timeout) returns because its time is up.
WakeOnTimeout(c) ==
  /\ pc[c] = "asleep" /\ timed[c]
  /\ pc' = [pc EXCEPT ![c] = "check"]
  /\ UNCHANGED <<enabled, queue, unfinished, idVars, copyVars, putting, target,
                 timed, result, final, sentinels, workerVars>>

\* shutdown(final_wait): wait_for_all without a deadline, or straight on.
Shutdown(c, finalWait) ==
  /\ c \in Closers /\ pc[c] = "idle"
  /\ final' = finalWait
  /\ target' = [target EXCEPT ![c] = All]
  /\ timed' = [timed EXCEPT ![c] = FALSE]
  /\ result' = [result EXCEPT ![c] = "none"]
  /\ pc' = [pc EXCEPT ![c] = IF finalWait THEN "check" ELSE "sentinels"]
  /\ UNCHANGED <<enabled, queue, unfinished, idVars, copyVars, putting,
                 sentinels, workerVars>>

\* A disabled uploader started no worker, so there is no one to stop.
PoolSize == IF enabled THEN Cardinality(Workers) ELSE 0

\* Sentinels queue behind the tasks.
JumpTheQueue == <<Sentinel>> \o queue
WithSentinel == Append(queue, Sentinel)

PutSentinel(c) ==
  /\ pc[c] = "sentinels" /\ sentinels < PoolSize
  /\ queue' = WithSentinel
  /\ unfinished' = unfinished + 1
  /\ sentinels' = sentinels + 1
  /\ UNCHANGED <<enabled, idVars, copyVars, pc, putting, target, timed, result,
                 final, workerVars>>

\* t.join(timeout=30) for every worker: shutdown returns when the workers have
\* exited or, worker by worker, when its 30 seconds are over.
Join(c) ==
  /\ pc[c] = "sentinels" /\ sentinels = PoolSize
  /\ pc' = [pc EXCEPT ![c] = "closed"]
  /\ UNCHANGED <<enabled, queue, unfinished, idVars, copyVars, putting, target,
                 timed, result, final, sentinels, workerVars>>

-----------------------------------------------------------------------------
(* _worker_loop.                                                           *)

\* queue.get: workers idle in it until there is an item.
Get(w) ==
  /\ wpc[w] = "get" /\ queue # <<>>
  /\ holding' = [holding EXCEPT ![w] = Head(queue)]
  /\ queue' = Tail(queue)
  /\ attempt' = [attempt EXCEPT ![w] = 1]
  /\ wpc' = [wpc EXCEPT ![w] = IF Head(queue) = Sentinel THEN "task_done" ELSE "copy"]
  /\ UNCHANGED <<enabled, unfinished, idVars, copyVars, callerVars>>

\* A copy that returned ends _run_task.
AfterSuccess(w) == [wpc EXCEPT ![w] = "finalize"]

\* for attempt in range(retry_count + 1)
MayRetry(w) == attempt[w] <= RetryCount

\* _do_copy returned.
CopyOk(w) ==
  /\ wpc[w] = "copy"
  /\ LET id == holding[w] IN
       /\ uploaded' = uploaded \cup {id}
       /\ remote' = [remote EXCEPT ![srcOf[id]] = AfterCopy(srcOf[id])]
  /\ wpc' = AfterSuccess(w)
  /\ UNCHANGED <<enabled, queue, unfinished, idVars, failed, callerVars,
                 holding, attempt>>

\* _do_copy raised: the copy returned False or threw.  The worker backs off
\* and tries again, or gives the task up.
CopyFail(w) ==
  /\ wpc[w] = "copy"
  /\ LET p == srcOf[holding[w]] IN
       \E r \in AfterFailure(p) : remote' = [remote EXCEPT ![p] = r]
  /\ \/ /\ MayRetry(w)
        /\ attempt' = [attempt EXCEPT ![w] = @ + 1]
        /\ UNCHANGED wpc
     \/ /\ ~MayRetry(w)
        /\ wpc' = [wpc EXCEPT ![w] = "mark"]
        /\ UNCHANGED attempt
  /\ UNCHANGED <<enabled, queue, unfinished, idVars, failed, uploaded,
                 callerVars, holding>>

\* _mark_failed.
MarkFailed(w) ==
  /\ wpc[w] = "mark"
  /\ failed' = failed \cup {holding[w]}
  /\ wpc' = [wpc EXCEPT ![w] = "finalize"]
  /\ UNCHANGED <<enabled, queue, unfinished, idVars, uploaded, remote,
                 callerVars, holding, attempt>>

\* inflight_cv.notify_all
NoOneWoken == pc
Awaken == [c \in Callers |-> IF pc[c] = "asleep" THEN "check" ELSE pc[c]]

\* What is left in flight of a path; the key goes away with the last id.
DropPath(p, id) == {}
DropTask(p, id) == inflight[p] \ {id}

\* _finalize: under the lock, drop the id and notify.
Finalize(w) ==
  /\ wpc[w] = "finalize"
  /\ LET p == srcOf[holding[w]] IN
       inflight' = [inflight EXCEPT ![p] = DropTask(p, holding[w])]
  /\ pc' = Awaken
  /\ wpc' = [wpc EXCEPT ![w] = "task_done"]
  /\ UNCHANGED <<enabled, queue, unfinished, nextId, srcOf, copyVars, putting,
                 target, timed, result, final, sentinels, holding, attempt>>

TasksOnly(w)      == IF holding[w] = Sentinel THEN unfinished ELSE unfinished - 1
OneLessToDo(w)    == unfinished - 1

\* queue.task_done; a worker that took the sentinel returns.
TaskDone(w) ==
  /\ wpc[w] = "task_done"
  /\ unfinished' = OneLessToDo(w)
  /\ wpc' = [wpc EXCEPT ![w] = IF holding[w] = Sentinel THEN "exited" ELSE "get"]
  /\ holding' = [holding EXCEPT ![w] = NoItem]
  /\ UNCHANGED <<enabled, queue, idVars, copyVars, callerVars, attempt>>

-----------------------------------------------------------------------------
CallerStep(c) ==
  \/ \E p \in Paths : SyncCopy(c, p) \/ Register(c, p)
  \/ Put(c)
  \/ \E t \in Paths \cup {All}, deadline \in Timeouts : StartWait(c, t, deadline)
  \/ Check(c)
  \/ WakeOnTimeout(c)
  \/ \E finalWait \in FinalWaits : Shutdown(c, finalWait)
  \/ PutSentinel(c)
  \/ Join(c)

WorkerStep(w) ==
  \/ Get(w) \/ CopyOk(w) \/ CopyFail(w) \/ MarkFailed(w) \/ Finalize(w) \/ TaskDone(w)

Next == (\E c \in Callers : CallerStep(c)) \/ (\E w \in Workers : WorkerStep(w))

Spec == Init /\ [][Next]_vars

\* Threads are scheduled and a copy attempt ends (hdfs_io runs a command and
\* waits for it); nothing obliges a caller to make a call.
Fairness ==
  /\ \A c \in Callers :
       /\ WF_vars(Put(c)) /\ WF_vars(Check(c)) /\ WF_vars(WakeOnTimeout(c))
       /\ WF_vars(PutSentinel(c)) /\ WF_vars(Join(c))
  /\ \A w \in Workers : WF_vars(WorkerStep(w))

FairSpec == Spec /\ Fairness

-----------------------------------------------------------------------------
(* Where a task is.                                                        *)

Issued        == 0 .. nextId - 1
Queued(id)    == \E i \in DOMAIN queue : queue[i] = id
HeldBy(w, id) == wpc[w] \in {"copy", "mark", "finalize"} /\ holding[w] = id
Held(id)      == \E w \in Workers : HeldBy(w, id)
PutBy(c, id)  == pc[c] = "put" /\ putting[c] = id
BeingPut(id)  == \E c \in Callers : PutBy(c, id)
Covers(t, id) == t = All \/ srcOf[id] = t

\* _inflight_by_src is at every moment the set of tasks somebody still has to
\* do: registered and not yet put, in the queue, or in a worker's hands up to
\* its _finalize.  The callers delete directories on the strength of it.
InflightExact ==
  \A p \in Paths, id \in Ids :
    id \in inflight[p] <=> /\ id \in Issued /\ srcOf[id] = p
                           /\ BeingPut(id) \/ Queued(id) \/ Held(id)

\* No task is in two places, taken by two workers or queued twice, and a task
\* still to be copied has no outcome yet: each one gets exactly one outcome.
SingleOwner(id) ==
  /\ \A c, d \in Callers : PutBy(c, id) /\ PutBy(d, id) => c = d
  /\ \A i, j \in DOMAIN queue : queue[i] = id /\ queue[j] = id => i = j
  /\ \A v, w \in Workers : HeldBy(v, id) /\ HeldBy(w, id) => v = w
  /\ BeingPut(id) => ~Queued(id) /\ ~Held(id)
  /\ Queued(id) => ~Held(id)
  /\ id \notin uploaded \cap failed
  /\ id \in Settled <=> /\ ~BeingPut(id) /\ ~Queued(id)
                        /\ \A w \in Workers : HeldBy(w, id) => wpc[w] = "finalize"

OneOwner == \A id \in Issued : SingleOwner(id)

\* unfinished_tasks counts the items put and not yet reported done, so
\* task_done never raises and wait_for_all's first test means what it says.
Busy == {w \in Workers : wpc[w] \in {"copy", "mark", "finalize", "task_done"}}
UnfinishedExact == unfinished = Len(queue) + Cardinality(Busy)

\* wait_for_path and wait_for_all return True only when every task they cover
\* that was registered before has been copied or recorded as failed: nobody
\* reads the path any more.
WaitCoversUploads ==
  [][\A c \in Callers :
       pc[c] = "check" /\ result'[c] = "true" =>
         \A id \in Issued : Covers(target[c], id) => id \in Settled]_vars

\* After shutdown(final_wait=True) has stopped waiting every task has its
\* outcome and what is left in the queue is sentinels, so joining the pool
\* with a timeout, and the end of the process, lose no upload.
FinalShutdownLosesNothing ==
  \A c \in Callers :
    final /\ pc[c] \in {"sentinels", "closed"} =>
      /\ Issued \subseteq Settled
      /\ \A i \in DOMAIN queue : queue[i] = Sentinel

-----------------------------------------------------------------------------
(* The inductive invariant behind them.                                    *)

\* Only registered tasks are anywhere, and each has a path.
Places ==
  /\ \A id \in Issued : srcOf[id] \in Paths
  /\ \A c \in Callers : pc[c] = "put" => putting[c] \in Issued
  /\ \A w \in Workers : wpc[w] \in {"copy", "mark", "finalize"} => holding[w] \in Issued
  /\ \A i \in DOMAIN queue : queue[i] \in Issued \cup {Sentinel}
  /\ Settled \subseteq Issued

\* A waiting call has no result yet.  A caller that shuts down does nothing
\* else any more, and waits for all.
Waits ==
  /\ \A c \in Callers : pc[c] \in {"check", "asleep"} => result[c] = "none"
  /\ final => \A c \in Callers : /\ pc[c] \in {"check", "asleep", "sentinels", "closed"}
                                 /\ target[c] = All /\ ~timed[c]

IInv == /\ TypeOK /\ Places /\ InflightExact /\ OneOwner /\ UnfinishedExact
        /\ Waits /\ FinalShutdownLosesNothing

-----------------------------------------------------------------------------
(* Liveness.                                                               *)

\* "Block until all enqueued uploads with ``src == path`` finish." (wait_for_path)
\* It returns, with retries and tasks of other paths around it: what it waits for
\* changes in _finalize, under the lock that it is notified with.
WaitForPathReturns ==
  \A c \in Callers : pc[c] = "check" /\ target[c] # All ~> pc[c] = "idle"

\* Every registered task is eventually copied or recorded as failed, even when
\* the pool is shut down without waiting: sentinels queue behind the tasks.
\* And whoever waits for the uploads of a path, as rotation of the checkpoints
\* does, is let go.
EveryUploadSettles ==
  /\ \A id \in Ids : id \in Issued ~> id \in Settled
  /\ WaitForPathReturns

\* "Block until queue is drained and inflight set is empty." (wait_for_all)
\* It does not always return once they are: _finalize notifies before the
\* worker's task_done, which notifies nobody.
WaitForAllReturns ==
  \A c \in Callers : pc[c] = "check" /\ target[c] = All ~> pc[c] \in {"idle", "sentinels"}

-----------------------------------------------------------------------------
(* What the uploader promises to the trainers.                             *)

taskStatus == [id \in Ids |-> IF id \notin Issued THEN "none"
                              ELSE IF id \in uploaded THEN "ok"
                              ELSE IF id \in failed THEN "failed" ELSE "pending"]
waitingFor == [c \in Callers |->
                 IF pc[c] \in {"check", "asleep"} THEN <<target[c], timed[c]>> ELSE <<>>]
waitedForAll == \E c \in Callers : pc[c] \in {"sentinels", "closed"} /\ final

Service == INSTANCE UploadService WITH
  status <- taskStatus, path <- srcOf, waiting <- waitingFor, closed <- waitedForAll

ServiceSpec == Service!Spec
=============================================================================
