------------------------- MODULE HdfsUploaderProofs -------------------------
(***************************************************************************)
(* Theorems about HdfsUploader, for every number of threads, paths, tasks, *)
(* retries and workers.                                                    *)
(***************************************************************************)
EXTENDS HdfsUploader, FiniteSetTheorems, TLAPS

\* One-line helpers of the actions are always expanded.
USE DEF WithSentinel, AfterSuccess, DropTask, OneLessToDo, MayRetry

\* The pool has a number of workers, and that many sentinels stop it.
LEMMA PoolIsFinite == Cardinality(Workers) \in Nat /\ PoolSize \in 0 .. Cardinality(Workers)
BY FS_CardinalityType, ConfigAssumption DEF PoolSize

-----------------------------------------------------------------------------
\* Type correctness: every variable of the uploader keeps the values its
\* threads expect; in particular a worker never makes more than
\* retry_count + 1 attempts.
LEMMA TypeInit == Init => TypeOK
<1> SUFFICES ASSUME Init PROVE TypeOK
  OBVIOUS
<1>1. 0 \in 0 .. MaxTasks
  BY ConfigAssumption
<1>2. 1 \in 1 .. RetryCount + 1
  BY ConfigAssumption
<1>3. 0 \in 0 .. Cardinality(Workers)
  BY PoolIsFinite
<1>4. queue \in Seq(Ids \cup {Sentinel})
  BY DEF Init
<1>5. /\ srcOf \in [Ids -> Paths \cup {NoSrc}]
      /\ inflight \in [Paths -> SUBSET Ids]
      /\ remote \in [Paths -> {"absent", "partial", "whole", "nested"}]
  BY DEF Init, NoSrc
<1>6. /\ attempt \in [Workers -> 1 .. RetryCount + 1]
      /\ sentinels \in 0 .. Cardinality(Workers)
      /\ unfinished \in Int /\ nextId \in 0 .. MaxTasks
  BY <1>1, <1>2, <1>3 DEF Init
<1>7. /\ holding \in [Workers -> Ids \cup {Sentinel, NoItem}]
      /\ wpc \in [Workers -> {"get", "copy", "mark", "finalize", "task_done", "exited"}]
      /\ \A w \in Workers : wpc[w] = "get"
  BY DEF Init
<1>8. /\ pc \in [Callers -> {"idle", "put", "check", "asleep", "sentinels", "closed"}]
      /\ putting \in [Callers -> Ids \cup {NoItem}]
      /\ target \in [Callers -> Paths \cup {All}]
      /\ timed \in [Callers -> BOOLEAN]
      /\ result \in [Callers -> {"none", "true", "false", "copied", "raised"}]
      /\ \A c \in Callers : pc[c] = "idle"
  BY DEF Init
<1>9. enabled \in BOOLEAN /\ final \in BOOLEAN /\ failed \subseteq Ids /\ uploaded \subseteq Ids
  BY DEF Init
<1> QED
  BY <1>4, <1>5, <1>6, <1>7, <1>8, <1>9 DEF TypeOK

\* Every step of a calling thread keeps the types.
LEMMA TypeCaller == ASSUME TypeOK, NEW c \in Callers, CallerStep(c)
                    PROVE TypeOK'
<1> USE DEF TypeOK
<1>1. ASSUME NEW p \in Paths, SyncCopy(c, p) PROVE TypeOK'
  BY <1>1 DEF SyncCopy, AfterCopy, AfterFailure, idVars, workerVars
<1>2. ASSUME NEW p \in Paths, Register(c, p) PROVE TypeOK'
  <2>1. nextId \in Ids /\ nextId + 1 \in 0 .. MaxTasks
    BY <1>2, ConfigAssumption DEF Register, Ids
  <2> QED
    BY <1>2, <2>1 DEF Register, copyVars, workerVars
<1>3. CASE Put(c)
  <2>1. putting[c] \in Ids
    BY <1>3 DEF Put
  <2>2. queue' \in Seq(Ids \cup {Sentinel})
    BY <1>3, <2>1 DEF Put
  <2> QED
    BY <1>3, <2>1, <2>2 DEF Put, idVars, copyVars, workerVars
<1>4. ASSUME NEW t \in Paths \cup {All}, NEW deadline \in Timeouts,
             StartWait(c, t, deadline)
      PROVE  TypeOK'
  BY <1>4, ConfigAssumption DEF StartWait, idVars, copyVars, workerVars
<1>5. CASE Check(c)
  BY <1>5 DEF Check, idVars, copyVars, workerVars
<1>6. CASE WakeOnTimeout(c)
  BY <1>6 DEF WakeOnTimeout, idVars, copyVars, workerVars
<1>7. ASSUME NEW finalWait \in FinalWaits, Shutdown(c, finalWait) PROVE TypeOK'
  BY <1>7, ConfigAssumption DEF Shutdown, idVars, copyVars, workerVars
<1>8. CASE PutSentinel(c)
  <2>1. sentinels + 1 \in 0 .. Cardinality(Workers)
    BY <1>8, PoolIsFinite DEF PutSentinel
  <2> QED
    BY <1>8, <2>1 DEF PutSentinel, idVars, copyVars, workerVars
<1>9. CASE Join(c)
  BY <1>9 DEF Join, idVars, copyVars, workerVars
<1> QED
  BY <1>1, <1>2, <1>3, <1>4, <1>5, <1>6, <1>7, <1>8, <1>9 DEF CallerStep

\* Every step of a worker keeps the types.
LEMMA TypeWorker == ASSUME TypeOK, NEW w \in Workers, WorkerStep(w)
                    PROVE TypeOK'
<1> USE DEF TypeOK
<1>1. CASE Get(w)
  <2>1. /\ Head(queue) \in Ids \cup {Sentinel}
        /\ queue' \in Seq(Ids \cup {Sentinel})
    BY <1>1 DEF Get
  <2>2. 1 \in 1 .. RetryCount + 1
    BY ConfigAssumption
  <2> QED
    BY <1>1, <2>1, <2>2 DEF Get, idVars, copyVars, callerVars
<1>2. CASE CopyOk(w)
  BY <1>2 DEF CopyOk, AfterCopy, idVars, callerVars
<1>3. CASE CopyFail(w)
  <2>1. attempt' \in [Workers -> 1 .. RetryCount + 1]
    <3>1. CASE attempt[w] <= RetryCount /\ attempt' = [attempt EXCEPT ![w] = @ + 1]
      <4>1. attempt[w] + 1 \in 1 .. RetryCount + 1
        BY <3>1, ConfigAssumption
      <4> QED
        BY <3>1, <4>1
    <3> QED
      BY <1>3, <3>1 DEF CopyFail, MayRetry
  <2>2. remote' \in [Paths -> {"absent", "partial", "whole", "nested"}]
    <3> DEFINE p == srcOf[holding[w]]
    <3>1. PICK r \in AfterFailure(p) : remote' = [remote EXCEPT ![p] = r]
      BY <1>3 DEF CopyFail
    <3>2. CASE p \in Paths
      <4>1. r \in {"absent", "partial", "whole", "nested"}
        BY <3>2 DEF AfterFailure
      <4> QED
        BY <3>1, <4>1
    <3>3. CASE p \notin Paths
      BY <3>1, <3>3
    <3> QED
      BY <3>2, <3>3
  <2>3. wpc' \in [Workers -> {"get", "copy", "mark", "finalize", "task_done", "exited"}]
    BY <1>3 DEF CopyFail
  <2>4. \A v \in Workers : wpc'[v] \in {"copy", "mark", "finalize"}
             => wpc[v] \in {"copy", "mark", "finalize"}
    BY <1>3 DEF CopyFail
  <2> QED
    BY <1>3, <2>1, <2>2, <2>3, <2>4 DEF CopyFail, idVars, callerVars
<1>4. CASE MarkFailed(w)
  BY <1>4 DEF MarkFailed, idVars, callerVars
<1>5. CASE Finalize(w)
  BY <1>5 DEF Finalize, Awaken, copyVars
<1>6. CASE TaskDone(w)
  BY <1>6 DEF TaskDone, idVars, copyVars, callerVars
<1> QED
  BY <1>1, <1>2, <1>3, <1>4, <1>5, <1>6 DEF WorkerStep

\* So does a step that changes nothing.
LEMMA TypeStutter == TypeOK /\ UNCHANGED vars => TypeOK'
<1> SUFFICES ASSUME TypeOK, UNCHANGED vars PROVE TypeOK'
  OBVIOUS
<1>1. UNCHANGED <<enabled, queue, unfinished, nextId, srcOf, inflight, failed, uploaded, remote>>
  BY DEF vars, idVars, copyVars
<1>2. UNCHANGED <<pc, putting, target, timed, result, final, sentinels, wpc, holding, attempt>>
  BY DEF vars, callerVars, workerVars
<1> QED
  BY <1>1, <1>2 DEF TypeOK

-----------------------------------------------------------------------------
\* Where tasks are.  The proofs below say how an action moves PutBy, Queued
\* and HeldBy, and conclude from that without looking at the variables.
Located == Places /\ InflightExact /\ OneOwner

\* The same uniqueness of a queued task, by itself.
Once(id) == \A i, j \in DOMAIN queue : queue[i] = id /\ queue[j] = id => i = j

\* The queue is indexed from 1.
LEMMA QueueDomain == ASSUME TypeOK PROVE DOMAIN queue = 1 .. Len(queue) /\ Len(queue) \in Nat
BY DEF TypeOK

\* Ids given out are ids.
LEMMA IssuedAreIds == ASSUME TypeOK PROVE Issued \subseteq Ids
BY ConfigAssumption DEF TypeOK, Issued, Ids

\* At the start no task is anywhere.
LEMMA LocatedInit == Init => Located
<1> SUFFICES ASSUME Init PROVE Located
  OBVIOUS
<1>1. Issued = {}
  BY DEF Init, Issued
<1>2. /\ DOMAIN queue = {} /\ Settled = {}
      /\ \A c \in Callers : pc[c] = "idle"
      /\ \A w \in Workers : wpc[w] = "get"
      /\ \A p \in Paths : inflight[p] = {}
  BY DEF Init, Settled
<1>3. Places
  BY <1>1, <1>2 DEF Places
<1>4. InflightExact
  BY <1>1, <1>2 DEF InflightExact
<1>5. OneOwner
  BY <1>1 DEF OneOwner
<1> QED
  BY <1>3, <1>4, <1>5 DEF Located

\* A step that touches neither tasks nor the queue nor the workers, and moves
\* no caller into or out of the middle of enqueue_copy.
LEMMA LocatedFrame ==
  ASSUME TypeOK, Located,
         UNCHANGED <<queue, idVars, uploaded, failed, putting, wpc, holding>>,
         \A c \in Callers : pc'[c] = "put" <=> pc[c] = "put"
  PROVE  Located'
<1>1. /\ \A c \in Callers, id \in Ids : PutBy(c, id)' <=> PutBy(c, id)
      /\ \A w \in Workers, id \in Ids : HeldBy(w, id)' <=> HeldBy(w, id)
      /\ \A id \in Ids : Queued(id)' <=> Queued(id)
      /\ Issued' = Issued /\ Settled' = Settled
  BY DEF PutBy, HeldBy, Queued, Issued, Settled, idVars
<1>2. Places'
  BY <1>1 DEF Located, Places, idVars
<1>3. InflightExact'
  BY <1>1 DEF Located, InflightExact, BeingPut, Held, idVars
<1>4. OneOwner'
  <2> SUFFICES ASSUME NEW id \in Issued' PROVE SingleOwner(id)'
    BY DEF OneOwner
  <2>1. id \in Ids /\ SingleOwner(id)
    BY <1>1, IssuedAreIds DEF Located, OneOwner
  <2> QED
    BY <1>1, <2>1 DEF SingleOwner, BeingPut, Held
<1> QED
  BY <1>2, <1>3, <1>4 DEF Located

\* enqueue_copy registers a task: it is in flight, and with the caller alone.
LEMMA LocatedRegister ==
  ASSUME TypeOK, Located, NEW c \in Callers, NEW p \in Paths, Register(c, p)
  PROVE  Located'
<1>1. /\ nextId \in Ids /\ nextId \notin Issued
      /\ Issued' = Issued \cup {nextId} /\ Settled' = Settled
  BY ConfigAssumption DEF TypeOK, Register, Issued, Ids, Settled, copyVars
<1>2. /\ \A d \in Callers, id \in Ids : PutBy(d, id)' <=> PutBy(d, id) \/ (d = c /\ id = nextId)
      /\ \A w \in Workers, id \in Ids : HeldBy(w, id)' <=> HeldBy(w, id)
      /\ \A id \in Ids : Queued(id)' <=> Queued(id)
      /\ UNCHANGED <<queue, holding, wpc>>
  BY DEF TypeOK, Register, PutBy, HeldBy, Queued, workerVars
<1>3. /\ \A d \in Callers : ~PutBy(d, nextId)
      /\ \A w \in Workers : ~HeldBy(w, nextId)
      /\ ~Queued(nextId) /\ nextId \notin Settled
  <2>1. nextId # Sentinel
    BY <1>1 DEF Ids, Sentinel
  <2> QED
    BY <1>1, <2>1 DEF Located, Places, PutBy, HeldBy, Queued
<1>4. \A id \in Ids : srcOf'[id] = IF id = nextId THEN p ELSE srcOf[id]
  BY <1>1 DEF TypeOK, Register
<1>5. \A q \in Paths : inflight'[q] = IF q = p THEN inflight[q] \cup {nextId} ELSE inflight[q]
  BY DEF TypeOK, Register
<1>6. Places'
  <2>1. \A id \in Issued' : srcOf'[id] \in Paths
    BY <1>1, <1>4, IssuedAreIds DEF Located, Places
  <2>2. \A d \in Callers : pc'[d] = "put" => putting'[d] \in Issued'
    BY <1>1 DEF TypeOK, Register, Located, Places
  <2> QED
    BY <1>1, <1>2, <2>1, <2>2 DEF Located, Places
<1>7. InflightExact'
  <2> SUFFICES ASSUME NEW q \in Paths, NEW id \in Ids
               PROVE  id \in inflight'[q] <=>
                        /\ id \in Issued' /\ srcOf'[id] = q
                        /\ BeingPut(id)' \/ Queued(id)' \/ Held(id)'
    BY DEF InflightExact
  <2>1. CASE id = nextId
    <3>1. id \notin inflight[q]
      BY <1>1, <2>1 DEF Located, InflightExact
    <3> QED
      BY <1>1, <1>2, <1>4, <1>5, <2>1, <3>1 DEF BeingPut
  <2>2. CASE id # nextId
    <3>1. (BeingPut(id)' <=> BeingPut(id)) /\ (Held(id)' <=> Held(id))
      BY <1>2, <2>2 DEF BeingPut, Held
    <3>2. /\ id \in inflight'[q] <=> id \in inflight[q]
          /\ srcOf'[id] = srcOf[id] /\ (id \in Issued' <=> id \in Issued)
      BY <1>1, <1>4, <1>5, <2>2
    <3>3. Queued(id)' <=> Queued(id)
      BY <1>2
    <3> QED
      BY <3>1, <3>2, <3>3 DEF Located, InflightExact
  <2> QED
    BY <2>1, <2>2
<1>8. OneOwner'
  <2>1. uploaded' = uploaded /\ failed' = failed /\ wpc' = wpc
    BY DEF Register, copyVars, workerVars
  <2> SUFFICES ASSUME NEW id \in Issued' PROVE SingleOwner(id)'
    BY DEF OneOwner
  <2>2. id \in Ids
    BY <1>1, IssuedAreIds
  <2>3. CASE id = nextId
    <3>1. \A d \in Callers : PutBy(d, id)' <=> d = c
      BY <1>2, <1>3, <2>2, <2>3
    <3>2. ~Queued(id)' /\ (\A w \in Workers : ~HeldBy(w, id)') /\ id \notin Settled'
      BY <1>1, <1>2, <1>3, <2>2, <2>3
    <3>3. \A i \in DOMAIN queue : queue[i] # id
      BY <1>3, <2>3 DEF Queued
    <3>4. id \notin uploaded' /\ BeingPut(id)' /\ ~Held(id)'
      BY <3>1, <3>2 DEF Settled, BeingPut, Held
    <3>5. \A i, j \in DOMAIN queue' : queue'[i] = id /\ queue'[j] = id => i = j
      BY <1>2, <3>3
    <3> QED
      BY <3>1, <3>2, <3>4, <3>5 DEF SingleOwner
  <2>4. CASE id # nextId
    <3>1. SingleOwner(id)
      BY <1>1, <2>4 DEF Located, OneOwner
    <3>2. /\ \A d \in Callers : PutBy(d, id)' <=> PutBy(d, id)
          /\ \A w \in Workers : HeldBy(w, id)' <=> HeldBy(w, id)
          /\ Queued(id)' <=> Queued(id)
      BY <1>2, <2>2, <2>4
    <3>3. (BeingPut(id)' <=> BeingPut(id)) /\ (Held(id)' <=> Held(id))
      BY <3>2 DEF BeingPut, Held
    <3> QED
      BY <1>1, <1>2, <2>1, <3>1, <3>2, <3>3 DEF SingleOwner
  <2> QED
    BY <2>3, <2>4
<1> QED
  BY <1>6, <1>7, <1>8 DEF Located

\* enqueue_copy puts the task in the queue: it moves there from the caller.
LEMMA LocatedPut ==
  ASSUME TypeOK, Located, NEW c \in Callers, Put(c)
  PROVE  Located'
<1> DEFINE new == putting[c]
<1>1. /\ new \in Issued /\ new \in Ids /\ PutBy(c, new)
      /\ Issued' = Issued /\ Settled' = Settled
  BY IssuedAreIds DEF Located, Places, Put, PutBy, Issued, Settled, idVars, copyVars
<1>2. /\ \A d \in Callers, id \in Ids : PutBy(d, id)' <=> PutBy(d, id) /\ d # c
      /\ \A w \in Workers, id \in Ids : HeldBy(w, id)' <=> HeldBy(w, id)
  BY DEF TypeOK, Put, PutBy, HeldBy, workerVars
<1>3. /\ Len(queue) \in Nat /\ Len(queue') = Len(queue) + 1
      /\ DOMAIN queue = 1 .. Len(queue) /\ DOMAIN queue' = 1 .. Len(queue) + 1
      /\ \A i \in DOMAIN queue : queue'[i] = queue[i]
      /\ queue'[Len(queue) + 1] = new
  BY <1>1 DEF TypeOK, Put
<1>4. \A id \in Ids : Queued(id)' <=> Queued(id) \/ id = new
  BY <1>3 DEF Queued
<1>5. ~Queued(new) /\ ~Held(new) /\ \A d \in Callers : PutBy(d, new) => d = c
  BY <1>1 DEF Located, OneOwner, SingleOwner, BeingPut
<1>6. Places'
  <2>1. \A d \in Callers : pc'[d] = "put" => putting'[d] \in Issued
    BY DEF TypeOK, Located, Places, Put
  <2>2. \A i \in DOMAIN queue' : queue'[i] \in Issued \cup {Sentinel}
    BY <1>1, <1>3 DEF Located, Places
  <2> QED
    BY <1>1, <2>1, <2>2 DEF Located, Places, Put, idVars, workerVars
<1>7. InflightExact'
  <2> SUFFICES ASSUME NEW q \in Paths, NEW id \in Ids
               PROVE  id \in inflight'[q] <=>
                        /\ id \in Issued' /\ srcOf'[id] = q
                        /\ BeingPut(id)' \/ Queued(id)' \/ Held(id)'
    BY DEF InflightExact
  <2>1. BeingPut(id)' \/ Queued(id)' <=> BeingPut(id) \/ Queued(id)
    BY <1>1, <1>2, <1>4, <1>5 DEF BeingPut, PutBy
  <2>2. Held(id)' <=> Held(id)
    BY <1>2 DEF Held
  <2> QED
    BY <1>1, <2>1, <2>2 DEF Located, InflightExact, Put, idVars
<1>8. \A id \in Issued : Once(id) => Once(id)'
  <2> SUFFICES ASSUME NEW id \in Issued, Once(id) PROVE Once(id)'
    OBVIOUS
  <2>1. CASE id = new
    BY <1>3, <1>5, <2>1 DEF Once, Queued
  <2>2. CASE id # new
    BY <1>3, <2>2 DEF Once
  <2> QED
    BY <2>1, <2>2
<1>9. OneOwner'
  <2>1. uploaded' = uploaded /\ failed' = failed /\ wpc' = wpc
    BY DEF Put, copyVars, workerVars
  <2> SUFFICES ASSUME NEW id \in Issued' PROVE SingleOwner(id)'
    BY DEF OneOwner
  <2>2. id \in Ids /\ SingleOwner(id)
    BY <1>1, IssuedAreIds DEF Located, OneOwner
  <2>3. Once(id)'
    BY <1>1, <1>8, <2>2 DEF SingleOwner, Once
  <2>4. /\ \A d \in Callers : PutBy(d, id)' <=> PutBy(d, id) /\ d # c
        /\ \A w \in Workers : HeldBy(w, id)' <=> HeldBy(w, id)
        /\ Queued(id)' <=> Queued(id) \/ id = new
        /\ Held(id)' <=> Held(id)
    BY <1>2, <1>4, <2>2 DEF Held
  <2>5. CASE id = new
    <3>1. ~BeingPut(id)' /\ Queued(id)' /\ ~Held(id)' /\ BeingPut(id)
      BY <1>1, <1>5, <2>4, <2>5 DEF BeingPut
    <3> QED
      BY <1>1, <2>1, <2>2, <2>3, <2>4, <3>1 DEF SingleOwner, Once
  <2>6. CASE id # new
    <3>1. \A d \in Callers : PutBy(d, id)' <=> PutBy(d, id)
      BY <2>4, <2>6 DEF PutBy
    <3>2. BeingPut(id)' <=> BeingPut(id)
      BY <3>1 DEF BeingPut
    <3> QED
      BY <1>1, <2>1, <2>2, <2>3, <2>4, <2>6, <3>1, <3>2 DEF SingleOwner, Once
  <2> QED
    BY <2>5, <2>6
<1> QED
  BY <1>6, <1>7, <1>9 DEF Located

\* A sentinel in the queue is no task and displaces none.
LEMMA LocatedPutSentinel ==
  ASSUME TypeOK, Located, NEW c \in Callers, PutSentinel(c)
  PROVE  Located'
<1>1. /\ Len(queue) \in Nat /\ Len(queue') = Len(queue) + 1
      /\ DOMAIN queue = 1 .. Len(queue) /\ DOMAIN queue' = 1 .. Len(queue) + 1
      /\ \A i \in DOMAIN queue : queue'[i] = queue[i]
      /\ queue'[Len(queue) + 1] = Sentinel
  BY DEF TypeOK, PutSentinel
<1>2. \A id \in Ids : id # Sentinel
  BY DEF Ids, Sentinel
<1>3. /\ \A d \in Callers, id \in Ids : PutBy(d, id)' <=> PutBy(d, id)
      /\ \A w \in Workers, id \in Ids : HeldBy(w, id)' <=> HeldBy(w, id)
      /\ \A id \in Ids : Queued(id)' <=> Queued(id)
      /\ Issued' = Issued /\ Settled' = Settled
      /\ UNCHANGED <<srcOf, inflight, uploaded, failed, pc, putting, wpc, holding>>
  BY <1>1, <1>2 DEF PutSentinel, PutBy, HeldBy, Queued, Issued, Settled,
                    idVars, copyVars, workerVars
<1>4. \A id \in Ids : /\ BeingPut(id)' <=> BeingPut(id)
                      /\ Held(id)' <=> Held(id)
  BY <1>3 DEF BeingPut, Held
<1>5. Places'
  <2>1. \A i \in DOMAIN queue' : queue'[i] \in Issued \cup {Sentinel}
    BY <1>1 DEF Located, Places
  <2> QED
    BY <1>3, <2>1 DEF Located, Places
<1>6. InflightExact'
  BY <1>3, <1>4 DEF Located, InflightExact
<1>7. OneOwner'
  <2> SUFFICES ASSUME NEW id \in Issued' PROVE SingleOwner(id)'
    BY DEF OneOwner
  <2>1. id \in Ids /\ SingleOwner(id)
    BY <1>3, IssuedAreIds DEF Located, OneOwner
  <2>2. Once(id)'
    BY <1>1, <1>2, <2>1 DEF SingleOwner, Once
  <2> QED
    BY <1>3, <1>4, <2>1, <2>2 DEF SingleOwner, Once
<1> QED
  BY <1>5, <1>6, <1>7 DEF Located

\* queue.get: the task moves from the queue to the one worker that took it.
LEMMA LocatedGet ==
  ASSUME TypeOK, Located, NEW w \in Workers, Get(w)
  PROVE  Located'
<1> DEFINE item == Head(queue)
<1>1. /\ Len(queue) \in Nat /\ Len(queue) > 0
      /\ DOMAIN queue = 1 .. Len(queue) /\ DOMAIN queue' = 1 .. Len(queue) - 1
      /\ \A i \in DOMAIN queue' : queue'[i] = queue[i + 1]
      /\ item = queue[1]
  BY DEF TypeOK, Get
<1>2. /\ item \in Issued \cup {Sentinel}
      /\ Issued' = Issued /\ Settled' = Settled /\ Issued \subseteq Ids
      /\ \A id \in Ids : id # Sentinel
      /\ UNCHANGED <<srcOf, inflight, uploaded, failed, pc, putting>>
  BY <1>1, IssuedAreIds DEF Located, Places, Get, Issued, Settled, Ids, Sentinel,
                            idVars, copyVars, callerVars
<1>3. \A d \in Callers, id \in Ids : PutBy(d, id)' <=> PutBy(d, id)
  BY <1>2 DEF PutBy
<1>4. \A v \in Workers, id \in Ids :
        HeldBy(v, id)' <=> HeldBy(v, id) \/ (v = w /\ id = item)
  BY <1>2 DEF TypeOK, Get, HeldBy
<1>5. \A id \in Issued : Queued(id)' <=> Queued(id) /\ id # item
  <2> SUFFICES ASSUME NEW id \in Issued PROVE Queued(id)' <=> Queued(id) /\ id # item
    OBVIOUS
  <2>1. Once(id)
    BY DEF Located, OneOwner, SingleOwner, Once
  <2>2. ASSUME Queued(id)' PROVE Queued(id) /\ id # item
    <3>1. PICK i \in DOMAIN queue' : queue'[i] = id
      BY <2>2 DEF Queued
    <3>2. i + 1 \in DOMAIN queue /\ queue[i + 1] = id /\ i + 1 # 1 /\ 1 \in DOMAIN queue
      BY <1>1, <3>1
    <3> QED
      BY <1>1, <2>1, <3>2 DEF Queued, Once
  <2>3. ASSUME Queued(id), id # item PROVE Queued(id)'
    <3>1. PICK i \in DOMAIN queue : queue[i] = id
      BY <2>3 DEF Queued
    <3>2. i - 1 \in DOMAIN queue' /\ queue'[i - 1] = id
      BY <1>1, <2>3, <3>1
    <3> QED
      BY <3>2 DEF Queued
  <2> QED
    BY <2>2, <2>3
<1>6. Places'
  <2>1. \A i \in DOMAIN queue' : queue'[i] \in Issued \cup {Sentinel}
    BY <1>1 DEF Located, Places
  <2>2. \A v \in Workers : wpc'[v] \in {"copy", "mark", "finalize"} => holding'[v] \in Issued
    BY <1>2 DEF TypeOK, Get, Located, Places
  <2> QED
    BY <1>2, <2>1, <2>2 DEF Located, Places
<1>7. ASSUME item \in Issued
      PROVE  Queued(item) /\ ~Held(item) /\ ~BeingPut(item) /\ item \notin Settled
  <2>1. Queued(item) /\ SingleOwner(item)
    BY <1>1, <1>7 DEF Located, OneOwner, Queued
  <2> QED
    BY <2>1 DEF SingleOwner
<1>8. InflightExact'
  <2> SUFFICES ASSUME NEW q \in Paths, NEW id \in Ids
               PROVE  id \in inflight'[q] <=>
                        /\ id \in Issued' /\ srcOf'[id] = q
                        /\ BeingPut(id)' \/ Queued(id)' \/ Held(id)'
    BY DEF InflightExact
  <2>1. CASE id \notin Issued
    BY <1>2, <2>1 DEF Located, InflightExact
  <2>2. CASE id \in Issued
    <3>1. BeingPut(id)' <=> BeingPut(id)
      BY <1>3 DEF BeingPut
    <3>2. Held(id)' <=> Held(id) \/ id = item
      BY <1>4 DEF Held
    <3>3. Queued(id)' \/ Held(id)' <=> Queued(id) \/ Held(id)
      BY <1>5, <1>7, <2>2, <3>2
    <3> QED
      BY <1>2, <3>1, <3>3 DEF Located, InflightExact
  <2> QED
    BY <2>1, <2>2
<1>9. OneOwner'
  <2> SUFFICES ASSUME NEW id \in Issued' PROVE SingleOwner(id)'
    BY DEF OneOwner
  <2>1. id \in Ids /\ id \in Issued /\ SingleOwner(id)
    BY <1>2 DEF Located, OneOwner
  <2>2. Once(id)'
    BY <1>1, <2>1 DEF SingleOwner, Once
  <2>3. BeingPut(id)' <=> BeingPut(id)
    BY <1>3, <2>1 DEF BeingPut
  <2>4. CASE id = item
    <3>1. /\ Queued(id) /\ ~Held(id) /\ ~BeingPut(id) /\ id \notin Settled /\ ~Queued(id)'
          /\ \A v \in Workers : HeldBy(v, id)' <=> v = w
      BY <1>4, <1>5, <1>7, <2>1, <2>4 DEF Held
    <3>2. Settled' = Settled /\ uploaded' = uploaded /\ failed' = failed
      BY <1>2
    <3>3. wpc'[w] # "finalize"
      BY DEF TypeOK, Get
    <3> QED
      BY <1>3, <2>1, <2>2, <2>3, <3>1, <3>2, <3>3 DEF SingleOwner, Once
  <2>5. CASE id # item
    <3>1. /\ \A v \in Workers : HeldBy(v, id)' <=> HeldBy(v, id)
          /\ Queued(id)' <=> Queued(id)
      BY <1>4, <1>5, <2>1, <2>5
    <3>2. \A v \in Workers : HeldBy(v, id) => wpc'[v] = wpc[v]
      BY DEF TypeOK, Get, HeldBy
    <3>3. Held(id)' <=> Held(id)
      BY <3>1 DEF Held
    <3> QED
      BY <1>2, <1>3, <2>1, <2>2, <2>3, <3>1, <3>2, <3>3 DEF SingleOwner, Once
  <2> QED
    BY <2>4, <2>5
<1> QED
  BY <1>6, <1>8, <1>9 DEF Located

\* A worker that gives its task an outcome, or goes on with the next attempt.
LEMMA LocatedOutcome ==
  ASSUME TypeOK, Located, NEW w \in Workers, NEW id \in Issued, HeldBy(w, id),
         wpc[w] \in {"copy", "mark"}, HeldBy(w, id)', wpc'[w] = "finalize",
         \A v \in Workers : v # w => wpc'[v] = wpc[v],
         UNCHANGED <<queue, idVars, pc, putting, holding>>,
         \/ uploaded' = uploaded \cup {id} /\ failed' = failed
         \/ failed' = failed \cup {id} /\ uploaded' = uploaded
  PROVE  Located'
<1>1. /\ Issued' = Issued /\ Settled' = Settled \cup {id}
      /\ Issued \subseteq Ids /\ UNCHANGED <<srcOf, inflight>>
  BY IssuedAreIds DEF Issued, Settled, idVars
<1>2. /\ \A d \in Callers, j \in Ids : PutBy(d, j)' <=> PutBy(d, j)
      /\ \A v \in Workers, j \in Ids : HeldBy(v, j)' <=> HeldBy(v, j)
      /\ \A j \in Ids : Queued(j)' <=> Queued(j)
  BY DEF PutBy, HeldBy, Queued
<1>3. \A j \in Ids : (BeingPut(j)' <=> BeingPut(j)) /\ (Held(j)' <=> Held(j))
  BY <1>2 DEF BeingPut, Held
<1>4. ~BeingPut(id) /\ ~Queued(id) /\ id \notin Settled
      /\ \A v \in Workers : HeldBy(v, id) => v = w
  BY DEF Located, OneOwner, SingleOwner, Held
<1>5. Places'
  <2>1. \A v \in Workers : wpc'[v] \in {"copy", "mark", "finalize"} => holding'[v] \in Issued
    BY DEF Located, Places, HeldBy
  <2> QED
    BY <1>1, <2>1 DEF Located, Places
<1>6. InflightExact'
  BY <1>1, <1>2, <1>3 DEF Located, InflightExact
<1>7. OneOwner'
  <2> SUFFICES ASSUME NEW j \in Issued' PROVE SingleOwner(j)'
    BY DEF OneOwner
  <2>1. j \in Ids /\ j \in Issued /\ SingleOwner(j)
    BY <1>1 DEF Located, OneOwner
  <2>2. Once(j)'
    BY <2>1 DEF SingleOwner, Once
  <2>3. CASE j = id
    <3>1. j \notin uploaded' \cap failed' /\ j \in Settled'
      BY <1>1, <1>4, <2>3 DEF Settled
    <3> QED
      BY <1>2, <1>3, <1>4, <2>1, <2>2, <2>3, <3>1 DEF SingleOwner, Once
  <2>4. CASE j # id
    <3>1. /\ j \in Settled' <=> j \in Settled
          /\ j \notin uploaded' \cap failed'
      BY <1>1, <2>1, <2>4 DEF SingleOwner
    <3>2. \A v \in Workers : HeldBy(v, j) => wpc'[v] = wpc[v]
      BY <2>4 DEF HeldBy
    <3> QED
      BY <1>2, <1>3, <2>1, <2>2, <3>1, <3>2 DEF SingleOwner, Once
  <2> QED
    BY <2>3, <2>4
<1> QED
  BY <1>5, <1>6, <1>7 DEF Located

\* _finalize: the worker lets go of the task and it is no longer in flight.
LEMMA LocatedFinalize ==
  ASSUME TypeOK, Located, NEW w \in Workers, Finalize(w)
  PROVE  Located'
<1> DEFINE done == holding[w]
<1>1. /\ done \in Issued /\ HeldBy(w, done) /\ srcOf[done] \in Paths
      /\ Issued' = Issued /\ Settled' = Settled /\ Issued \subseteq Ids
      /\ UNCHANGED <<queue, srcOf, uploaded, failed, putting, holding>>
  BY IssuedAreIds DEF Located, Places, Finalize, HeldBy, Issued, Settled, copyVars
<1>2. SingleOwner(done)
  BY <1>1 DEF Located, OneOwner
<1>3. /\ \A d \in Callers, id \in Ids : PutBy(d, id)' <=> PutBy(d, id)
      /\ \A d \in Callers : pc'[d] = "put" <=> pc[d] = "put"
  BY <1>1 DEF TypeOK, Finalize, PutBy, Awaken
<1>4. /\ \A v \in Workers, id \in Ids : HeldBy(v, id)' <=> HeldBy(v, id) /\ v # w
      /\ \A id \in Ids : Queued(id)' <=> Queued(id)
  BY <1>1 DEF TypeOK, Finalize, HeldBy, Queued
<1>5. \A id \in Ids : BeingPut(id)' <=> BeingPut(id)
  BY <1>3 DEF BeingPut
<1>6. \A id \in Ids : Held(id)' <=> Held(id) /\ id # done
  <2> SUFFICES ASSUME NEW id \in Ids PROVE Held(id)' <=> Held(id) /\ id # done
    OBVIOUS
  <2>1. CASE id = done
    BY <1>1, <1>2, <1>4, <2>1 DEF SingleOwner, Held
  <2>2. CASE id # done
    BY <1>4, <2>2 DEF HeldBy, Held
  <2> QED
    BY <2>1, <2>2
<1>7. ~BeingPut(done) /\ ~Queued(done)
  BY <1>1, <1>2 DEF SingleOwner, Held
<1>8. Places'
  <2>1. \A v \in Workers : wpc'[v] \in {"copy", "mark", "finalize"} => holding'[v] \in Issued
    BY <1>1 DEF TypeOK, Finalize, Located, Places
  <2> QED
    BY <1>1, <1>3, <2>1 DEF Located, Places
<1>9. InflightExact'
  <2> SUFFICES ASSUME NEW p \in Paths, NEW id \in Ids
               PROVE  id \in inflight'[p] <=>
                        /\ id \in Issued' /\ srcOf'[id] = p
                        /\ BeingPut(id)' \/ Queued(id)' \/ Held(id)'
    BY DEF InflightExact
  <2>1. inflight'[p] = IF p = srcOf[done] THEN inflight[p] \ {done} ELSE inflight[p]
    BY <1>1 DEF TypeOK, Finalize
  <2>2. CASE id = done
    <3>1. ~(BeingPut(id)' \/ Queued(id)' \/ Held(id)')
      BY <1>4, <1>5, <1>6, <1>7, <2>2
    <3>2. id \in inflight[p] => p = srcOf[done]
      BY <2>2 DEF Located, InflightExact
    <3> QED
      BY <2>1, <2>2, <3>1, <3>2
  <2>3. CASE id # done
    <3>1. id \in inflight'[p] <=> id \in inflight[p]
      BY <2>1, <2>3
    <3> QED
      BY <1>1, <1>4, <1>5, <1>6, <2>3, <3>1 DEF Located, InflightExact
  <2> QED
    BY <2>2, <2>3
<1>10. OneOwner'
  <2> SUFFICES ASSUME NEW id \in Issued' PROVE SingleOwner(id)'
    BY DEF OneOwner
  <2>1. id \in Ids /\ id \in Issued /\ SingleOwner(id)
    BY <1>1 DEF Located, OneOwner
  <2>2. Once(id)'
    BY <1>1, <2>1 DEF SingleOwner, Once
  <2>3. \A v \in Workers : v # w => wpc'[v] = wpc[v]
    BY DEF TypeOK, Finalize
  <2>4. wpc[w] = "finalize"
    BY DEF Finalize
  <2>5. /\ \A d \in Callers : PutBy(d, id)' <=> PutBy(d, id)
        /\ \A v \in Workers : HeldBy(v, id)' <=> HeldBy(v, id) /\ v # w
        /\ Queued(id)' <=> Queued(id)
        /\ BeingPut(id)' <=> BeingPut(id)
        /\ Held(id)' => Held(id)
    BY <1>3, <1>4, <1>5, <1>6, <2>1
  <2>6. /\ id \in Settled' <=> id \in Settled
        /\ id \notin uploaded' \cap failed'
    BY <1>1, <2>1 DEF SingleOwner
  <2> QED
    BY <2>1, <2>2, <2>3, <2>4, <2>5, <2>6 DEF SingleOwner, Once
<1> QED
  BY <1>8, <1>9, <1>10 DEF Located

\* A failed attempt that is tried again, and task_done: nothing moves.
LEMMA LocatedQuietWorker ==
  ASSUME TypeOK, Located, NEW w \in Workers,
         UNCHANGED <<queue, idVars, uploaded, failed, pc, putting>>,
         \A v \in Workers : v # w => wpc'[v] = wpc[v] /\ holding'[v] = holding[v],
         \/ wpc[w] = "copy" /\ wpc'[w] \in {"copy", "mark"} /\ holding'[w] = holding[w]
         \/ wpc[w] = "task_done" /\ wpc'[w] \in {"get", "exited"}
  PROVE  Located'
<1>1. /\ \A d \in Callers, id \in Ids : PutBy(d, id)' <=> PutBy(d, id)
      /\ \A v \in Workers, id \in Ids : HeldBy(v, id)' <=> HeldBy(v, id)
      /\ \A id \in Ids : Queued(id)' <=> Queued(id)
      /\ Issued' = Issued /\ Settled' = Settled /\ Issued \subseteq Ids
  BY IssuedAreIds DEF PutBy, HeldBy, Queued, Issued, Settled, idVars
<1>2. \A id \in Ids : (BeingPut(id)' <=> BeingPut(id)) /\ (Held(id)' <=> Held(id))
  BY <1>1 DEF BeingPut, Held
<1>3. Places'
  <2>1. \A v \in Workers : wpc'[v] \in {"copy", "mark", "finalize"} => holding'[v] \in Issued
    BY DEF Located, Places
  <2> QED
    BY <1>1, <2>1 DEF Located, Places, idVars
<1>4. InflightExact'
  BY <1>1, <1>2 DEF Located, InflightExact, idVars
<1>5. OneOwner'
  <2> SUFFICES ASSUME NEW id \in Issued' PROVE SingleOwner(id)'
    BY DEF OneOwner
  <2>1. id \in Ids /\ SingleOwner(id)
    BY <1>1 DEF Located, OneOwner
  <2>2. Once(id)'
    BY <2>1 DEF SingleOwner, Once
  <2>3. \A v \in Workers : HeldBy(v, id) => (wpc'[v] = "finalize" <=> wpc[v] = "finalize")
    BY DEF HeldBy
  <2> QED
    BY <1>1, <1>2, <2>1, <2>2, <2>3 DEF SingleOwner, Once
<1> QED
  BY <1>3, <1>4, <1>5 DEF Located

\* No step of any thread loses, doubles or misplaces a task.
LEMMA LocatedNext == TypeOK /\ Located /\ [Next]_vars => Located'
<1> SUFFICES ASSUME TypeOK, Located, [Next]_vars PROVE Located'
  OBVIOUS
<1>1. ASSUME NEW c \in Callers, CallerStep(c) PROVE Located'
  <2>1. ASSUME NEW p \in Paths, SyncCopy(c, p) PROVE Located'
    BY <2>1, LocatedFrame DEF SyncCopy, workerVars
  <2>2. ASSUME NEW p \in Paths, Register(c, p) PROVE Located'
    BY <2>2, LocatedRegister
  <2>3. CASE Put(c)
    BY <2>3, LocatedPut
  <2>4. ASSUME NEW t \in Paths \cup {All}, NEW deadline \in Timeouts,
               StartWait(c, t, deadline)
        PROVE  Located'
    BY <2>4, LocatedFrame DEF StartWait, TypeOK, copyVars, workerVars
  <2>5. CASE Check(c)
    BY <2>5, LocatedFrame DEF Check, TypeOK, copyVars, workerVars
  <2>6. CASE WakeOnTimeout(c)
    BY <2>6, LocatedFrame DEF WakeOnTimeout, TypeOK, copyVars, workerVars
  <2>7. ASSUME NEW finalWait \in FinalWaits, Shutdown(c, finalWait) PROVE Located'
    BY <2>7, LocatedFrame DEF Shutdown, TypeOK, copyVars, workerVars
  <2>8. CASE PutSentinel(c)
    BY <2>8, LocatedPutSentinel
  <2>9. CASE Join(c)
    BY <2>9, LocatedFrame DEF Join, TypeOK, copyVars, workerVars
  <2> QED
    BY <1>1, <2>1, <2>2, <2>3, <2>4, <2>5, <2>6, <2>7, <2>8, <2>9 DEF CallerStep
<1>2. ASSUME NEW w \in Workers, WorkerStep(w) PROVE Located'
  <2>1. CASE Get(w)
    BY <2>1, LocatedGet
  <2>2. CASE CopyOk(w)
    <3>1. holding[w] \in Issued /\ HeldBy(w, holding[w]) /\ HeldBy(w, holding[w])'
      BY <2>2 DEF CopyOk, TypeOK, Located, Places, HeldBy
    <3>2. uploaded' = uploaded \cup {holding[w]} /\ failed' = failed
      BY <2>2 DEF CopyOk
    <3>3. /\ wpc[w] = "copy" /\ wpc'[w] = "finalize"
          /\ \A v \in Workers : v # w => wpc'[v] = wpc[v]
          /\ UNCHANGED <<queue, idVars, pc, putting, holding>>
      BY <2>2 DEF CopyOk, TypeOK, callerVars
    <3> QED
      BY <3>1, <3>2, <3>3, LocatedOutcome DEF HeldBy
  <2>3. CASE CopyFail(w)
    BY <2>3, LocatedQuietWorker DEF CopyFail, TypeOK, callerVars
  <2>4. CASE MarkFailed(w)
    <3>1. holding[w] \in Issued /\ HeldBy(w, holding[w]) /\ HeldBy(w, holding[w])'
      BY <2>4 DEF MarkFailed, TypeOK, Located, Places, HeldBy
    <3>2. failed' = failed \cup {holding[w]} /\ uploaded' = uploaded
      BY <2>4 DEF MarkFailed
    <3>3. /\ wpc[w] = "mark" /\ wpc'[w] = "finalize"
          /\ \A v \in Workers : v # w => wpc'[v] = wpc[v]
          /\ UNCHANGED <<queue, idVars, pc, putting, holding>>
      BY <2>4 DEF MarkFailed, TypeOK, callerVars
    <3> QED
      BY <3>1, <3>2, <3>3, LocatedOutcome DEF HeldBy
  <2>5. CASE Finalize(w)
    BY <2>5, LocatedFinalize
  <2>6. CASE TaskDone(w)
    BY <2>6, LocatedQuietWorker DEF TaskDone, TypeOK, copyVars, callerVars
  <2> QED
    BY <1>2, <2>1, <2>2, <2>3, <2>4, <2>5, <2>6 DEF WorkerStep
<1>3. CASE UNCHANGED vars
  BY <1>3, LocatedFrame DEF vars, idVars, copyVars, callerVars, workerVars
<1> QED
  BY <1>1, <1>2, <1>3 DEF Next

-----------------------------------------------------------------------------
\* The count of unfinished items.
LEMMA BusyCount ==
  ASSUME TypeOK
  PROVE  /\ Cardinality(Busy) \in Nat /\ IsFiniteSet(Busy)
         /\ \A w \in Workers \ Busy : Cardinality(Busy \cup {w}) = Cardinality(Busy) + 1
         /\ \A w \in Busy : Cardinality(Busy \ {w}) = Cardinality(Busy) - 1
<1>1. IsFiniteSet(Busy)
  BY FS_Subset, ConfigAssumption DEF Busy
<1> QED
  BY <1>1, FS_CardinalityType, FS_AddElement, FS_RemoveElement

\* An idle pool has nothing unfinished.
LEMMA UnfinishedInit == Init => UnfinishedExact
<1> SUFFICES ASSUME Init PROVE UnfinishedExact
  OBVIOUS
<1>1. Busy = {} /\ Len(queue) = 0 /\ unfinished = 0
  BY DEF Init, Busy
<1> QED
  BY <1>1, FS_EmptySet DEF UnfinishedExact

\* put adds one to unfinished_tasks and to the queue, get moves one from the
\* queue to a busy worker, task_done takes both away.
LEMMA UnfinishedNext == TypeOK /\ UnfinishedExact /\ [Next]_vars => UnfinishedExact'
<1> SUFFICES ASSUME TypeOK, UnfinishedExact, [Next]_vars PROVE UnfinishedExact'
  OBVIOUS
<1>1. Len(queue) \in Nat /\ unfinished \in Int /\ Cardinality(Busy) \in Nat
  BY BusyCount DEF TypeOK
<1>2. ASSUME UNCHANGED <<queue, unfinished>>, Busy' = Busy PROVE UnfinishedExact'
  BY <1>2 DEF UnfinishedExact
<1>3. ASSUME NEW x \in Ids \cup {Sentinel},
             queue' = Append(queue, x), unfinished' = unfinished + 1, wpc' = wpc
      PROVE  UnfinishedExact'
  <2>1. Len(queue') = Len(queue) + 1 /\ Busy' = Busy
    BY <1>3 DEF TypeOK, Busy
  <2> QED
    BY <1>1, <1>3, <2>1 DEF UnfinishedExact
<1>4. ASSUME NEW c \in Callers, CallerStep(c) PROVE UnfinishedExact'
  <2>1. CASE Put(c)
    BY <1>3, <2>1 DEF Put, TypeOK, workerVars
  <2>2. CASE PutSentinel(c)
    BY <1>3, <2>2 DEF PutSentinel, workerVars
  <2>3. ASSUME ~Put(c), ~PutSentinel(c) PROVE UNCHANGED <<queue, unfinished, wpc>>
    BY <1>4, <2>3 DEF CallerStep, SyncCopy, Register, StartWait, Check, WakeOnTimeout,
                      Shutdown, Join, workerVars
  <2> QED
    BY <1>2, <2>1, <2>2, <2>3 DEF Busy
<1>5. ASSUME NEW w \in Workers, WorkerStep(w) PROVE UnfinishedExact'
  <2>1. CASE Get(w)
    <3>1. Len(queue') = Len(queue) - 1 /\ unfinished' = unfinished
      BY <2>1 DEF Get, TypeOK
    <3>2. w \notin Busy /\ Busy' = Busy \cup {w}
      BY <2>1 DEF Get, TypeOK, Busy
    <3> QED
      BY <1>1, <3>1, <3>2, BusyCount DEF UnfinishedExact
  <2>2. CASE TaskDone(w)
    <3>1. queue' = queue /\ unfinished' = unfinished - 1
      BY <2>2 DEF TaskDone
    <3>2. w \in Busy /\ Busy' = Busy \ {w}
      BY <2>2 DEF TaskDone, TypeOK, Busy
    <3> QED
      BY <1>1, <3>1, <3>2, BusyCount DEF UnfinishedExact
  <2>3. CASE CopyOk(w) \/ CopyFail(w) \/ MarkFailed(w) \/ Finalize(w)
    <3>1. UNCHANGED <<queue, unfinished>> /\ Busy' = Busy
      BY <2>3 DEF CopyOk, CopyFail, MarkFailed, Finalize, TypeOK, Busy
    <3> QED
      BY <1>2, <3>1
  <2> QED
    BY <1>5, <2>1, <2>2, <2>3 DEF WorkerStep
<1>6. CASE UNCHANGED vars
  BY <1>2, <1>6 DEF vars, workerVars, Busy
<1> QED
  BY <1>4, <1>5, <1>6 DEF Next

-----------------------------------------------------------------------------
\* A wait that finds nothing pending has nothing left to wait for.
LEMMA NothingPending ==
  ASSUME TypeOK, Located, NEW t \in Paths \cup {All}, ~Pending(t)
  PROVE  /\ \A id \in Issued : Covers(t, id) => id \in Settled
         /\ t = All => \A i \in DOMAIN queue : queue[i] = Sentinel
<1>1. ASSUME NEW id \in Issued, Covers(t, id)
      PROVE  id \in Settled /\ ~Queued(id)
  <2>1. id \in Ids /\ srcOf[id] \in Paths /\ All \notin Paths
    BY IssuedAreIds, ConfigAssumption DEF Located, Places
  <2>2. inflight[srcOf[id]] = {}
    BY <1>1, <2>1 DEF Pending, Covers
  <2>3. ~BeingPut(id) /\ ~Queued(id) /\ ~Held(id)
    BY <2>1, <2>2 DEF Located, InflightExact
  <2> QED
    BY <2>3 DEF Located, OneOwner, SingleOwner, Held
<1>2. ASSUME t = All, NEW i \in DOMAIN queue PROVE queue[i] = Sentinel
  <2>1. queue[i] \in Issued \cup {Sentinel}
    BY DEF Located, Places
  <2> QED
    BY <1>1, <1>2, <2>1 DEF Covers, Queued
<1> QED
  BY <1>1, <1>2

\* Nobody waits at the start and nobody has shut the pool down.
LEMMA WaitsInit == Init => Waits /\ FinalShutdownLosesNothing
BY DEF Init, Waits, FinalShutdownLosesNothing

\* A waiting call has no result until it ends, and shutdown keeps waiting for all.
LEMMA WaitsNext == TypeOK /\ Waits /\ [Next]_vars => Waits'
<1> SUFFICES ASSUME TypeOK, Waits, [Next]_vars PROVE Waits'
  OBVIOUS
<1> USE DEF TypeOK, Waits
<1>1. ASSUME NEW c \in Callers, CallerStep(c) PROVE Waits'
  <2>1. ASSUME NEW p \in Paths, SyncCopy(c, p) PROVE Waits'
    BY <2>1 DEF SyncCopy
  <2>2. ASSUME NEW p \in Paths, Register(c, p) PROVE Waits'
    BY <2>2 DEF Register
  <2>3. CASE Put(c)
    BY <2>3 DEF Put
  <2>4. ASSUME NEW t \in Paths \cup {All}, NEW deadline \in Timeouts,
               StartWait(c, t, deadline)
        PROVE  Waits'
    BY <2>4 DEF StartWait
  <2>5. CASE Check(c)
    BY <2>5 DEF Check
  <2>6. CASE WakeOnTimeout(c)
    BY <2>6 DEF WakeOnTimeout
  <2>7. ASSUME NEW finalWait \in FinalWaits, Shutdown(c, finalWait) PROVE Waits'
    <3>1. Callers = {c}
      BY <2>7, CloserIsAlone DEF Shutdown
    <3> QED
      BY <2>7, <3>1, ConfigAssumption DEF Shutdown
  <2>8. CASE PutSentinel(c)
    BY <2>8 DEF PutSentinel
  <2>9. CASE Join(c)
    BY <2>9 DEF Join
  <2> QED
    BY <1>1, <2>1, <2>2, <2>3, <2>4, <2>5, <2>6, <2>7, <2>8, <2>9 DEF CallerStep
<1>2. ASSUME NEW w \in Workers, WorkerStep(w) PROVE Waits'
  <2>1. CASE Finalize(w)
    BY <2>1 DEF Finalize, Awaken
  <2>2. CASE ~Finalize(w)
    BY <1>2, <2>2 DEF WorkerStep, Get, CopyOk, CopyFail, MarkFailed, TaskDone, callerVars
  <2> QED
    BY <2>1, <2>2
<1>3. CASE UNCHANGED vars
  BY <1>3 DEF vars, callerVars
<1> QED
  BY <1>1, <1>2, <1>3 DEF Next

\* Outcomes are for good.
LEMMA SettledGrows ==
  ASSUME TypeOK, [Next]_vars PROVE Settled \subseteq Settled'
<1>1. uploaded \subseteq uploaded' /\ failed \subseteq failed'
  BY DEF Next, CallerStep, SyncCopy, Register, Put, StartWait, Check, WakeOnTimeout,
         Shutdown, PutSentinel, Join, WorkerStep, Get, CopyOk, CopyFail, MarkFailed,
         Finalize, TaskDone, vars, copyVars
<1> QED
  BY <1>1 DEF Settled

\* Once shutdown's wait has ended only sentinels come and go.
LEMMA FinalShutdownNext ==
  ASSUME TypeOK, Located, Waits, FinalShutdownLosesNothing, [Next]_vars
  PROVE  FinalShutdownLosesNothing'
<1> DEFINE Through(c) == pc[c] \in {"sentinels", "closed"}
<1> SUFFICES ASSUME final', NEW c \in Callers, Through(c)'
             PROVE  /\ Issued' \subseteq Settled'
                    /\ \A i \in DOMAIN queue' : queue'[i] = Sentinel
  BY DEF FinalShutdownLosesNothing
<1>1. ASSUME NEW d \in Callers, CallerStep(d), ~final PROVE FALSE
  <2>1. PICK finalWait \in FinalWaits : Shutdown(d, finalWait)
    BY <1>1 DEF CallerStep, SyncCopy, Register, Put, StartWait, Check, WakeOnTimeout,
                PutSentinel, Join
  <2>2. Callers = {d} /\ finalWait = TRUE
    BY <2>1, CloserIsAlone, ConfigAssumption DEF Shutdown
  <2> QED
    BY <2>1, <2>2 DEF Shutdown, TypeOK
<1>2. ASSUME NEW w \in Workers, WorkerStep(w) PROVE final /\ Through(c)
  <2>1. final' = final /\ (pc' = pc \/ pc' = Awaken)
    BY <1>2 DEF WorkerStep, Get, CopyOk, CopyFail, MarkFailed, Finalize, TaskDone, callerVars
  <2>2. CASE pc' = pc
    BY <2>1, <2>2
  <2>3. CASE pc' = Awaken
    BY <2>1, <2>3 DEF Awaken
  <2> QED
    BY <2>1, <2>2, <2>3
<1>3. CASE UNCHANGED vars
  BY <1>3, SettledGrows DEF FinalShutdownLosesNothing, vars, idVars, callerVars, Issued
<1>4. ASSUME NEW w \in Workers, WorkerStep(w)
      PROVE  /\ Issued' \subseteq Settled'
             /\ \A i \in DOMAIN queue' : queue'[i] = Sentinel
  <2>1. Issued \subseteq Settled /\ \A i \in DOMAIN queue : queue[i] = Sentinel
    BY <1>2, <1>4 DEF FinalShutdownLosesNothing
  <2>2. Issued' = Issued
    BY <1>4 DEF WorkerStep, Get, CopyOk, CopyFail, MarkFailed, Finalize, TaskDone,
                idVars, Issued
  <2>3. CASE Get(w)
    <3>1. /\ Len(queue) \in Nat /\ DOMAIN queue = 1 .. Len(queue)
          /\ DOMAIN queue' = 1 .. Len(queue) - 1
          /\ \A i \in DOMAIN queue' : queue'[i] = queue[i + 1]
      BY <2>3 DEF Get, TypeOK
    <3> QED
      BY <2>1, <2>2, <3>1, SettledGrows
  <2>4. CASE ~Get(w)
    <3>1. queue' = queue
      BY <1>4, <2>4 DEF WorkerStep, CopyOk, CopyFail, MarkFailed, Finalize, TaskDone
    <3> QED
      BY <2>1, <2>2, <3>1, SettledGrows
  <2> QED
    BY <2>3, <2>4
<1>5. ASSUME NEW d \in Callers, CallerStep(d), final
      PROVE  /\ Issued' \subseteq Settled'
             /\ \A i \in DOMAIN queue' : queue'[i] = Sentinel
  <2>1. Issued' = Issued
    BY <1>5 DEF CallerStep, SyncCopy, Register, Put, StartWait, Check, WakeOnTimeout,
                Shutdown, PutSentinel, Join, Waits, idVars, Issued
  <2>2. CASE Check(d)
    <3>1. queue' = queue
      BY <2>2 DEF Check
    <3>2. CASE Through(c)
      BY <1>5, <2>1, <3>1, <3>2, SettledGrows DEF FinalShutdownLosesNothing
    <3>3. CASE ~Through(c)
      <4>1. c = d /\ ~Pending(All)
        BY <1>5, <2>2, <3>3 DEF Check, TypeOK, Waits
      <4> QED
        BY <2>1, <3>1, <4>1, NothingPending, SettledGrows DEF Covers
    <3> QED
      BY <3>2, <3>3
  <2>3. CASE ~Check(d)
    <3>1. Through(c)
      BY <1>5, <2>3 DEF CallerStep, SyncCopy, Register, Put, StartWait, WakeOnTimeout,
                        Shutdown, PutSentinel, Join, Waits, TypeOK
    <3>2. Issued \subseteq Settled /\ \A i \in DOMAIN queue : queue[i] = Sentinel
      BY <1>5, <3>1 DEF FinalShutdownLosesNothing
    <3>3. CASE PutSentinel(d)
      <4>1. /\ Len(queue) \in Nat /\ DOMAIN queue = 1 .. Len(queue)
            /\ DOMAIN queue' = 1 .. Len(queue) + 1
            /\ \A i \in DOMAIN queue : queue'[i] = queue[i]
            /\ queue'[Len(queue) + 1] = Sentinel
        BY <3>3 DEF PutSentinel, TypeOK
      <4> QED
        BY <2>1, <3>2, <4>1, SettledGrows
    <3>4. CASE ~PutSentinel(d)
      <4>1. queue' = queue
        BY <1>5, <2>3, <3>4 DEF CallerStep, SyncCopy, Register, Put, StartWait,
                                WakeOnTimeout, Shutdown, Join, Waits
      <4> QED
        BY <2>1, <3>2, <4>1, SettledGrows
    <3> QED
      BY <3>3, <3>4
  <2> QED
    BY <2>2, <2>3
<1> QED
  BY <1>1, <1>3, <1>4, <1>5 DEF Next, TypeOK

-----------------------------------------------------------------------------
\* The inductive invariant holds for every number of threads and tasks.
THEOREM Invariance == Spec => []IInv
<1>1. Init => IInv
  BY TypeInit, LocatedInit, UnfinishedInit, WaitsInit DEF IInv, Located
<1>2. IInv /\ [Next]_vars => IInv'
  <2> SUFFICES ASSUME IInv, [Next]_vars PROVE IInv'
    OBVIOUS
  <2>1. TypeOK'
    <3>1. CASE UNCHANGED vars
      BY <3>1, TypeStutter DEF IInv
    <3> QED
      BY <3>1, TypeCaller, TypeWorker DEF IInv, Next
  <2>2. Located'
    BY LocatedNext DEF IInv, Located
  <2>3. UnfinishedExact'
    BY UnfinishedNext DEF IInv
  <2>4. Waits' /\ FinalShutdownLosesNothing'
    BY WaitsNext, FinalShutdownNext DEF IInv, Located
  <2> QED
    BY <2>1, <2>2, <2>3, <2>4 DEF IInv, Located
<1> QED
  BY <1>1, <1>2, PTL DEF Spec

\* The variables keep their types, the in-flight table is exact and no task has
\* two owners, whatever the numbers of threads and retries.
THEOREM Bookkeeping == Spec => [](TypeOK /\ InflightExact /\ OneOwner)
<1>1. IInv => TypeOK /\ InflightExact /\ OneOwner
  BY DEF IInv
<1> QED
  BY <1>1, Invariance, PTL

\* The queue's count of unfinished items is of the tasks and sentinels that are
\* queued or in a worker's hands: task_done is called once for each of them.
THEOREM EveryItemCounted == Spec => []UnfinishedExact
<1>1. IInv => UnfinishedExact
  BY DEF IInv
<1> QED
  BY <1>1, Invariance, PTL

\* After a shutdown that waited for all uploads without a deadline, no task is left
\* without its outcome, and the queue holds sentinels only.
THEOREM NothingLostAtShutdown == Spec => []FinalShutdownLosesNothing
<1>1. IInv => FinalShutdownLosesNothing
  BY DEF IInv
<1> QED
  BY <1>1, Invariance, PTL

\* wait_for_path and wait_for_all answer True only when every task they cover
\* has its outcome, whatever the number of threads and retries.
THEOREM WaitsAreSound == Spec => WaitCoversUploads
<1> DEFINE Sound == \A c \in Callers :
                      pc[c] = "check" /\ result'[c] = "true" =>
                        \A id \in Issued : Covers(target[c], id) => id \in Settled
<1>1. IInv /\ [Next]_vars => Sound
  <2> SUFFICES ASSUME IInv, [Next]_vars, NEW c \in Callers,
                      pc[c] = "check", result'[c] = "true",
                      NEW id \in Issued, Covers(target[c], id)
               PROVE  id \in Settled
    OBVIOUS
  <2>1. result[c] = "none" /\ target[c] \in Paths \cup {All}
    BY DEF IInv, Waits, TypeOK
  <2>2. Check(c)
    BY <2>1 DEF IInv, TypeOK, Next, CallerStep, SyncCopy, Register, Put, StartWait, Check,
                WakeOnTimeout, Shutdown, PutSentinel, Join, WorkerStep, Get, CopyOk,
                CopyFail, MarkFailed, Finalize, TaskDone, vars, callerVars
  <2>3. ~Pending(target[c])
    BY <2>1, <2>2 DEF Check, IInv, TypeOK
  <2> QED
    BY <2>1, <2>3, NothingPending DEF IInv, Located
<1> QED
  BY <1>1, Invariance, PTL DEF Spec, WaitCoversUploads
-----------------------------------------------------------------------------
\* The uploader implements UploadService: whoever composes with the service instead of
\* the threads, as the checkpoint models do, leaves out nothing that a caller can tell.
abstract == <<taskStatus, srcOf, waitingFor, waitedForAll>>

\* The three mapped variables as functions, and what an id stands for.
LEMMA Mapped ==
  ASSUME TypeOK
  PROVE  /\ Service!Tasks = Ids
         /\ taskStatus \in [Ids -> {"none", "pending", "ok", "failed"}]
         /\ waitingFor \in [Callers -> {<<>>} \cup ((Paths \cup {All}) \X BOOLEAN)]
         /\ waitedForAll \in BOOLEAN
BY DEF Service!Tasks, Ids, taskStatus, waitingFor, waitedForAll, TypeOK

\* The pool at rest with nothing enqueued is the service at rest.
LEMMA ServiceInit == Init => Service!Init
<1> SUFFICES ASSUME Init PROVE Service!Init
  OBVIOUS
<1>1. taskStatus = [id \in Ids |-> "none"]
  BY DEF Init, taskStatus, Issued, Ids
<1>2. srcOf = [id \in Ids |-> All]
  BY DEF Init, NoSrc
<1>3. waitingFor = [c \in Callers |-> <<>>]
  BY DEF Init, waitingFor
<1>4. waitedForAll = FALSE
  BY DEF Init, waitedForAll
<1> QED
  BY <1>1, <1>2, <1>3, <1>4 DEF Service!Init, Service!Tasks, Ids

\* A step that decides nothing about tasks and moves no caller into or out of
\* a wait is not seen from outside.
LEMMA Unseen ==
  ASSUME UNCHANGED <<nextId, srcOf, uploaded, failed, target, timed, final>>,
         \A c \in Callers : /\ pc[c] \in {"check", "asleep"} <=> pc'[c] \in {"check", "asleep"}
                            /\ pc[c] \in {"sentinels", "closed"} <=> pc'[c] \in {"sentinels", "closed"}
  PROVE  UNCHANGED abstract
<1>1. taskStatus' = taskStatus
  BY DEF taskStatus, Issued
<1>2. waitingFor' = waitingFor
  BY DEF waitingFor
<1>3. waitedForAll' = waitedForAll
  BY DEF waitedForAll
<1> QED
  BY <1>1, <1>2, <1>3 DEF abstract

\* While a caller is free, nobody has waited for the last time.
LEMMA StillOpen ==
  ASSUME TypeOK, Waits, NEW c \in Callers, pc[c] \in {"idle", "put"}
  PROVE  ~final /\ ~waitedForAll /\ waitingFor[c] = <<>>
BY DEF Waits, waitedForAll, waitingFor

\* Registering a task is enqueueing it.
LEMMA RegisterEnqueues ==
  ASSUME TypeOK, Located, Waits, NEW c \in Callers, NEW p \in Paths, Register(c, p)
  PROVE  Service!Enqueue(c, p)
<1>1. nextId \in Ids /\ nextId \notin Issued /\ Issued' = Issued \cup {nextId} /\ nextId \notin Settled
  BY ConfigAssumption DEF Register, TypeOK, Ids, Issued, Located, Places
<1>2. taskStatus[nextId] = "none" /\ \A j \in 0 .. nextId - 1 : taskStatus[j] # "none"
  BY <1>1, IssuedAreIds DEF taskStatus, Issued
<1>3. taskStatus' = [taskStatus EXCEPT ![nextId] = "pending"]
  BY <1>1 DEF taskStatus, Register, copyVars, Settled
<1>4. srcOf' = [srcOf EXCEPT ![nextId] = p]
  BY DEF Register
<1>5. waitingFor' = waitingFor
  BY DEF waitingFor, Register, TypeOK
<1>6. ~waitedForAll /\ waitingFor[c] = <<>>
  BY StillOpen DEF Register
<1>7. waitedForAll' = waitedForAll
  BY StillOpen DEF Register, waitedForAll
<1> QED
  BY <1>1, <1>2, <1>3, <1>4, <1>5, <1>6, <1>7, Mapped DEF Service!Enqueue

\* wait_for_path, wait_for_all and the wait of shutdown begin.
LEMMA WaitBegins ==
  ASSUME TypeOK, Waits, NEW c \in Callers, NEW t \in Paths \cup {All}, NEW d \in BOOLEAN,
         pc[c] = "idle", pc' = [pc EXCEPT ![c] = "check"],
         target' = [target EXCEPT ![c] = t], timed' = [timed EXCEPT ![c] = d],
         UNCHANGED <<nextId, srcOf, uploaded, failed>>,
         ~final' \/ Callers = {c}
  PROVE  Service!Wait(c, t, d)
<1>1. taskStatus' = taskStatus
  BY DEF taskStatus, Issued
<1>2. waitingFor' = [waitingFor EXCEPT ![c] = <<t, d>>]
  BY DEF waitingFor, TypeOK
<1>3. waitingFor[c] = <<>>
  BY StillOpen
<1>4. waitedForAll' = waitedForAll
  <2>1. ~waitedForAll
    BY StillOpen
  <2>2. ~waitedForAll'
    BY DEF waitedForAll, TypeOK
  <2> QED
    BY <2>1, <2>2 DEF waitedForAll
<1> QED
  BY <1>1, <1>2, <1>3, <1>4 DEF Service!Wait

\* A test of a waiting loop ends the wait, gives it up, or is not seen.
LEMMA CheckAnswers ==
  ASSUME TypeOK, Located, Waits, NEW c \in Callers, Check(c)
  PROVE  Service!Return(c) \/ Service!GiveUp(c) \/ UNCHANGED abstract
<1>1. taskStatus' = taskStatus /\ srcOf' = srcOf
  BY DEF Check, taskStatus, Issued, idVars, copyVars
<1>2. /\ waitingFor[c] = <<target[c], timed[c]>> /\ waitingFor[c] # <<>>
      /\ target[c] \in Paths \cup {All}
  BY DEF Check, waitingFor, TypeOK
<1>3. CASE ~Pending(target[c]) /\ pc' = [pc EXCEPT ![c] = IF final THEN "sentinels" ELSE "idle"]
  <2>1. waitingFor' = [waitingFor EXCEPT ![c] = <<>>]
    BY <1>3 DEF Check, waitingFor, TypeOK
  <2>2. Service!Drained(target[c])
    <3>1. \A id \in Issued : Covers(target[c], id) => id \in Settled
      BY <1>2, <1>3, NothingPending
    <3> QED
      BY <3>1 DEF Service!Drained, Service!Tasks, Ids, taskStatus, Covers, Settled
  <2>3. waitedForAll' \in IF target[c] = All THEN {waitedForAll, TRUE} ELSE {waitedForAll}
    <3>1. CASE final
      BY <1>3, <3>1 DEF waitedForAll, Waits, Check, TypeOK
    <3>2. CASE ~final
      BY <1>3, <3>2 DEF waitedForAll, Check
    <3> QED
      BY <3>1, <3>2 DEF TypeOK
  <2>4. waitingFor[c][1] = target[c]
    BY <1>2
  <2>5. Service!Return(c)
    BY <1>1, <1>2, <2>1, <2>2, <2>3, <2>4 DEF Service!Return
  <2> QED
    BY <2>5
<1>4. CASE pc' = [pc EXCEPT ![c] = "asleep"]
  <2>1. \A d \in Callers : /\ pc[d] \in {"check", "asleep"} <=> pc'[d] \in {"check", "asleep"}
                           /\ pc[d] \in {"sentinels", "closed"} <=> pc'[d] \in {"sentinels", "closed"}
    BY <1>4 DEF Check, TypeOK
  <2> QED
    BY <2>1, Unseen DEF Check, idVars, copyVars
<1>5. CASE timed[c] /\ pc' = [pc EXCEPT ![c] = "idle"]
  <2>1. waitingFor' = [waitingFor EXCEPT ![c] = <<>>]
    BY <1>5 DEF Check, waitingFor, TypeOK
  <2>2. waitedForAll' = waitedForAll
    BY <1>5 DEF Check, waitedForAll, Waits, TypeOK
  <2> QED
    BY <1>1, <1>2, <1>5, <2>1, <2>2 DEF Service!GiveUp
<1> QED
  BY <1>3, <1>4, <1>5 DEF Check

\* An outcome is given to a task that has none.
LEMMA OutcomeSettles ==
  ASSUME TypeOK, Located, NEW w \in Workers, CopyOk(w) \/ MarkFailed(w)
  PROVE  \E id \in Ids : Service!Settle(id)
<1> DEFINE id == holding[w]
<1>1. id \in Ids /\ id \in Issued /\ id \notin Settled
  <2>1. HeldBy(w, id) /\ wpc[w] # "finalize"
    BY DEF CopyOk, MarkFailed, HeldBy
  <2>2. id \in Issued
    BY <2>1 DEF Located, Places, HeldBy
  <2> QED
    BY <2>1, <2>2, IssuedAreIds DEF Located, OneOwner, SingleOwner
<1>2. Issued' = Issued /\ srcOf' = srcOf
  BY DEF CopyOk, MarkFailed, idVars, Issued
<1>3. waitingFor' = waitingFor /\ waitedForAll' = waitedForAll
  BY DEF CopyOk, MarkFailed, callerVars, waitingFor, waitedForAll
<1>4. taskStatus[id] = "pending"
  BY <1>1 DEF taskStatus, Settled
<1>5. PICK outcome \in {"ok", "failed"} : taskStatus' = [taskStatus EXCEPT ![id] = outcome]
  <2>1. CASE CopyOk(w)
    BY <1>1, <1>2, <2>1 DEF CopyOk, taskStatus, Settled
  <2>2. CASE MarkFailed(w)
    BY <1>1, <1>2, <2>2 DEF MarkFailed, taskStatus, Settled
  <2> QED
    BY <2>1, <2>2
<1> QED
  BY <1>1, <1>2, <1>3, <1>4, <1>5 DEF Service!Settle

\* A step of a caller is a step of the service or is not seen.
LEMMA CallerMaps ==
  ASSUME TypeOK, Located, Waits, NEW c \in Callers, CallerStep(c)
  PROVE  Service!Next \/ UNCHANGED abstract
<1>1. ASSUME NEW p \in Paths, SyncCopy(c, p) PROVE UNCHANGED abstract
  BY <1>1, Unseen DEF SyncCopy, idVars
<1>2. ASSUME NEW p \in Paths, Register(c, p) PROVE Service!Next
  BY <1>2, RegisterEnqueues DEF Service!Next
<1>3. CASE Put(c)
  BY <1>3, Unseen DEF Put, idVars, copyVars, TypeOK
<1>4. ASSUME NEW t \in Paths \cup {All}, NEW deadline \in Timeouts, StartWait(c, t, deadline)
      PROVE  Service!Next
  <2>1. deadline \in BOOLEAN /\ ~final'
    BY <1>4, StillOpen, ConfigAssumption DEF StartWait
  <2>2. Service!Wait(c, t, deadline)
    BY <1>4, <2>1, WaitBegins DEF StartWait, idVars, copyVars
  <2> QED
    BY <2>1, <2>2 DEF Service!Next
<1>5. CASE Check(c)
  BY <1>5, CheckAnswers DEF Service!Next
<1>6. CASE WakeOnTimeout(c)
  BY <1>6, Unseen DEF WakeOnTimeout, idVars, copyVars, TypeOK
<1>7. ASSUME NEW finalWait \in FinalWaits, Shutdown(c, finalWait)
      PROVE  Service!Next \/ UNCHANGED abstract
  <2>1. Callers = {c}
    BY <1>7, CloserIsAlone DEF Shutdown
  <2>2. CASE finalWait
    <3>1. Service!Wait(c, All, FALSE)
      BY <1>7, <2>1, <2>2, WaitBegins DEF Shutdown, idVars, copyVars
    <3> QED
      BY <3>1 DEF Service!Next
  <2>3. CASE ~finalWait
    <3>1. taskStatus' = taskStatus /\ srcOf' = srcOf
      BY <1>7 DEF Shutdown, idVars, copyVars, taskStatus, Issued
    <3>2. waitingFor' = waitingFor
      BY <1>7, <2>1, <2>3 DEF Shutdown, waitingFor, TypeOK
    <3>3. ~waitedForAll /\ ~waitedForAll'
      BY <1>7, <2>1, <2>3, StillOpen, ConfigAssumption DEF Shutdown, waitedForAll
    <3>4. waitedForAll' = waitedForAll
      BY <3>3 DEF waitedForAll
    <3> QED
      BY <3>1, <3>2, <3>4 DEF abstract
  <2> QED
    BY <2>2, <2>3
<1>8. CASE PutSentinel(c)
  BY <1>8, Unseen DEF PutSentinel, idVars, copyVars
<1>9. CASE Join(c)
  BY <1>9, Unseen DEF Join, idVars, copyVars, TypeOK
<1> QED
  BY <1>1, <1>2, <1>3, <1>4, <1>5, <1>6, <1>7, <1>8, <1>9 DEF CallerStep

\* So is a step of a worker.
LEMMA WorkerMaps ==
  ASSUME TypeOK, Located, NEW w \in Workers, WorkerStep(w)
  PROVE  Service!Next \/ UNCHANGED abstract
<1>1. CASE CopyOk(w) \/ MarkFailed(w)
  BY <1>1, OutcomeSettles, Mapped DEF Service!Next
<1>2. CASE Get(w) \/ CopyFail(w) \/ TaskDone(w)
  BY <1>2, Unseen DEF Get, CopyFail, TaskDone, idVars, copyVars, callerVars
<1>3. CASE Finalize(w)
  <2>1. UNCHANGED <<nextId, srcOf, uploaded, failed, target, timed, final>> /\ pc' = Awaken
    BY <1>3 DEF Finalize, copyVars
  <2> QED
    BY <2>1, Unseen DEF Awaken
<1> QED
  BY <1>1, <1>2, <1>3 DEF WorkerStep

\* The uploader, with any number of threads, workers and retries, does to its
\* callers what UploadService promises.
THEOREM Implements == Spec => ServiceSpec
<1>1. IInv /\ [Next]_vars => [Service!Next]_abstract
  <2> SUFFICES ASSUME IInv, [Next]_vars PROVE Service!Next \/ UNCHANGED abstract
    OBVIOUS
  <2> USE DEF IInv, Located
  <2>1. ASSUME NEW c \in Callers, CallerStep(c) PROVE Service!Next \/ UNCHANGED abstract
    BY <2>1, CallerMaps
  <2>2. ASSUME NEW w \in Workers, WorkerStep(w) PROVE Service!Next \/ UNCHANGED abstract
    BY <2>2, WorkerMaps
  <2>3. CASE UNCHANGED vars
    BY <2>3, Unseen DEF vars, idVars, copyVars, callerVars
  <2> QED
    BY <2>1, <2>2, <2>3 DEF Next
<1>2. Service!Spec <=> Service!Init /\ [][Service!Next]_abstract
  BY DEF Service!Spec, Service!svars, abstract
<1> QED
  BY <1>1, <1>2, ServiceInit, Invariance, PTL DEF Spec, ServiceSpec
=============================================================================
