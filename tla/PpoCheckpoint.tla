---------------------------- MODULE PpoCheckpoint ----------------------------
(***************************************************************************)
(* Checkpointing of the PPO driver (RayPPOTrainer) over the checkpoint     *)
(* managers of its actor and critic worker groups and the uploader of the  *)
(* driver's process.  A worker group saves or loads as one: SftCheckpoint  *)
(* has the ranks in it.                                                    *)
(*                                                                         *)
(* The job dies with everything queued in the uploader, or a worker fails  *)
(* and the driver still waits for its uploads in run's finally block.  A   *)
(* restarted job resumes from HDFS if default_hdfs_dir is set, else from   *)
(* default_local_dir.                                                      *)
(***************************************************************************)
EXTENDS Integers, Sequences, FiniteSets

CONSTANTS
  Roles,        \* <<"actor", "critic">>, or <<"actor">> without a critic
  Keep,         \* max_ckpt_to_keep of each role, 0 for None
  HdfsChoices,  \* whether default_hdfs_dir may be, or must be, set
  EsiMayExpire, \* the instance may tell that it is about to be taken away
  SaveFreq, TotalSteps,
  All,          \* what a final wait waits for
  MaxCrashes,   \* bound: restarts in a behaviour
  MaxTasks,     \* bound: uploads of one incarnation
  MaxFailures   \* bound: those of them that fail

Role == {Roles[i] : i \in DOMAIN Roles}

ASSUME PpoAssumption ==
  /\ Roles \in {<<"actor">>, <<"actor", "critic">>}
  /\ \A r \in Role : Keep[r] \in Nat
  /\ HdfsChoices \subseteq BOOLEAN /\ EsiMayExpire \in BOOLEAN
  /\ SaveFreq \in Nat \ {0} /\ TotalSteps \in Nat \ {0}
  /\ MaxCrashes \in Nat /\ MaxTasks \in Nat /\ MaxFailures \in Nat

VARIABLES
  hdfs,       \* default_hdfs_dir is set
  pc,         \* where the driver is
  saving,     \* index in Roles of the worker group that saves
  step,       \* global_steps
  previous,   \* previous_saved_paths of each role, as steps
  shards,     \* files of each role in each step's directory
  data,       \* data.pt in it
  tracker,    \* latest_checkpointed_iteration.txt: 0 if there is none, Empty
  status, path, waiting, closed,    \* the uploader of the driver
  snapshot,   \* tracker contents an upload has read, Unread before
  remoteFolders, remoteData,        \* global_step_N directories on HDFS
  remoteTracker,
  crashes

local   == <<previous, shards, data, tracker>>
service == <<status, path, waiting, closed>>
remote  == <<remoteFolders, remoteData, remoteTracker>>
vars == <<hdfs, pc, saving, step, local, service, snapshot, remote, crashes>>

\* A resumed job that had ended makes one step more.
LastStep  == TotalSteps + MaxCrashes
Steps     == 1 .. LastStep
Empty     == -1
Unread    == -2
FileState == {"none", "torn", "whole"}

DataFile(s) == <<"data", s>>
TrackerFile == <<"tracker", 0>>
SourcePaths == ({"data"} \X Steps) \cup {TrackerFile}
Uploader    == INSTANCE UploadService WITH Callers <- {0}, Paths <- SourcePaths

TypeOK ==
  /\ hdfs \in HdfsChoices
  /\ pc \in {"down", "broken", "train", "rotate", "removing", "open", "write", "data", "data_open",
             "tracker", "tracker_open", "enqueue", "enqueue2", "final", "failing", "exit"}
  /\ saving \in DOMAIN Roles
  /\ step \in 0 .. LastStep
  /\ previous \in [Role -> Seq(Steps)]
  /\ shards \in [Role -> [Steps -> FileState]]
  /\ data \in [Steps -> FileState]
  /\ tracker \in Steps \cup {0, Empty}
  /\ status \in [Uploader!Tasks -> {"none", "pending", "ok", "failed"}]
  /\ path \in [Uploader!Tasks -> SourcePaths \cup {All}]
  /\ waiting \in [{0} -> {<<>>, <<All, FALSE>>}]
  /\ closed \in BOOLEAN
  /\ snapshot \in [Uploader!Tasks -> Steps \cup {0, Empty, Unread}]
  /\ remoteFolders \subseteq Steps /\ remoteData \subseteq remoteFolders
  /\ remoteTracker \in Steps \cup {0, Empty}
  /\ crashes \in 0 .. MaxCrashes

Init ==
  /\ hdfs \in HdfsChoices
  /\ pc = "down" /\ saving = 1 /\ step = 0
  /\ previous = [r \in Role |-> <<>>]
  /\ shards = [r \in Role |-> [s \in Steps |-> "none"]]
  /\ data = [s \in Steps |-> "none"]
  /\ tracker = 0
  /\ Uploader!Init
  /\ snapshot = [id \in Uploader!Tasks |-> Unread]
  /\ remoteFolders = {} /\ remoteData = {} /\ remoteTracker = 0
  /\ crashes = 0

-----------------------------------------------------------------------------
(* Starting, resuming and dying.                                           *)

\* find_latest_ckpt_path, or _find_latest_hdfs_checkpoint, which goes down from
\* the tracker's step to one whose directory is there: 0 to start anew.
Present(s) == data[s] # "none" \/ \E r \in Role : shards[r][s] # "none"

LatestBelow(t) ==
  IF \E s \in remoteFolders : s <= t
  THEN CHOOSE s \in remoteFolders : s <= t /\ \A u \in remoteFolders : u <= t => u <= s
  ELSE 0

ResumeStep ==
  IF hdfs THEN LatestBelow(remoteTracker)
  ELSE IF tracker \in Steps /\ Present(tracker) THEN tracker ELSE 0

\* Each role loads its shards, which must be there in full; on HDFS they never
\* are.  int() of an empty tracker, and torch.load of a torn data.pt, raise.
\* (A missing data.pt is only warned about.)
Unloadable ==
  \/ (IF hdfs THEN remoteTracker ELSE tracker) = Empty
  \/ ResumeStep # 0 /\ (hdfs \/ data[ResumeStep] = "torn"
                             \/ \E r \in Role : shards[r][ResumeStep] # "whole")

Launch ==
  /\ pc = "down"
  /\ IF Unloadable THEN pc' = "broken" /\ UNCHANGED step
                   ELSE pc' = "train" /\ step' = ResumeStep
  /\ UNCHANGED <<hdfs, saving, local, service, snapshot, remote, crashes>>

\* What ends with the driver's process.
Forget ==
  /\ pc' = "down" /\ saving' = 1
  /\ previous' = [r \in Role |-> <<>>]
  /\ status' = [id \in Uploader!Tasks |-> "none"]
  /\ path' = [id \in Uploader!Tasks |-> All]
  /\ waiting' = [c \in {0} |-> <<>>]
  /\ closed' = FALSE
  /\ snapshot' = [id \in Uploader!Tasks |-> Unread]
  /\ UNCHANGED <<hdfs, step, shards, data, tracker, remote>>

Crash ==
  /\ crashes < MaxCrashes /\ pc \notin {"down", "broken", "exit"}
  /\ crashes' = crashes + 1
  /\ Forget

\* A call of a worker group raises in the driver: fit is left for the finally
\* block, which waits for the uploads.
InWorkers == {"train", "rotate", "removing", "open", "write"}

WorkerFails ==
  /\ crashes < MaxCrashes /\ pc \in InWorkers
  /\ crashes' = crashes + 1
  /\ Uploader!Wait(0, All, FALSE)
  /\ pc' = "failing"
  /\ UNCHANGED <<hdfs, saving, step, local, snapshot, remote>>

Fail ==
  /\ pc = "failing"
  /\ Uploader!Drained(All)
  /\ Forget
  /\ UNCHANGED crashes

-----------------------------------------------------------------------------
(* fit and _save_checkpoint.                                               *)

\* One iteration of fit's loop up to its check for a checkpoint.
OnlyTheLast(s) == s >= TotalSteps
SaveNow(s)     == s >= TotalSteps \/ s % SaveFreq = 0

TrainStep ==
  /\ pc = "train"
  /\ step' = step + 1
  /\ \/ SaveNow(step + 1) /\ pc' = "rotate"
     \/ EsiMayExpire /\ pc' = "rotate"
     \/ ~SaveNow(step + 1) /\ pc' = "train"
  /\ UNCHANGED <<hdfs, saving, local, service, snapshot, remote, crashes>>

Current == Roles[saving]

\* The rotation of one role's directories: the files go first.
OneMoreLost(r) ==
  IF Keep[r] > 0 /\ Len(previous[r]) >= Keep[r] THEN Len(previous[r]) - Keep[r] + 2 ELSE 0

Surplus(r) ==
  IF Keep[r] > 0 /\ Len(previous[r]) >= Keep[r] THEN Len(previous[r]) - Keep[r] + 1 ELSE 0

Victims(r) == {previous[r][i] : i \in 1 .. Surplus(r)}

Wipe(r, state) ==
  shards' = [shards EXCEPT ![r] = [s \in Steps |-> IF s \in Victims(r) THEN state ELSE @[s]]]

Rotate ==
  /\ pc = "rotate"
  /\ Wipe(Current, "torn")
  /\ pc' = "removing"
  /\ UNCHANGED <<hdfs, saving, step, previous, data, tracker, service, snapshot, remote, crashes>>

Removed ==
  /\ pc = "removing"
  /\ Wipe(Current, "none")
  /\ previous' = [previous EXCEPT ![Current] = SubSeq(@, Surplus(Current) + 1, Len(@))]
  /\ pc' = "open"
  /\ UNCHANGED <<hdfs, saving, step, data, tracker, service, snapshot, remote, crashes>>

OpenShards ==
  /\ pc = "open"
  /\ shards' = [shards EXCEPT ![Current][step] = "torn"]
  /\ pc' = "write"
  /\ UNCHANGED <<hdfs, saving, step, previous, data, tracker, service, snapshot, remote, crashes>>

\* After the last role it is the driver's turn.
WriteShards ==
  /\ pc = "write"
  /\ shards' = [shards EXCEPT ![Current][step] = "whole"]
  /\ previous' = [previous EXCEPT ![Current] = Append(@, step)]
  /\ IF saving = Len(Roles)
     THEN pc' = "data" /\ saving' = 1
     ELSE pc' = "rotate" /\ saving' = saving + 1
  /\ UNCHANGED <<hdfs, step, data, tracker, service, snapshot, remote, crashes>>

OpenData ==
  /\ pc = "data"
  /\ data' = [data EXCEPT ![step] = "torn"]
  /\ pc' = "data_open"
  /\ UNCHANGED <<hdfs, saving, step, previous, shards, tracker, service, snapshot, remote, crashes>>

WriteData ==
  /\ pc = "data_open"
  /\ data' = [data EXCEPT ![step] = "whole"]
  /\ pc' = "tracker"
  /\ UNCHANGED <<hdfs, saving, step, previous, shards, tracker, service, snapshot, remote, crashes>>

\* open(..., "w") empties the tracker; the step is there when it is closed.
OpenTracker ==
  /\ pc = "tracker"
  /\ tracker' = Empty
  /\ pc' = "tracker_open"
  /\ UNCHANGED <<hdfs, saving, step, previous, shards, data, service, snapshot, remote, crashes>>

\* The loop goes on unless this was the last step.
Onward == IF step >= TotalSteps THEN "final" ELSE "train"

WriteTracker ==
  /\ pc = "tracker_open"
  /\ tracker' = step
  /\ pc' = IF hdfs THEN "enqueue" ELSE Onward
  /\ UNCHANGED <<hdfs, saving, step, previous, shards, data, service, snapshot, remote, crashes>>

EnqueueData ==
  /\ pc = "enqueue"
  /\ Uploader!Enqueue(0, DataFile(step))
  /\ pc' = "enqueue2"
  /\ UNCHANGED <<hdfs, saving, step, local, snapshot, remote, crashes>>

EnqueueTracker ==
  /\ pc = "enqueue2"
  /\ Uploader!Enqueue(0, TrackerFile)
  /\ pc' = Onward
  /\ UNCHANGED <<hdfs, saving, step, local, snapshot, remote, crashes>>

\* shutdown_uploader(final_wait=True) in the finally block of run.
Shutdown ==
  /\ pc = "final" /\ waiting[0] = <<>>
  /\ Uploader!Wait(0, All, FALSE)
  /\ UNCHANGED <<hdfs, pc, saving, step, local, snapshot, remote, crashes>>

Exit ==
  /\ pc = "final"
  /\ Uploader!Return(0) /\ closed'
  /\ pc' = "exit"
  /\ UNCHANGED <<hdfs, saving, step, local, snapshot, remote, crashes>>

-----------------------------------------------------------------------------
(* The pool of the driver's uploader.  Several uploads run at a time.      *)

\* A put reads its source, and some time later the copy is in place.
ReadTracker(id) ==
  /\ status[id] = "pending" /\ path[id] = TrackerFile /\ snapshot[id] = Unread
  /\ snapshot' = [snapshot EXCEPT ![id] = tracker]
  /\ UNCHANGED <<hdfs, pc, saving, step, local, service, remote, crashes>>

UploadedTracker(id) ==
  /\ path[id] = TrackerFile /\ snapshot[id] # Unread
  /\ Uploader!Settle(id) /\ status'[id] = "ok"
  /\ remoteTracker' = snapshot[id]
  /\ UNCHANGED <<hdfs, pc, saving, step, local, snapshot, remoteFolders, remoteData, crashes>>

\* _do_copy makes the directory before it puts data.pt there, and goes on if it cannot.
MakeFolder(id) ==
  /\ status[id] = "pending" /\ path[id] # TrackerFile
  /\ remoteFolders' = remoteFolders \cup {path[id][2]}
  /\ UNCHANGED <<hdfs, pc, saving, step, local, service, snapshot, remoteData, remoteTracker,
                 crashes>>

UploadedData(id) ==
  /\ status[id] = "pending" /\ path[id] # TrackerFile /\ path[id][2] \in remoteFolders
  /\ Uploader!Settle(id) /\ status'[id] = "ok"
  /\ remoteData' = remoteData \cup {path[id][2]}
  /\ UNCHANGED <<hdfs, pc, saving, step, local, snapshot, remoteFolders, remoteTracker, crashes>>

Failures == {id \in Uploader!Tasks : status[id] = "failed"}

UploadFails(id) ==
  /\ Cardinality(Failures) < MaxFailures
  /\ Uploader!Settle(id) /\ status'[id] = "failed"
  /\ UNCHANGED <<hdfs, pc, saving, step, local, snapshot, remote, crashes>>

Driver ==
  \/ Launch \/ TrainStep \/ Rotate \/ Removed \/ OpenShards \/ WriteShards \/ OpenData
  \/ WriteData \/ OpenTracker \/ WriteTracker \/ EnqueueData \/ EnqueueTracker \/ Shutdown

Upload(id) ==
  ReadTracker(id) \/ UploadedTracker(id) \/ MakeFolder(id) \/ UploadedData(id) \/ UploadFails(id)

Next == Driver \/ Fail \/ Exit \/ Crash \/ WorkerFails \/ \E id \in Uploader!Tasks : Upload(id)

Spec == Init /\ [][Next]_vars

NothingUploaded == \A id \in Uploader!Tasks : status[id] = "none"

\* The driver is scheduled and restarted, and uploads end.  wait_for_all may sleep
\* for ever (HdfsUploader), and is only sure to return where it finds that
\* nothing was ever given to the pool.
FairSpec ==
  /\ Spec /\ WF_vars(Driver) /\ WF_vars(NothingUploaded /\ (Fail \/ Exit))
  /\ \A id \in Uploader!Tasks : WF_vars(Upload(id))

-----------------------------------------------------------------------------
(* Properties.                                                             *)

\* Without HDFS, the checkpoint that the tracker names can be loaded by every
\* role whenever the job dies: actor, critic and data.pt are saved before the
\* tracker, and no role's rotation removes its part.
LocalResumable ==
  ~hdfs /\ tracker \in Steps =>
    data[tracker] = "whole" /\ \A r \in Role : shards[r][tracker] = "whole"

\* Without HDFS a job that comes up again goes on from the last save and
\* repeats at most one interval.  A job that died while the tracker was empty
\* does not come up.  (Mapped to a job that does nothing with HDFS.)
Job == INSTANCE ResumableTraining WITH
         TotalSteps <- LastStep,
         step  <- IF hdfs THEN 0 ELSE step,
         saved <- IF hdfs THEN 0 ELSE IF tracker = Empty THEN step ELSE tracker,
         up    <- ~hdfs /\ pc \notin {"down", "broken"}
ResumesFromLastSave == Job!Spec

\* A job that ends, no upload of it having failed, leaves the data.pt of its last
\* checkpoint on HDFS.
LastStepCopied ==
  [][hdfs /\ pc = "final" /\ pc' = "exit" /\ Failures = {}
       => tracker \in remoteData]_vars

\* A job started again with resume_mode auto comes up: what the tracker comment
\* "for atomic usage" and the upload comment "Worker checkpoint managers upload
\* FSDP shards from every rank" are to guarantee.
RestartComesUp == pc # "broken"

\* The job ends, or does not come up, however often it dies, whatever call of it
\* raises and whatever happens to uploads: but for the wait of the finally block,
\* which may sleep on where anything was uploaded, though only with every upload
\* settled, nobody waits for ever.
Overslept ==
  /\ pc \in {"final", "failing"} /\ waiting[0] # <<>>
  /\ ~NothingUploaded /\ Uploader!Drained(All)

JobEnds == <>[](pc \in {"exit", "broken"} \/ Overslept)
=============================================================================
