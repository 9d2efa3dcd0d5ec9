------------------------- MODULE SftCheckpointProofs -------------------------
(***************************************************************************)
(* The state of SftCheckpoint has its type, and, for every number of       *)
(* ranks, steps, crashes and uploads: the tracker names a checkpoint that  *)
(* can be loaded, whenever the job dies; uploads read what was saved, and  *)
(* HDFS has whole checkpoints; the dataloaders are at the step of the job. *)
(***************************************************************************)
EXTENDS SftCheckpoint, SequenceTheorems, TLAPS

-----------------------------------------------------------------------------
\* The ranks are between the same two meeting points.

Rotating  == {"rotate", "remove", "wait", "delete", "rmdir", "mkdir", "b1"}
Writing   == {"shard", "shard_open", "b2"}
Finishing == {"data", "data_open", "tracker", "enqueue", "enqueue2", "b3"}

Stage(where) ==
  CASE where \in Rotating  -> "rotating"
    [] where \in Writing   -> "writing"
    [] where \in Finishing -> "finishing"
    [] OTHER               -> where

Together == \A r \in Ranks : Stage(pc[r]) = Stage(pc[0])

\* The step they are at, and the paths rank 0 is still to remove.
StepFits ==
  /\ \A r \in Ranks : pc[r] = "train" => step < TotalSteps
  /\ \A r \in Ranks : pc[r] \in Rotating \cup Writing \cup Finishing => step \in Steps
  /\ pc[0] \in {"wait", "delete", "rmdir"} => doomed # <<>>

\* No dataloader is ahead of the job.
Behind == \A r \in Ranks : iter[r] <= step

TypeInv == TypeOK /\ Together /\ StepFits /\ Behind

USE CheckpointAssumption DEF Ranks, Steps, Uploader!Tasks, FileState

LEMMA Rank0 == 0 \in Ranks
OBVIOUS

LEMMA TypeInit == Init => TypeInv
<1> SUFFICES ASSUME Init PROVE TypeInv
  OBVIOUS
<1>1. /\ pc = [r \in Ranks |-> "down"] /\ step = 0 /\ doomed = <<>>
  BY DEF Init, AllAt
<1>2. Together /\ StepFits
  BY <1>1, Rank0 DEF Together, StepFits, Stage, Rotating, Writing, Finishing
<1>3. TypeOK
  <2>1. /\ status \in [Uploader!Tasks -> {"none", "pending", "ok", "failed"}]
        /\ path \in [Uploader!Tasks -> SourcePaths \cup {All}]
        /\ waiting \in [{0} -> {<<>>} \cup ((SourcePaths \cup {All}) \X BOOLEAN)]
        /\ closed \in BOOLEAN
    BY DEF Init, Uploader!Init
  <2>2. /\ config \in Configs /\ iter \in [Ranks -> 0 .. TotalSteps]
        /\ previous \in Seq(Steps) /\ folders \subseteq Steps /\ tracker \in 0 .. TotalSteps
        /\ shards \in [Steps -> [Ranks -> FileState]]
        /\ data \in [Steps -> [Writers -> FileState]]
        /\ remote \in [Steps -> CopyState] /\ crashes \in 0 .. MaxCrashes
    BY DEF Init, CopyState
  <2> QED
    BY <1>1, <2>1, <2>2 DEF TypeOK
<1>4. Behind
  BY DEF Init, Behind
<1> QED
  BY <1>2, <1>3, <1>4 DEF TypeInv

\* What rank 0 is to remove are saved steps, and so are those it keeps.
LEMMA RotationTypes ==
  ASSUME TypeOK
  PROVE  /\ Victims \in Seq(Steps) /\ Len(Victims) \in Nat
         /\ SubSeq(previous, Len(Victims) + 1, Len(previous)) \in Seq(Steps)
<1>1. config.keep \in Nat /\ previous \in Seq(Steps) /\ Len(previous) \in Nat
  BY DEF TypeOK
<1>2. ASSUME NEW n \in Nat PROVE Oldest(n) \in Seq(Steps)
  BY <1>1 DEF Oldest
<1>3. Victims \in Seq(Steps)
  <2>1. CASE config.keep > 0 /\ Len(previous) >= config.keep
    BY <1>1, <1>2, <2>1 DEF Victims
  <2>2. CASE ~(config.keep > 0 /\ Len(previous) >= config.keep)
    <3>1. Victims = <<>>
      BY <2>2 DEF Victims
    <3> QED
      BY <3>1
  <2> QED
    BY <2>1, <2>2
<1> QED
  BY <1>1, <1>3

Places == {"down", "broken", "train", "rotate", "remove", "wait", "delete",
           "rmdir", "mkdir", "b1", "shard", "shard_open", "b2", "data", "data_open",
           "tracker", "enqueue", "enqueue2", "b3", "done", "final", "exit"}

\* A rank that moves within a stage leaves the ranks together.
LEMMA Moves ==
  ASSUME TypeInv, NEW r \in Ranks, NEW where \in Rotating \cup Writing \cup Finishing,
         Goto(r, where), Stage(where) = Stage(pc[r]), UNCHANGED step,
         \/ UNCHANGED doomed /\ where \notin {"wait", "delete", "rmdir"}
         \/ UNCHANGED doomed /\ doomed # <<>>
         \/ r = 0 /\ where \notin {"wait", "delete", "rmdir"}
  PROVE  pc' \in [Ranks -> Places] /\ Together' /\ StepFits'
<1>1. pc \in [Ranks -> Places] /\ pc' = [pc EXCEPT ![r] = where]
  BY DEF TypeInv, TypeOK, Places, Goto
<1>2. pc' \in [Ranks -> Places]
  BY <1>1 DEF Rotating, Writing, Finishing, Places
<1>3. Together'
  BY <1>1, Rank0 DEF TypeInv, Together
<1>4. pc[r] \in Rotating \cup Writing \cup Finishing
  BY <1>1 DEF Stage, Rotating, Writing, Finishing, Places
<1>5. StepFits'
  BY <1>1, <1>4 DEF TypeInv, StepFits, Rotating, Writing, Finishing
<1> QED
  BY <1>2, <1>3, <1>5

\* One step of one rank on its own.
LEMMA TypeRankStep ==
  ASSUME TypeInv, NEW r \in Ranks, RankStep(r)
  PROVE  TypeInv'
<1> USE DEF TypeInv, Behind, Rotating, Writing, Finishing
<1>1. CASE Rotate(r)
  <2>1. pc' \in [Ranks -> Places] /\ Together' /\ StepFits'
    <3>1. CASE r = 0
      <4>1. Goto(0, "remove") /\ pc[0] = "rotate" /\ UNCHANGED step
        BY <1>1, <3>1 DEF Rotate
      <4>2. Stage("remove") = Stage(pc[0])
        BY <4>1 DEF Stage
      <4> QED
        BY <3>1, <4>1, <4>2, Moves
    <3>2. CASE r # 0
      <4>1. Goto(r, "mkdir") /\ pc[r] = "rotate" /\ UNCHANGED <<step, doomed>>
        BY <1>1, <3>2 DEF Rotate
      <4>2. Stage("mkdir") = Stage(pc[r])
        BY <4>1 DEF Stage
      <4> QED
        BY <4>1, <4>2, Moves
    <3> QED
      BY <3>1, <3>2
  <2>2. previous' \in Seq(Steps) /\ doomed' \in Seq(Steps)
    BY <1>1, RotationTypes DEF Rotate, TypeOK
  <2> QED
    BY <1>1, <2>1, <2>2 DEF Rotate, TypeOK, Places, local, service
<1>2. CASE Mkdir(r)
  <2>1. pc' \in [Ranks -> Places] /\ Together' /\ StepFits'
    <3>1. Goto(r, "b1") /\ pc[r] = "mkdir" /\ UNCHANGED <<step, doomed>>
      BY <1>2 DEF Mkdir
    <3>2. Stage("b1") = Stage(pc[r])
      BY <3>1 DEF Stage
    <3> QED
      BY <3>1, <3>2, Moves
  <2>2. step \in Steps
    BY <1>2 DEF Mkdir, StepFits
  <2> QED
    BY <1>2, <2>1, <2>2 DEF Mkdir, TypeOK, Places, service
<1>3. CASE OpenShard(r)
  <2>1. pc' \in [Ranks -> Places] /\ Together' /\ StepFits'
    <3>1. Goto(r, "shard_open") /\ pc[r] = "shard" /\ UNCHANGED <<step, doomed>>
      BY <1>3 DEF OpenShard
    <3>2. Stage("shard_open") = Stage(pc[r])
      BY <3>1 DEF Stage
    <3> QED
      BY <3>1, <3>2, Moves
  <2> QED
    BY <1>3, <2>1 DEF OpenShard, TypeOK, Places, service
<1>4. CASE WriteShard(r)
  <2>1. pc' \in [Ranks -> Places] /\ Together' /\ StepFits'
    <3>1. Goto(r, "b2") /\ pc[r] = "shard_open" /\ UNCHANGED <<step, doomed>>
      BY <1>4 DEF WriteShard
    <3>2. Stage("b2") = Stage(pc[r])
      BY <3>1 DEF Stage
    <3> QED
      BY <3>1, <3>2, Moves
  <2> QED
    BY <1>4, <2>1 DEF WriteShard, TypeOK, Places, service
<1>5. CASE OpenData(r)
  <2>1. pc' \in [Ranks -> Places] /\ Together' /\ StepFits'
    <3>1. /\ Goto(r, AfterShards(r)) /\ pc[r] = "data" /\ UNCHANGED <<step, doomed>>
          /\ AfterShards(r) \in {"data_open", "b3"}
      BY <1>5 DEF OpenData, AfterShards
    <3>2. Stage(AfterShards(r)) = Stage(pc[r])
      BY <3>1 DEF Stage
    <3> QED
      BY <3>1, <3>2, Moves
  <2>2. data' \in [Steps -> [Writers -> FileState]]
    BY <1>5 DEF OpenData, TypeOK
  <2> QED
    BY <1>5, <2>1, <2>2 DEF OpenData, TypeOK, Places, service
<1>6. CASE WriteData(r)
  <2>1. pc' \in [Ranks -> Places] /\ Together' /\ StepFits'
    <3>1. PICK where \in {"tracker", "b3"} :
            Goto(r, where) /\ pc[r] = "data_open" /\ UNCHANGED <<step, doomed>>
      BY <1>6 DEF WriteData
    <3>2. Stage(where) = Stage(pc[r])
      BY <3>1 DEF Stage
    <3> QED
      BY <3>1, <3>2, Moves
  <2>2. data' \in [Steps -> [Writers -> FileState]]
    BY <1>6 DEF WriteData, TypeOK
  <2> QED
    BY <1>6, <2>1, <2>2 DEF WriteData, TypeOK, Places, service
<1> QED
  BY <1>1, <1>2, <1>3, <1>4, <1>5, <1>6 DEF RankStep

\* The part of TypeOK about the uploader of rank 0, and how its operations keep it.
ServiceOK ==
  /\ status \in [Uploader!Tasks -> {"none", "pending", "ok", "failed"}]
  /\ path \in [Uploader!Tasks -> SourcePaths \cup {All}]
  /\ waiting \in [{0} -> {<<>>} \cup ((SourcePaths \cup {All}) \X BOOLEAN)]
  /\ closed \in BOOLEAN

LEMMA ServiceSteps ==
  ASSUME ServiceOK
  PROVE  /\ \A p \in SourcePaths : Uploader!Enqueue(0, p) => ServiceOK'
         /\ \A t \in SourcePaths \cup {All} : Uploader!Wait(0, t, FALSE) => ServiceOK'
         /\ Uploader!Return(0) => ServiceOK'
         /\ \A id \in Uploader!Tasks : Uploader!Settle(id) => ServiceOK'
<1>1. ASSUME NEW p \in SourcePaths, Uploader!Enqueue(0, p) PROVE ServiceOK'
  BY <1>1 DEF ServiceOK, Uploader!Enqueue
<1>2. ASSUME NEW t \in SourcePaths \cup {All}, Uploader!Wait(0, t, FALSE) PROVE ServiceOK'
  BY <1>2 DEF ServiceOK, Uploader!Wait
<1>3. ASSUME Uploader!Return(0) PROVE ServiceOK'
  <2>1. closed' \in BOOLEAN
    BY <1>3 DEF ServiceOK, Uploader!Return
  <2> QED
    BY <1>3, <2>1 DEF ServiceOK, Uploader!Return
<1>4. ASSUME NEW id \in Uploader!Tasks, Uploader!Settle(id) PROVE ServiceOK'
  BY <1>4 DEF ServiceOK, Uploader!Settle
<1> QED
  BY <1>1, <1>2, <1>3, <1>4

\* Every path that is enqueued or waited for is a source path.
LEMMA PathsAreSources ==
  ASSUME NEW s \in Steps
  PROVE  /\ Folder(s) \in SourcePaths /\ AbsFolder(s) \in SourcePaths
         /\ DataFile(s) \in SourcePaths /\ TrackerFile \in SourcePaths
BY DEF SourcePaths, Folder, AbsFolder, DataFile, TrackerFile

\* What is left to remove is saved steps.
LEMMA DoomedTypes ==
  ASSUME TypeOK, doomed # <<>>
  PROVE  Head(doomed) \in Steps /\ Tail(doomed) \in Seq(Steps)
BY DEF TypeOK

\* A step of rank 0's alone.
LEMMA TypeRank0Step ==
  ASSUME TypeInv, Rank0Step
  PROVE  TypeInv'
<1> USE Rank0 DEF TypeInv, Behind, Rotating, Writing, Finishing
<1>0. ServiceOK /\ step \in 0 .. TotalSteps
  BY DEF TypeOK, ServiceOK
<1>1. CASE WaitUploads
  <2>1. pc' \in [Ranks -> Places] /\ Together' /\ StepFits'
    <3>1. Goto(0, "wait") /\ pc[0] = "remove" /\ UNCHANGED <<step, doomed>> /\ doomed # <<>>
      BY <1>1 DEF WaitUploads
    <3>2. Stage("wait") = Stage(pc[0])
      BY <3>1 DEF Stage
    <3> QED
      BY <3>1, <3>2, Moves
  <2>2. ServiceOK'
    BY <1>0, <1>1, DoomedTypes, PathsAreSources, ServiceSteps DEF WaitUploads
  <2> QED
    BY <1>1, <2>1, <2>2 DEF WaitUploads, TypeOK, ServiceOK, Places, local
<1>2. CASE UploadsDone
  <2>1. pc' \in [Ranks -> Places] /\ Together' /\ StepFits'
    <3>1. Goto(0, "delete") /\ pc[0] = "wait" /\ UNCHANGED <<step, doomed>>
      BY <1>2 DEF UploadsDone
    <3>2. Stage("delete") = Stage(pc[0]) /\ doomed # <<>>
      BY <3>1 DEF Stage, StepFits
    <3> QED
      BY <3>1, <3>2, Moves
  <2>2. ServiceOK'
    BY <1>0, <1>2, ServiceSteps DEF UploadsDone
  <2> QED
    BY <1>2, <2>1, <2>2 DEF UploadsDone, TypeOK, ServiceOK, Places, local
<1>3. CASE DeleteFiles
  <2>1. pc' \in [Ranks -> Places] /\ Together' /\ StepFits'
    <3>1. Goto(0, "rmdir") /\ pc[0] = "delete" /\ UNCHANGED <<step, doomed>>
      BY <1>3 DEF DeleteFiles
    <3>2. Stage("rmdir") = Stage(pc[0]) /\ doomed # <<>>
      BY <3>1 DEF Stage, StepFits
    <3> QED
      BY <3>1, <3>2, Moves
  <2>2. /\ shards' \in [Steps -> [Ranks -> FileState]]
        /\ data' \in [Steps -> [Writers -> FileState]]
    BY <1>3 DEF DeleteFiles, TypeOK
  <2> QED
    BY <1>3, <2>1, <2>2 DEF DeleteFiles, TypeOK, Places, service
<1>4. CASE DeleteFolder
  <2>1. pc' \in [Ranks -> Places] /\ Together' /\ StepFits'
    <3>1. Goto(0, "remove") /\ pc[0] = "rmdir" /\ UNCHANGED step
      BY <1>4 DEF DeleteFolder
    <3>2. Stage("remove") = Stage(pc[0])
      BY <3>1 DEF Stage
    <3> QED
      BY <3>1, <3>2, Moves
  <2>2. doomed' \in Seq(Steps)
    <3>1. doomed # <<>>
      BY <1>4 DEF DeleteFolder, StepFits
    <3> QED
      BY <1>4, <3>1, DoomedTypes DEF DeleteFolder
  <2> QED
    BY <1>4, <2>1, <2>2 DEF DeleteFolder, TypeOK, Places, service
<1>5. CASE RotationDone
  <2>1. pc' \in [Ranks -> Places] /\ Together' /\ StepFits'
    <3>1. Goto(0, "mkdir") /\ pc[0] = "remove" /\ UNCHANGED <<step, doomed>>
      BY <1>5 DEF RotationDone
    <3>2. Stage("mkdir") = Stage(pc[0])
      BY <3>1 DEF Stage
    <3> QED
      BY <3>1, <3>2, Moves
  <2> QED
    BY <1>5, <2>1 DEF RotationDone, TypeOK, Places, local, service
<1>6. CASE WriteTracker
  <2>1. pc' \in [Ranks -> Places] /\ Together' /\ StepFits'
    <3>1. PICK where \in {"b3", "enqueue"} :
            Goto(0, where) /\ pc[0] = "tracker" /\ UNCHANGED <<step, doomed>>
      BY <1>6 DEF WriteTracker
    <3>2. Stage(where) = Stage(pc[0])
      BY <3>1 DEF Stage
    <3> QED
      BY <3>1, <3>2, Moves
  <2> QED
    BY <1>0, <1>6, <2>1 DEF WriteTracker, TypeOK, Places, service
<1>7. CASE EnqueueStep
  <2>1. step \in Steps
    BY <1>7 DEF EnqueueStep, StepFits
  <2>2. pc' \in [Ranks -> Places] /\ Together' /\ StepFits'
    <3>1. PICK where \in {"b3", "enqueue2"} :
            Goto(0, where) /\ pc[0] = "enqueue" /\ UNCHANGED <<step, doomed>>
      BY <1>7 DEF EnqueueStep
    <3>2. Stage(where) = Stage(pc[0])
      BY <3>1 DEF Stage
    <3> QED
      BY <3>1, <3>2, Moves
  <2>3. ServiceOK'
    BY <1>0, <1>7, <2>1, PathsAreSources, ServiceSteps DEF EnqueueStep
  <2> QED
    BY <1>7, <2>2, <2>3 DEF EnqueueStep, TypeOK, ServiceOK, Places, local
<1>8. CASE EnqueueTracker
  <2>1. pc' \in [Ranks -> Places] /\ Together' /\ StepFits'
    <3>1. Goto(0, "b3") /\ pc[0] = "enqueue2" /\ UNCHANGED <<step, doomed>>
      BY <1>8 DEF EnqueueTracker
    <3>2. Stage("b3") = Stage(pc[0])
      BY <3>1 DEF Stage
    <3> QED
      BY <3>1, <3>2, Moves
  <2>2. ServiceOK'
    <3>1. TrackerFile \in SourcePaths
      BY DEF SourcePaths
    <3> QED
      BY <1>0, <1>8, <3>1, ServiceSteps DEF EnqueueTracker
  <2> QED
    BY <1>8, <2>1, <2>2 DEF EnqueueTracker, TypeOK, ServiceOK, Places, local
<1> QED
  BY <1>1, <1>2, <1>3, <1>4, <1>5, <1>6, <1>7, <1>8 DEF Rank0Step

\* A step of all ranks at once, which puts them in one place.
LEMMA TypeCollective ==
  ASSUME TypeInv, Collective \/ Exit
  PROVE  TypeInv'
<1> USE Rank0 DEF TypeInv, Behind, Rotating, Writing, Finishing, Everyone, AllAt
<1>0. ServiceOK /\ step \in 0 .. TotalSteps
  BY DEF TypeOK, ServiceOK
<1>1. ASSUME NEW where \in Places, pc' = [r \in Ranks |-> where],
             where \in Rotating \cup Writing \cup Finishing => step' \in Steps,
             where = "train" => step' < TotalSteps,
             where \notin {"wait", "delete", "rmdir"}
      PROVE  pc' \in [Ranks -> Places] /\ Together' /\ StepFits'
  BY <1>1 DEF Together, StepFits, Places
<1>2. CASE Launch
  <2>1. tracker \in 0 .. TotalSteps /\ ResumeStep \in 0 .. TotalSteps
    BY DEF TypeOK, ResumeStep
  <2>2. /\ pc' \in [Ranks -> Places] /\ Together' /\ StepFits'
        /\ step' \in 0 .. TotalSteps /\ iter' \in [Ranks -> 0 .. TotalSteps] /\ Behind'
    <3>1. CASE step' = 0 /\ iter' = [r \in Ranks |-> 0] /\ pc' = [r \in Ranks |-> "train"]
      BY <1>1, <3>1 DEF Places
    <3>2. CASE pc' = [r \in Ranks |-> "broken"] /\ UNCHANGED <<step, iter>>
      BY <1>1, <3>2 DEF Places, TypeOK
    <3>3. CASE /\ step' = ResumeStep /\ iter' = [r \in Ranks |-> Position(ResumeStep, r)]
               /\ pc' = [r \in Ranks |-> Onward(ResumeStep)]
      <4>1. (Onward(ResumeStep) = "train" /\ ResumeStep < TotalSteps) \/ Onward(ResumeStep) = "done"
        BY <2>1 DEF Onward
      <4>2. pc' \in [Ranks -> Places] /\ Together' /\ StepFits'
        BY <1>1, <3>3, <4>1 DEF Places
      <4> QED
        BY <2>1, <3>3, <4>2 DEF Position
    <3> QED
      BY <1>2, <3>1, <3>2, <3>3 DEF Launch
  <2>3. UNCHANGED <<previous, doomed, local, service, remote, crashes, config>>
    BY <1>2 DEF Launch
  <2> QED
    BY <2>2, <2>3 DEF TypeOK, Places, local, service
<1>3. CASE TrainStep
  <2>1. step < TotalSteps
    BY <1>3 DEF TrainStep, StepFits
  <2>2. /\ step' = step + 1 /\ step' \in Steps
        /\ pc' = AllAt(IF SaveNow(step + 1) THEN "rotate" ELSE "train")
    BY <1>0, <1>3, <2>1 DEF TrainStep
  <2>3. pc' \in [Ranks -> Places] /\ Together' /\ StepFits'
    <3>1. CASE SaveNow(step + 1)
      BY <1>1, <2>2, <3>1 DEF Places
    <3>2. CASE ~SaveNow(step + 1)
      BY <1>0, <1>1, <2>1, <2>2, <3>2 DEF Places, SaveNow
    <3> QED
      BY <3>1, <3>2
  <2>4. iter' \in [Ranks -> 0 .. TotalSteps] /\ Behind'
    <3>1. iter' = [r \in Ranks |-> iter[r] + 1] /\ step' = step + 1
      BY <1>3 DEF TrainStep
    <3>2. iter \in [Ranks -> 0 .. TotalSteps] /\ \A r \in Ranks : iter[r] <= step
      BY DEF TypeOK
    <3>3. ASSUME NEW r \in Ranks PROVE iter[r] + 1 \in 0 .. TotalSteps /\ iter[r] + 1 <= step + 1
      BY <1>0, <2>1, <3>2
    <3> QED
      BY <3>1, <3>3
  <2>5. UNCHANGED <<previous, doomed, local, service, remote, crashes, config>>
    BY <1>3 DEF TrainStep
  <2>6. step' \in 0 .. TotalSteps
    BY <2>2
  <2> QED
    BY <2>3, <2>4, <2>5, <2>6 DEF TypeOK, Places, local, service
<1>4. CASE Barrier1
  <2>1. step \in Steps
    BY <1>4 DEF Barrier1, StepFits
  <2>2. pc' \in [Ranks -> Places] /\ Together' /\ StepFits'
    <3>1. pc' = [r \in Ranks |-> "shard"] /\ step' \in Steps
      BY <1>4, <2>1 DEF Barrier1
    <3> QED
      BY <1>1, <3>1 DEF Places
  <2>3. UNCHANGED <<step, iter, previous, doomed, local, service, remote, crashes, config>>
    BY <1>4 DEF Barrier1
  <2> QED
    BY <2>2, <2>3 DEF TypeOK, Places, local, service
<1>5. CASE Barrier2
  <2>1. step \in Steps
    BY <1>5 DEF Barrier2, StepFits
  <2>2. previous' \in Seq(Steps)
    BY <1>5, <2>1 DEF Barrier2, TypeOK
  <2> QED
    BY <1>1, <1>5, <2>1, <2>2 DEF Barrier2, TypeOK, Places, local, service
<1>6. CASE Barrier3
  BY <1>0, <1>1, <1>6 DEF Barrier3, TypeOK, Places, local, service, Onward
<1>7. CASE Shutdown
  <2>1. ServiceOK'
    BY <1>0, <1>7, ServiceSteps DEF Shutdown
  <2> QED
    BY <1>1, <1>7, <2>1 DEF Shutdown, TypeOK, ServiceOK, Places, local
<1>8. CASE Exit
  <2>1. ServiceOK'
    BY <1>0, <1>8, ServiceSteps DEF Exit
  <2> QED
    BY <1>1, <1>8, <2>1 DEF Exit, TypeOK, ServiceOK, Places, local
<1> QED
  BY <1>2, <1>3, <1>4, <1>5, <1>6, <1>7, <1>8 DEF Collective

\* Crashes and uploads.
LEMMA TypeCrash ==
  ASSUME TypeInv, Crash
  PROVE  TypeInv'
<1>1. pc' = [r \in Ranks |-> "down"] /\ UNCHANGED step /\ doomed' = <<>>
  BY DEF Crash, AllAt
<1>2. Together' /\ StepFits'
  BY <1>1, Rank0 DEF Together, StepFits, Stage, Rotating, Writing, Finishing
<1>3. ServiceOK'
  BY DEF Crash, ServiceOK
<1>4. crashes' \in 0 .. MaxCrashes /\ previous' \in Seq(Steps)
  BY DEF Crash, TypeInv, TypeOK
<1> QED
  BY <1>1, <1>2, <1>3, <1>4 DEF Crash, Behind, TypeInv, TypeOK, ServiceOK, local

LEMMA TypeUpload ==
  ASSUME TypeInv, NEW id \in Uploader!Tasks, Upload(id)
  PROVE  TypeInv'
<1>1. ServiceOK'
  <2>1. CASE Settles(id)
    BY <2>1, ServiceSteps DEF Settles, UploadOk, UploadFails, TypeInv, TypeOK, ServiceOK
  <2>2. CASE PutBreaks(id)
    BY <2>2 DEF PutBreaks, service, TypeInv, TypeOK, ServiceOK
  <2> QED
    BY <2>1, <2>2 DEF Upload
<1>2. remote' \in [Steps -> CopyState]
  <2>1. CASE UNCHANGED remote
    BY <2>1 DEF TypeInv, TypeOK
  <2>2. CASE \E content \in {"part", "whole"} : Arrives(path[id], content)
    <3> DEFINE s == path[id][2]
    <3>1. PICK content \in {"part", "whole"} :
            \/ remote' = [remote EXCEPT ![s].nested = content]
            \/ remote' = [remote EXCEPT ![s].top = content]
      BY <2>2 DEF Arrives
    <3> HIDE DEF s
    <3>2. remote \in [Steps -> CopyState]
      BY DEF TypeInv, TypeOK
    <3>3. \A c \in CopyState : [c EXCEPT !.nested = content] \in CopyState
                               /\ [c EXCEPT !.top = content] \in CopyState
      BY DEF CopyState
    <3>4. s \in Steps => remote[s] \in CopyState
      BY <3>2
    <3> QED
      BY <3>1, <3>2, <3>3, <3>4
  <2> QED
    BY <2>1, <2>2 DEF Upload, Settles, UploadOk, UploadFails, PutBreaks, Begun
<1>3. UNCHANGED <<pc, step, iter, previous, doomed, local, crashes, config>>
  BY DEF Upload, Settles, UploadOk, UploadFails, PutBreaks
<1>4. Together' /\ StepFits'
  BY <1>3 DEF TypeInv, Together, StepFits
<1> QED
  BY <1>1, <1>2, <1>3, <1>4 DEF Behind, TypeInv, TypeOK, ServiceOK, local

LEMMA TypeStep == TypeInv /\ [Next]_vars => TypeInv'
<1>1. ASSUME TypeInv, UNCHANGED vars PROVE TypeInv'
  BY <1>1 DEF vars, local, service, Behind, TypeInv, TypeOK, Together, StepFits
<1> QED
  BY <1>1, TypeRankStep, TypeRank0Step, TypeCollective, TypeCrash, TypeUpload DEF Next

\* The state always has its type, whatever crashes and fails to upload.
THEOREM TypeCorrect == Spec => []TypeOK
<1>1. TypeInv => TypeOK
  BY DEF TypeInv
<1> QED
  BY <1>1, TypeInit, TypeStep, PTL DEF Spec

\* No step changes the configuration.
LEMMA ConfigStays == [Next]_vars => config' = config
BY DEF vars, Next, Collective, Launch, TrainStep, Barrier1, Barrier2, Barrier3,
   Shutdown, Exit, Crash, RankStep, Rotate, Mkdir, OpenShard, WriteShard, OpenData,
   WriteData, Rank0Step, WaitUploads, UploadsDone, DeleteFiles, DeleteFolder,
   RotationDone, WriteTracker, EnqueueStep, EnqueueTracker, Upload, Settles, UploadOk, UploadFails, PutBreaks

-----------------------------------------------------------------------------
(* The tracker names a checkpoint that can be loaded.                      *)

\* What rank 0 keeps and is to remove: the newest of those kept is what the tracker
\* names, or the step that is being saved, and the others are older.
Newest == previous[Len(previous)]

Kept ==
  /\ pc[0] \in {"down", "broken"} => previous = <<>>
  /\ pc[0] \notin {"remove", "wait", "delete", "rmdir"} => doomed = <<>>
  /\ \A i \in 1 .. Len(previous) - 1 : previous[i] < Newest
  /\ pc[0] \in Finishing => previous # <<>> /\ Newest = step
  /\ pc[0] \notin Finishing /\ previous # <<>> => Newest = tracker
  /\ \A i \in 1 .. Len(doomed) : doomed[i] < tracker

\* The tracker is behind the step until rank 0 writes it.
Order ==
  /\ pc[0] = "train" => tracker <= step
  /\ pc[0] \in Rotating \cup Writing \cup {"data", "data_open", "tracker"} => tracker < step
  /\ pc[0] \in {"enqueue", "enqueue2", "b3"} => tracker = step

\* The files of the step that is being saved, as far as the ranks have come.
Written ==
  /\ \A r \in Ranks : pc[r] \in {"b1"} \cup Writing \cup Finishing => step \in folders
  /\ \A r \in Ranks : pc[r] \in {"b2"} \cup Finishing => shards[step][r] = "whole"
  /\ \A r \in Ranks : pc[r] = "data_open" => r \in Writers
  /\ pc[0] \in {"tracker", "enqueue", "enqueue2", "b3"} => data[step][0] = "whole"

SaveInv == config.keep # 1 => Kept /\ Order /\ Written

Inv == TypeInv /\ SaveInv /\ TrackerResumable

\* A job that resumes from its last checkpoint, and has one dataloader.
Resuming == AutoResume /\ Writers = {0}

LEMMA SaveInit == Init => SaveInv /\ TrackerResumable
<1> SUFFICES ASSUME Init PROVE SaveInv /\ TrackerResumable
  OBVIOUS
<1>1. \A r \in Ranks : pc[r] = "down"
  BY DEF Init, AllAt
<1>2. Kept
  BY <1>1, Rank0 DEF Init, Kept, Finishing
<1>3. Order /\ Written
  BY <1>1, Rank0 DEF Order, Written, Rotating, Writing, Finishing
<1> QED
  BY <1>2, <1>3 DEF Init, SaveInv, TrackerResumable

\* A job that keeps more than one checkpoint removes only older ones than the newest.
LEMMA OlderOnesGo ==
  ASSUME Inv, config.keep # 1, pc[0] = "rotate", Rotate(0)
  PROVE  Kept'
<1>1. /\ config.keep \in Nat /\ previous \in Seq(Steps) /\ Len(previous) \in Nat
      /\ \A i \in 1 .. Len(previous) : previous[i] \in Steps
      /\ pc \in [Ranks -> Places] /\ tracker \in 0 .. TotalSteps
  BY DEF Inv, TypeInv, TypeOK, Places
<1>2. /\ doomed' = Victims /\ previous' = SubSeq(previous, Len(Victims) + 1, Len(previous))
      /\ pc' = [pc EXCEPT ![0] = "remove"] /\ tracker' = tracker
  BY DEF Rotate, Goto, local
<1>3. pc'[0] = "remove"
  BY <1>1, <1>2, Rank0
<1>4. Kept
  BY DEF Inv, SaveInv
<1>5. CASE ~(config.keep > 0 /\ Len(previous) >= config.keep)
  <2>1. Victims = <<>> /\ SubSeq(previous, 1, Len(previous)) = previous
    BY <1>1, <1>5, SubSeqFull DEF Victims
  <2>2. doomed' = <<>> /\ previous' = previous
    BY <1>2, <2>1
  <2> QED
    BY <1>2, <1>3, <1>4, <2>2 DEF Kept, Newest, Finishing
<1>6. CASE config.keep > 0 /\ Len(previous) >= config.keep
  <2> DEFINE n == Len(previous) - config.keep + 1
  <2>1. n \in 1 .. Len(previous) - 1
    BY <1>1, <1>6
  <2>2. Victims = SubSeq(previous, 1, n)
    BY <1>1, <1>6, <2>1 DEF Victims, Oldest
  <2> HIDE DEF n
  <2>3. Len(Victims) = n /\ \A i \in 1 .. n : Victims[i] = previous[i]
    BY <1>1, <2>1, <2>2
  <2>4. /\ Len(previous') = Len(previous) - n
        /\ \A i \in 1 .. Len(previous) - n : previous'[i] = previous[i + n]
    BY <1>1, <1>2, <2>1, <2>3
  <2>5. previous # <<>> /\ Newest = tracker
    BY <1>1, <1>4, <2>1 DEF Kept, Finishing
  <2>6. ASSUME NEW i \in 1 .. Len(doomed') PROVE doomed'[i] < tracker'
    <3>1. doomed' = Victims /\ i \in 1 .. n /\ i \in 1 .. Len(previous) - 1
      BY <1>1, <1>2, <2>1, <2>3
    <3>2. doomed'[i] = previous[i] /\ previous[i] < Newest
      BY <1>4, <2>3, <3>1 DEF Kept
    <3> QED
      BY <1>2, <2>5, <3>2
  <2>7. Newest' = Newest
    <3> DEFINE m == Len(previous) - n
    <3>1. m \in 1 .. m /\ m + n = Len(previous) /\ Len(previous') = m
      BY <1>1, <2>1, <2>4
    <3>2. previous'[m] = previous[m + n]
      BY <2>4, <3>1
    <3> QED
      BY <3>1, <3>2 DEF Newest
  <2>8. ASSUME NEW i \in 1 .. Len(previous') - 1 PROVE previous'[i] < Newest'
    <3>1. /\ i \in 1 .. Len(previous) - n /\ i + n \in 1 .. Len(previous) - 1
      BY <1>1, <2>1, <2>4
    <3>2. previous'[i] = previous[i + n] /\ previous[i + n] < Newest
      BY <1>4, <2>4, <3>1 DEF Kept
    <3> QED
      BY <2>7, <3>2
  <2> QED
    BY <1>2, <1>3, <2>5, <2>6, <2>7, <2>8 DEF Kept, Finishing
<1> QED
  BY <1>5, <1>6

\* A step of one rank on its own.
LEMMA SaveRankStep ==
  ASSUME Inv, Resuming, NEW r \in Ranks, RankStep(r)
  PROVE  SaveInv' /\ TrackerResumable'
<1>1. CASE config.keep = 1
  BY <1>1 DEF RankStep, Rotate, Mkdir, OpenShard, WriteShard, OpenData, WriteData, SaveInv,
     TrackerResumable
<1>2. CASE config.keep # 1
  <2> USE Rank0
  <2>1. /\ Kept /\ Order /\ Written /\ TrackerResumable /\ config' = config
        /\ pc \in [Ranks -> Places] /\ step' = step /\ tracker' = tracker
        /\ step \in 0 .. TotalSteps /\ tracker \in 0 .. TotalSteps
    BY <1>2 DEF Inv, SaveInv, TypeInv, TypeOK, Places, RankStep, Rotate, Mkdir, OpenShard,
       WriteShard, OpenData, WriteData, local
  <2>2. pc[r] \in Rotating \cup Writing \cup Finishing
    BY DEF RankStep, Rotate, Mkdir, OpenShard, WriteShard, OpenData, WriteData, Rotating,
       Writing, Finishing
  <2>3. step \in Steps /\ step >= tracker
    <3>1. step \in Steps
      BY <2>2 DEF Inv, TypeInv, StepFits
    <3>2. pc[0] \in Rotating \cup Writing \cup Finishing
      BY <2>1, <2>2 DEF Inv, TypeInv, Together, Stage, Rotating, Writing, Finishing, Places
    <3> QED
      BY <2>1, <3>1, <3>2 DEF Order, Rotating, Writing, Finishing
  <2>4. CASE Rotate(r)
    <3>1. Kept'
      <4>1. CASE r = 0
        BY <1>2, <2>4, <4>1, OlderOnesGo DEF Rotate
      <4>2. CASE r # 0
        BY <2>1, <2>4, <4>2 DEF Rotate, Goto, Kept, Newest
      <4> QED
        BY <4>1, <4>2
    <3>2. Order' /\ Written'
      BY <2>1, <2>4 DEF Rotate, Goto, Order, Written, Rotating, Writing, Finishing, local
    <3> QED
      BY <2>1, <2>4, <3>1, <3>2 DEF Rotate, SaveInv, TrackerResumable, local
  <2>5. CASE Mkdir(r)
    <3>1. Kept' /\ Order' /\ Written'
      BY <2>1, <2>3, <2>5 DEF Mkdir, Goto, Kept, Newest, Order, Written, Rotating, Writing, Finishing
    <3> QED
      BY <2>1, <2>5, <3>1 DEF Mkdir, SaveInv, TrackerResumable
  <2>6. CASE OpenShard(r)
    <3>1. tracker < step
      BY <2>1, <2>6 DEF OpenShard, Inv, TypeInv, Together, Stage, Order, Rotating, Writing,
         Finishing, Places
    <3>2. \A s \in Steps, q \in Ranks :
            s # step \/ q # r => shards'[s][q] = shards[s][q]
      BY <2>6 DEF OpenShard, Inv, TypeInv, TypeOK
    <3>3. Kept' /\ Order' /\ Written'
      BY <2>1, <2>3, <2>6, <3>2 DEF OpenShard, Goto, Kept, Newest, Order, Written, Rotating,
         Writing, Finishing
    <3> QED
      BY <2>1, <2>6, <3>1, <3>2, <3>3 DEF OpenShard, SaveInv, TrackerResumable
  <2>7. CASE WriteShard(r)
    <3>1. tracker < step
      BY <2>1, <2>7 DEF WriteShard, Inv, TypeInv, Together, Stage, Order, Rotating, Writing,
         Finishing, Places
    <3>2. /\ shards'[step][r] = "whole"
          /\ \A s \in Steps, q \in Ranks :
            s # step \/ q # r => shards'[s][q] = shards[s][q]
      BY <2>3, <2>7 DEF WriteShard, Inv, TypeInv, TypeOK
    <3>3. Kept' /\ Order' /\ Written'
      BY <2>1, <2>3, <2>7, <3>2 DEF WriteShard, Goto, Kept, Newest, Order, Written, Rotating,
         Writing, Finishing
    <3> QED
      BY <2>1, <2>7, <3>1, <3>2, <3>3 DEF WriteShard, SaveInv, TrackerResumable
  <2>8. CASE OpenData(r)
    <3>1. Kept' /\ Order' /\ Written'
      BY <2>1, <2>3, <2>8 DEF OpenData, AfterShards, Resuming, Goto, Kept, Newest, Order, Written,
         Rotating, Writing, Finishing
    <3>2. CASE r # 0
      BY <2>1, <2>8, <3>1, <3>2 DEF OpenData, Resuming, SaveInv, TrackerResumable
    <3>3. CASE r = 0
      <4>1. tracker < step
        BY <2>1, <2>8, <3>3 DEF OpenData, Order
      <4>2. \A s \in Steps : s # step => data'[s] = data[s]
        BY <2>8 DEF OpenData, Inv, TypeInv, TypeOK
      <4> QED
        BY <2>1, <2>8, <3>1, <4>1, <4>2 DEF OpenData, SaveInv, TrackerResumable
    <3> QED
      BY <3>2, <3>3
  <2>9. CASE WriteData(r)
    <3>1. r = 0
      BY <2>1, <2>9 DEF WriteData, Written, Resuming
    <3>2. tracker < step
      BY <2>1, <2>9, <3>1 DEF WriteData, Order
    <3>3. data'[step][0] = "whole" /\ \A s \in Steps : s # step => data'[s] = data[s]
      BY <2>3, <2>9, <3>1 DEF WriteData, Inv, TypeInv, TypeOK
    <3>4. Kept' /\ Order' /\ Written'
      BY <2>1, <2>3, <2>9, <3>1, <3>3 DEF WriteData, Goto, Kept, Newest, Order, Written,
         Rotating, Writing, Finishing
    <3> QED
      BY <2>1, <2>9, <3>2, <3>3, <3>4 DEF WriteData, SaveInv, TrackerResumable
  <2> QED
    BY <2>4, <2>5, <2>6, <2>7, <2>8, <2>9 DEF RankStep
<1> QED
  BY <1>1, <1>2

\* A step of rank 0's alone.
LEMMA SaveRank0Step ==
  ASSUME Inv, Resuming, Rank0Step
  PROVE  SaveInv' /\ TrackerResumable'
<1>1. CASE config.keep = 1
  BY <1>1 DEF Rank0Step, WaitUploads, UploadsDone, DeleteFiles, DeleteFolder, RotationDone,
     WriteTracker, EnqueueStep, EnqueueTracker, SaveInv, TrackerResumable
<1>2. CASE config.keep # 1
  <2> USE Rank0
  <2>1. /\ Kept /\ Order /\ Written /\ TrackerResumable /\ config' = config
        /\ pc \in [Ranks -> Places] /\ step' = step /\ doomed \in Seq(Steps)
        /\ step \in 0 .. TotalSteps /\ tracker \in 0 .. TotalSteps
        /\ pc[0] \in Rotating \cup Finishing
    BY <1>2 DEF Inv, SaveInv, TypeInv, TypeOK, Places, Rank0Step, WaitUploads, UploadsDone,
       DeleteFiles, DeleteFolder, RotationDone, WriteTracker, EnqueueStep, EnqueueTracker,
       Rotating, Finishing
  <2>2. step \in Steps
    BY <2>1 DEF Inv, TypeInv, StepFits
  <2>3. CASE WaitUploads \/ UploadsDone \/ RotationDone
    <3>1. Kept' /\ Order' /\ Written'
      BY <2>1, <2>3 DEF WaitUploads, UploadsDone, RotationDone, Goto, Kept, Newest, Order,
         Written, Rotating, Writing, Finishing, local
    <3> QED
      BY <2>1, <2>3, <3>1 DEF WaitUploads, UploadsDone, RotationDone, SaveInv, TrackerResumable,
         local
  <2>4. ASSUME pc[0] \in {"delete", "rmdir"} PROVE Head(doomed) \in Steps /\ Head(doomed) < tracker
    <3>1. doomed # <<>>
      BY <2>4 DEF Inv, TypeInv, StepFits
    <3>2. 1 \in 1 .. Len(doomed) /\ Head(doomed) = doomed[1] /\ doomed[1] \in Steps
      BY <2>1, <3>1
    <3> QED
      BY <2>1, <3>2 DEF Kept
  <2>5. CASE DeleteFiles
    <3>1. Head(doomed) < tracker /\ tracker < step
      BY <2>1, <2>4, <2>5 DEF DeleteFiles, Order, Rotating
    <3>2. \A s \in Steps : s # Head(doomed) => shards'[s] = shards[s] /\ data'[s] = data[s]
      BY <2>4, <2>5 DEF DeleteFiles, Inv, TypeInv, TypeOK
    <3>3. \A r \in Ranks : pc[r] \notin {"b2"} \cup Finishing
      BY <2>1, <2>5 DEF DeleteFiles, Inv, TypeInv, Together, Stage, Rotating, Writing, Finishing,
         Places
    <3>4. Kept' /\ Order' /\ Written'
      <4>1. /\ pc' = [pc EXCEPT ![0] = "rmdir"] /\ pc[0] = "delete"
            /\ UNCHANGED <<previous, doomed, tracker, folders>>
        BY <2>5 DEF DeleteFiles, Goto
      <4>2. Kept' /\ Order'
        BY <2>1, <4>1 DEF Kept, Newest, Order, Rotating, Writing, Finishing
      <4>3. Written'
        BY <2>1, <3>3, <4>1 DEF Written, Rotating, Writing, Finishing
      <4> QED
        BY <4>2, <4>3
    <3>5. TrackerResumable'
      <4>1. tracker' = tracker /\ folders' = folders
        BY <2>5 DEF DeleteFiles
      <4>2. tracker # 0 => tracker \in Steps /\ tracker # Head(doomed)
        BY <2>1, <2>4, <2>5, <3>1 DEF DeleteFiles
      <4> QED
        BY <2>1, <3>2, <4>1, <4>2 DEF TrackerResumable
    <3> QED
      BY <2>1, <3>4, <3>5 DEF SaveInv
  <2>6. CASE DeleteFolder
    <3>1. Head(doomed) # tracker /\ Head(doomed) # step /\ tracker < step
      BY <2>1, <2>4, <2>6 DEF DeleteFolder, Order, Rotating
    <3>2. \A i \in 1 .. Len(doomed') : doomed'[i] < tracker
      <4>1. doomed # <<>> /\ doomed' = Tail(doomed)
        BY <2>6 DEF DeleteFolder, Inv, TypeInv, StepFits
      <4>2. \A i \in 1 .. Len(doomed') : i + 1 \in 1 .. Len(doomed) /\ doomed'[i] = doomed[i + 1]
        BY <2>1, <4>1
      <4> QED
        BY <2>1, <4>2 DEF Kept
    <3>3. Kept'
      BY <2>1, <2>6, <3>2 DEF DeleteFolder, Goto, Kept, Newest, Finishing
    <3>4. Order' /\ Written'
      <4>1. /\ pc' = [pc EXCEPT ![0] = "remove"] /\ pc[0] = "rmdir"
            /\ folders' = folders \ {Head(doomed)} /\ UNCHANGED <<shards, data, tracker>>
        BY <2>6 DEF DeleteFolder, Goto
      <4> QED
        BY <2>1, <3>1, <4>1 DEF Order, Written, Rotating, Writing, Finishing
    <3> QED
      BY <2>1, <2>6, <3>1, <3>3, <3>4 DEF DeleteFolder, SaveInv, TrackerResumable
  <2>7. CASE WriteTracker
    <3>1. /\ step \in folders /\ \A r \in Ranks : pc[r] \in Finishing
      BY <2>1, <2>7 DEF WriteTracker, Written, Inv, TypeInv, Together, Stage, Rotating, Writing,
         Finishing, Places
    <3>2. (\A r \in Ranks : shards[step][r] = "whole") /\ data[step][0] = "whole"
      BY <2>1, <2>7, <3>1 DEF WriteTracker, Written
    <3>3. Kept' /\ Order' /\ Written'
      BY <2>1, <2>2, <2>7, <3>2 DEF WriteTracker, Goto, Kept, Newest, Order, Written, Rotating,
         Writing, Finishing
    <3> QED
      BY <2>1, <2>7, <3>1, <3>2, <3>3 DEF WriteTracker, SaveInv, TrackerResumable, Resuming
  <2>8. CASE EnqueueStep \/ EnqueueTracker
    <3>1. Kept' /\ Order' /\ Written'
      BY <2>1, <2>8 DEF EnqueueStep, EnqueueTracker, Goto, Kept, Newest, Order, Written, Rotating,
         Writing, Finishing, local
    <3> QED
      BY <2>1, <2>8, <3>1 DEF EnqueueStep, EnqueueTracker, SaveInv, TrackerResumable, local
  <2> QED
    BY <2>3, <2>5, <2>6, <2>7, <2>8 DEF Rank0Step
<1> QED
  BY <1>1, <1>2

\* A step of all ranks at once.
LEMMA SaveCollective ==
  ASSUME Inv, Resuming, Collective \/ Exit
  PROVE  SaveInv' /\ TrackerResumable'
<1>1. CASE config.keep = 1
  BY <1>1 DEF Collective, Launch, TrainStep, Barrier1, Barrier2, Barrier3, Shutdown, Exit, SaveInv,
     TrackerResumable
<1>2. CASE config.keep # 1
  <2> USE Rank0 DEF Everyone, AllAt
  <2>1. /\ Kept /\ Order /\ Written /\ TrackerResumable /\ UNCHANGED <<local, doomed, config>>
        /\ pc \in [Ranks -> Places] /\ previous \in Seq(Steps)
        /\ step \in 0 .. TotalSteps /\ tracker \in 0 .. TotalSteps
    BY <1>2 DEF Inv, SaveInv, TypeInv, TypeOK, Places, Collective, Launch, TrainStep, Barrier1,
       Barrier2, Barrier3, Shutdown, Exit
  <2>2. TrackerResumable'
    BY <2>1 DEF TrackerResumable, local
  <2>3. CASE Launch
    <3>1. ResumeStep = tracker
      BY <1>2, <2>1 DEF ResumeStep, Resuming, TrackerResumable
    <3>2. /\ pc[0] = "down" /\ previous' = <<>>
          /\ \/ pc' = [r \in Ranks |-> "broken"]
             \/ step' = tracker /\ pc' = [r \in Ranks |-> "train"]
             \/ pc' = [r \in Ranks |-> "done"]
      BY <2>1, <2>3, <3>1 DEF Launch, Onward, Kept
    <3>3. Kept'
      BY <2>1, <3>2 DEF Kept, Finishing, local
    <3>4. Order' /\ Written'
      BY <2>1, <3>2 DEF Order, Written, Rotating, Writing, Finishing, local
    <3> QED
      BY <2>2, <3>3, <3>4 DEF SaveInv
  <2>4. CASE TrainStep
    <3>1. /\ pc[0] = "train" /\ step' = step + 1 /\ UNCHANGED previous
          /\ \/ pc' = [r \in Ranks |-> "rotate"]
             \/ pc' = [r \in Ranks |-> "train"]
      BY <2>4 DEF TrainStep
    <3>2. Kept'
      BY <2>1, <3>1 DEF Kept, Newest, Finishing, local
    <3>3. Order'
      BY <2>1, <3>1 DEF Order, Rotating, Writing, local
    <3>4. Written'
      BY <2>1, <3>1 DEF Written, Writing, Finishing, local
    <3> QED
      BY <2>2, <3>2, <3>3, <3>4 DEF SaveInv
  <2>5. CASE Barrier1
    <3>1. Kept' /\ Order' /\ Written'
      BY <2>1, <2>5 DEF Barrier1, Kept, Newest, Order, Written, Rotating, Writing, Finishing, local
    <3> QED
      BY <2>2, <3>1 DEF SaveInv
  <2>6. CASE Barrier2
    <3>1. /\ pc[0] = "b2" /\ pc' = [r \in Ranks |-> "data"] /\ previous' = Append(previous, step)
          /\ step' = step /\ step \in Steps
      BY <2>6 DEF Barrier2, Inv, TypeInv, StepFits, Writing
    <3>2. /\ previous' # <<>> /\ Len(previous') = Len(previous) + 1 /\ Newest' = step
          /\ \A i \in 1 .. Len(previous) : previous'[i] = previous[i]
      BY <2>1, <3>1 DEF Newest
    <3>3. ASSUME NEW i \in 1 .. Len(previous) PROVE previous[i] < step
      <4>1. Newest = tracker /\ tracker < step
        BY <2>1, <3>1, <3>3 DEF Kept, Order, Writing, Finishing
      <4>2. CASE i = Len(previous)
        BY <4>1, <4>2 DEF Newest
      <4>3. CASE i # Len(previous)
        <5>1. i \in 1 .. Len(previous) - 1 /\ previous[i] \in Steps
          BY <2>1, <3>3, <4>3
        <5> QED
          BY <2>1, <4>1, <5>1 DEF Kept
      <4> QED
        BY <4>2, <4>3
    <3>4. Kept'
      BY <2>1, <3>1, <3>2, <3>3 DEF Kept, Finishing
    <3>5. Order' /\ Written'
      BY <2>1, <2>6, <3>1 DEF Barrier2, Order, Written, Rotating, Writing, Finishing, local
    <3> QED
      BY <2>2, <3>4, <3>5 DEF SaveInv
  <2>7. CASE Barrier3
    <3>1. /\ pc[0] = "b3" /\ step' = step /\ UNCHANGED previous
          /\ \/ pc' = [r \in Ranks |-> "train"]
             \/ pc' = [r \in Ranks |-> "done"]
      BY <2>7 DEF Barrier3, Onward
    <3>2. Kept' /\ Order' /\ Written'
      BY <2>1, <3>1 DEF Kept, Newest, Order, Written, Rotating, Writing, Finishing, local
    <3> QED
      BY <2>2, <3>2 DEF SaveInv
  <2>8. CASE Shutdown \/ Exit
    <3>1. /\ pc[0] \in {"done", "final"} /\ step' = step /\ UNCHANGED previous
          /\ \/ pc' = [r \in Ranks |-> "final"]
             \/ pc' = [r \in Ranks |-> "exit"]
      BY <2>8 DEF Shutdown, Exit
    <3>2. Kept' /\ Order' /\ Written'
      BY <2>1, <3>1 DEF Kept, Newest, Order, Written, Rotating, Writing, Finishing, local
    <3> QED
      BY <2>2, <3>2 DEF SaveInv
  <2> QED
    BY <2>3, <2>4, <2>5, <2>6, <2>7, <2>8 DEF Collective
<1> QED
  BY <1>1, <1>2

\* A crash leaves the disk as it is, and an upload only reads it.
LEMMA SaveOthers ==
  ASSUME Inv, \/ Crash
              \/ \E id \in Uploader!Tasks : Upload(id)
              \/ UNCHANGED vars
  PROVE  SaveInv' /\ TrackerResumable'
<1>1. CASE Crash
  <2>1. /\ pc' = [r \in Ranks |-> "down"] /\ previous' = <<>> /\ doomed' = <<>>
        /\ UNCHANGED <<local, config>>
    BY <1>1 DEF Crash, AllAt
  <2>2. Kept' /\ Order' /\ Written'
    BY <2>1, Rank0 DEF Kept, Order, Written, Rotating, Writing, Finishing
  <2> QED
    BY <2>1, <2>2 DEF Inv, SaveInv, TrackerResumable, local
<1>2. CASE UNCHANGED <<pc, step, previous, doomed, local, config>>
  BY <1>2 DEF Inv, SaveInv, TrackerResumable, Kept, Newest, Order, Written, local
<1>3. UNCHANGED vars => UNCHANGED <<pc, step, previous, doomed, local, config>>
  BY DEF vars
<1>4. (\E id \in Uploader!Tasks : Upload(id)) =>
        UNCHANGED <<pc, step, previous, doomed, local, config>>
  BY DEF Upload, Settles, UploadOk, UploadFails, PutBreaks
<1> QED
  BY <1>1, <1>2, <1>3, <1>4

LEMMA InvStep ==
  ASSUME Resuming, Inv, [Next]_vars
  PROVE  Inv'
<1>1. TypeInv'
  BY TypeStep DEF Inv
<1>2. SaveInv' /\ TrackerResumable'
  BY SaveRankStep, SaveRank0Step, SaveCollective, SaveOthers DEF Next
<1> QED
  BY <1>1, <1>2 DEF Inv

\* Whenever the job dies, what the tracker names can be loaded by every rank, for
\* every number of ranks, steps, saves kept but one, crashes and uploads: where
\* the job resumes from its last checkpoint and has one dataloader.
THEOREM Resumable ==
  ASSUME Resuming
  PROVE  Spec => []TrackerResumable
<1>1. Init => Inv
  BY TypeInit, SaveInit DEF Inv
<1>2. Inv /\ [Next]_vars => Inv'
  BY InvStep
<1>3. Inv => TrackerResumable
  BY DEF Inv
<1> QED
  BY <1>1, <1>2, <1>3, PTL DEF Spec

-----------------------------------------------------------------------------
(* A restarted job goes on from the last save.                             *)

\* The tracker is at a step that is saved, and training is within an interval of it.
Interval ==
  /\ tracker % SaveFreq = 0 \/ tracker = TotalSteps
  /\ pc[0] = "train" => step - tracker < SaveFreq
  /\ \A r \in Ranks : pc[r] \in Rotating \cup Writing \cup Finishing => SaveNow(step)

JobInv == Inv /\ (config.keep # 1 => Interval)

LEMMA Multiples ==
  ASSUME NEW a \in Nat, NEW n \in Nat \ {0}, a % n = 0
  PROVE  (a + n) % n = 0
<1>1. PICK k \in Nat : a = k * n
  <2>1. a = n * (a \div n) + (a % n) /\ a \div n \in Nat
    BY SMT
  <2>2. a = (a \div n) * n
    BY <2>1, SMT
  <2> QED
    BY <2>1, <2>2
<1>2. a + n = (k + 1) * n /\ k + 1 \in Nat /\ a + n \in Nat
  BY <1>1
<1>3. \A b \in Nat, j \in Nat : b = j * n => b % n = 0
  BY SMT
<1> QED
  BY <1>2, <1>3

\* The job runs, before and after the step.
Running == pc[0] # "down" /\ pc'[0] # "down"

LEMMA IntervalRankStep ==
  ASSUME JobInv, config.keep # 1, (\E r \in Ranks : RankStep(r)) \/ Rank0Step
  PROVE  Interval' /\ Running /\ UNCHANGED step /\ (tracker' = tracker \/ tracker' = step)
<1> USE Rank0
<1>1. /\ pc \in [Ranks -> Places] /\ step \in 0 .. TotalSteps /\ tracker \in 0 .. TotalSteps
      /\ Interval /\ Kept
  BY DEF JobInv, Inv, SaveInv, TypeInv, TypeOK, Places
<1>2. PICK r \in Ranks, where \in Rotating \cup Writing \cup Finishing :
        /\ pc[r] \in Rotating \cup Writing \cup Finishing
        /\ pc' = [pc EXCEPT ![r] = where]
        /\ UNCHANGED step /\ (tracker' = tracker \/ tracker' = step)
  <2>1. CASE \E r \in Ranks : RankStep(r)
    BY <2>1 DEF RankStep, Rotate, Mkdir, OpenShard, WriteShard, OpenData, WriteData, AfterShards,
       Goto, Rotating, Writing, Finishing, local
  <2>2. CASE Rank0Step
    BY <2>2 DEF Rank0Step, WaitUploads, UploadsDone, DeleteFiles, DeleteFolder, RotationDone,
       WriteTracker, EnqueueStep, EnqueueTracker, Goto, Rotating, Writing, Finishing, local
  <2> QED
    BY <2>1, <2>2
<1>3. SaveNow(step) /\ SaveNow(step)'
  BY <1>1, <1>2 DEF Interval, SaveNow
<1>4. pc[0] \in Rotating \cup Writing \cup Finishing
  BY <1>1, <1>2 DEF JobInv, Inv, TypeInv, Together, Stage, Rotating, Writing, Finishing, Places
<1>5. Running
  BY <1>1, <1>2, <1>4 DEF Running, Rotating, Writing, Finishing
<1>6. Interval'
  BY <1>1, <1>2, <1>3, <1>4 DEF Interval, SaveNow, Rotating, Writing, Finishing
<1> QED
  BY <1>2, <1>5, <1>6

\* Steps of the abstract job.
LEMMA JobSteps ==
  ASSUME JobInv, Resuming, config.keep # 1, Next
  PROVE  Interval' /\ (Job!Next \/ UNCHANGED Job!jvars)
<1> USE Rank0 DEF Everyone, AllAt
<1>1. /\ pc \in [Ranks -> Places] /\ step \in 0 .. TotalSteps /\ tracker \in 0 .. TotalSteps
      /\ Interval /\ Order /\ Kept /\ TrackerResumable
  BY DEF JobInv, Inv, SaveInv, TypeInv, TypeOK, Places
<1>2. CASE (\E r \in Ranks : RankStep(r)) \/ Rank0Step
  BY <1>2, IntervalRankStep DEF Running, Job!Next, Job!Save, Job!jvars
<1>3. CASE Launch
  <2>1. ResumeStep = tracker /\ tracker' = tracker
    BY <1>1, <1>3 DEF Launch, ResumeStep, Resuming, TrackerResumable, local
  <2>2. /\ Everyone("down")
        /\ \/ pc' = [r \in Ranks |-> "train"]
           \/ pc' = [r \in Ranks |-> "done"]
        /\ step' = tracker
    BY <1>1, <1>3, <2>1 DEF Launch, Onward, Resuming, TrackerResumable
  <2>3. Interval'
    BY <1>1, <2>1, <2>2 DEF Interval, Rotating, Writing, Finishing
  <2> QED
    BY <2>1, <2>2, <2>3 DEF Job!Next, Job!Restart
<1>4. CASE TrainStep
  <2>1. /\ pc[0] = "train" /\ step' = step + 1 /\ tracker' = tracker /\ step < TotalSteps
        /\ pc' = [r \in Ranks |-> IF SaveNow(step + 1) THEN "rotate" ELSE "train"]
    BY <1>4 DEF TrainStep, local, JobInv, Inv, TypeInv, StepFits
  <2>2. step - tracker < SaveFreq /\ tracker <= step
    BY <1>1, <2>1 DEF Interval, Order
  <2>3. ~SaveNow(step + 1) => step + 1 - tracker < SaveFreq
    <3>1. SUFFICES ASSUME step + 1 = tracker + SaveFreq PROVE SaveNow(step + 1)
      BY <1>1, <2>2
    <3>2. tracker % SaveFreq = 0
      BY <1>1, <2>1, <2>2 DEF Interval
    <3> QED
      BY <1>1, <3>1, <3>2, Multiples DEF SaveNow
  <2>4. Interval'
    <3>1. CASE SaveNow(step + 1)
      BY <1>1, <2>1, <3>1 DEF Interval, SaveNow
    <3>2. CASE ~SaveNow(step + 1)
      BY <1>1, <2>1, <2>3, <3>2 DEF Interval, Rotating, Writing, Finishing
    <3> QED
      BY <3>1, <3>2
  <2> QED
    BY <2>1, <2>2, <2>4 DEF Job!Next, Job!Train
<1>5. CASE Crash
  <2>1. /\ pc' = [r \in Ranks |-> "down"] /\ UNCHANGED <<step, tracker>> /\ ~Everyone("down")
    BY <1>5 DEF Crash, local
  <2>2. Interval'
    BY <1>1, <2>1 DEF Interval, Rotating, Writing, Finishing
  <2> QED
    BY <2>1, <2>2 DEF Job!Next, Job!Die
<1>6. CASE Barrier1 \/ Barrier2
  <2>1. /\ pc[0] \in {"b1", "b2"} /\ UNCHANGED <<step, tracker>>
        /\ \/ pc' = [r \in Ranks |-> "shard"]
           \/ pc' = [r \in Ranks |-> "data"]
    BY <1>6 DEF Barrier1, Barrier2, local
  <2>2. Interval' 
    BY <1>1, <2>1 DEF Interval, SaveNow, Rotating, Writing, Finishing
  <2> QED
    BY <2>1, <2>2 DEF Job!jvars
<1>7. CASE Barrier3
  <2>1. /\ pc[0] = "b3" /\ UNCHANGED <<step, tracker>>
        /\ \/ pc' = [r \in Ranks |-> "train"]
           \/ pc' = [r \in Ranks |-> "done"]
    BY <1>7 DEF Barrier3, Onward, local
  <2>2. tracker = step
    BY <1>1, <2>1 DEF Order
  <2>3. Interval'
    BY <1>1, <2>1, <2>2 DEF Interval, Rotating, Writing, Finishing
  <2> QED
    BY <2>1, <2>3 DEF Job!jvars
<1>8. CASE Shutdown \/ Exit
  <2>1. /\ pc[0] \in {"done", "final"} /\ UNCHANGED <<step, tracker>>
        /\ \/ pc' = [r \in Ranks |-> "final"]
           \/ pc' = [r \in Ranks |-> "exit"]
    BY <1>8 DEF Shutdown, Exit, local
  <2>2. Interval'
    BY <1>1, <2>1 DEF Interval, Rotating, Writing, Finishing
  <2> QED
    BY <2>1, <2>2 DEF Job!jvars
<1>9. CASE \E id \in Uploader!Tasks : Upload(id)
  <2>1. UNCHANGED <<pc, step, tracker>>
    BY <1>9 DEF Upload, Settles, UploadOk, UploadFails, PutBreaks, local
  <2>2. Interval'
    BY <1>1, <2>1 DEF Interval, SaveNow
  <2> QED
    BY <2>1, <2>2 DEF Job!jvars
<1> QED
  BY <1>2, <1>3, <1>4, <1>5, <1>6, <1>7, <1>8, <1>9 DEF Next, Collective

\* The detailed job implements ResumableTraining: after any number of crashes it goes
\* on from the step saved last, and never has to repeat more than one interval.
THEOREM GoesOnFromLastSave ==
  ASSUME Resuming
  PROVE  Spec => ResumesFromLastSave
<1>1. Init => JobInv /\ Job!Init
  <2>1. ASSUME Init PROVE JobInv /\ Job!Init
    <3>1. pc = [r \in Ranks |-> "down"] /\ step = 0 /\ tracker = 0
      BY <2>1 DEF Init, AllAt
    <3>2. 0 % SaveFreq = 0
      BY SMT
    <3>3. Interval
      BY <3>1, <3>2, Rank0 DEF Interval, Rotating, Writing, Finishing
    <3> QED
      BY <2>1, <3>1, <3>3, TypeInit, SaveInit DEF JobInv, Inv, Job!Init, Everyone
  <2> QED
    BY <2>1
<1>2. JobInv /\ [Next]_vars =>
        JobInv' /\ [config.keep # 1 => Job!Next]_(Job!jvars)
  <2>1. ASSUME JobInv, [Next]_vars PROVE JobInv' /\ [config.keep # 1 => Job!Next]_(Job!jvars)
    <3>1. Inv' /\ config' = config
      BY <2>1, ConfigStays, InvStep DEF JobInv
    <3>2. CASE Next /\ config.keep # 1
      BY <2>1, <3>1, <3>2, JobSteps DEF JobInv
    <3>3. CASE config.keep = 1
      BY <3>1, <3>3 DEF JobInv
    <3>4. CASE UNCHANGED vars
      BY <2>1, <3>1, <3>4 DEF vars, local, JobInv, Interval, SaveNow, Job!jvars, Everyone
    <3> QED
      BY <2>1, <3>2, <3>3, <3>4
  <2> QED
    BY <2>1
<1> QED
  BY <1>1, <1>2, PTL DEF Spec, ResumesFromLastSave

-----------------------------------------------------------------------------
(* Uploads of whole directories.                                           *)

\* The files of the step that is being saved are written as the ranks go.
Saved ==
  /\ \A r \in Ranks : pc[r] = "data_open" => r \in Writers
  /\ \A r \in Ranks : pc[r] \in {"b2"} \cup Finishing => shards[step][r] = "whole"
  /\ pc[0] \in {"tracker", "enqueue", "enqueue2", "b3"} => data[step][0] = "whole"

\* A task that has not been settled copies the directory of step s.
Queued(id, s) == status[id] = "pending" /\ path[id] = Folder(s)

\* What is queued was saved in full by this incarnation, before the step that is
\* being saved, and is not what rank 0 deletes.
Uploading ==
  /\ pc[0] # "enqueue2"
  /\ \A id \in Uploader!Tasks : status[id] = "pending" => \E s \in Steps : path[id] = Folder(s)
  /\ \A id \in Uploader!Tasks, s \in Steps : Queued(id, s) =>
       /\ pc[0] \notin {"down", "broken"}
       /\ s <= step
       /\ pc[0] \in Rotating \cup Writing \cup {"data", "data_open", "tracker", "enqueue"} => s < step
       /\ pc[0] \in {"delete", "rmdir"} => s # Head(doomed)
       /\ \A r \in Ranks : shards[s][r] = "whole"
       /\ data[s][0] = "whole"
  /\ pc[0] = "wait" => waiting[0] = <<AbsFolder(Head(doomed)), FALSE>>

UploadInv == TypeInv /\ Saved /\ (config.uploads = "folder" => Uploading)

\* The step of the property: no file that a queued upload reads changes.
Undisturbed ==
  config.uploads = "folder" => \A s \in Steps : Reading(s) =>
    shards'[s] = shards[s] /\ data'[s] = data[s] /\ (s \in folders => s \in folders')

\* A job with one dataloader and an absolute directory, which waits for the uploads
\* of a directory by the path it enqueued them with.
Awaiting == Writers = {0} /\ ~RelativeDir

LEMMA FoldersDiffer ==
  ASSUME NEW s \in Steps, NEW t \in Steps
  PROVE  /\ Folder(s) = Folder(t) => s = t
         /\ Folder(s)[2] = s /\ Folder(s) # TrackerFile
         /\ ~RelativeDir => Folder(s) = AbsFolder(s)
BY DEF Folder, AbsFolder, TrackerFile

\* Where the queue holds directories only, what reads from a directory is a task for it.
LEMMA ReadingIsQueued ==
  ASSUME Uploading, NEW s \in Steps, Reading(s)
  PROVE  \E id \in Uploader!Tasks : Queued(id, s)
<1>1. PICK id \in Uploader!Tasks : status[id] = "pending" /\ Inside(path[id], s)
  BY DEF Reading
<1>2. PICK t \in Steps : path[id] = Folder(t)
  BY <1>1 DEF Uploading
<1>3. t = s
  BY <1>1, <1>2, FoldersDiffer DEF Inside
<1> QED
  BY <1>1, <1>2, <1>3 DEF Queued

\* A step that leaves the queue as it is, and the files of every directory in it.
LEMMA QueueStays ==
  ASSUME UploadInv, config.uploads = "folder", UNCHANGED <<config, status, path>>,
         \A id \in Uploader!Tasks, s \in Steps : Queued(id, s) =>
           /\ shards'[s] = shards[s] /\ data'[s] = data[s]
           /\ s \in folders => s \in folders'
           /\ s <= step'
           /\ pc'[0] \notin {"down", "broken"}
           /\ pc'[0] \in Rotating \cup Writing \cup {"data", "data_open", "tracker", "enqueue"} =>
                s < step'
           /\ pc'[0] \in {"delete", "rmdir"} => s # Head(doomed)',
         pc'[0] # "enqueue2", pc'[0] # "wait"
  PROVE  Uploading' /\ Undisturbed
<1>1. Uploading /\ status' = status /\ path' = path
  BY DEF UploadInv
<1>2. \A id \in Uploader!Tasks, s \in Steps : Queued(id, s)' <=> Queued(id, s)
  BY <1>1 DEF Queued, Folder
<1>3. ASSUME NEW id \in Uploader!Tasks, status'[id] = "pending"
      PROVE  \E s \in Steps : path'[id] = Folder(s)
  BY <1>1, <1>3 DEF Uploading
<1>4. ASSUME NEW id \in Uploader!Tasks, NEW s \in Steps, Queued(id, s)
      PROVE  (\A r \in Ranks : shards'[s][r] = "whole") /\ data'[s][0] = "whole"
  BY <1>1, <1>4 DEF Uploading
<1>5. Uploading'
  BY <1>2, <1>3, <1>4 DEF Uploading, Folder
<1>6. Undisturbed
  BY <1>1, ReadingIsQueued DEF Undisturbed
<1> QED
  BY <1>5, <1>6

\* A step of one rank on its own.
LEMMA UploadRankStep ==
  ASSUME UploadInv, Awaiting, NEW r \in Ranks, RankStep(r)
  PROVE  Saved' /\ (config.uploads = "folder" => Uploading') /\ Undisturbed
<1> USE Rank0
<1>1. /\ Saved /\ pc \in [Ranks -> Places] /\ Together /\ step' = step
      /\ UNCHANGED <<config, service>>
      /\ shards \in [Steps -> [Ranks -> FileState]] /\ data \in [Steps -> [Writers -> FileState]]
  BY DEF UploadInv, TypeInv, TypeOK, Places, RankStep, Rotate, Mkdir, OpenShard, WriteShard,
     OpenData, WriteData
<1>2. PICK where \in Rotating \cup Writing \cup Finishing :
        /\ pc[r] \in Rotating \cup Writing \cup Finishing
        /\ pc' = [pc EXCEPT ![r] = where]
        /\ where \notin {"enqueue", "enqueue2", "wait", "delete", "rmdir"}
        /\ pc[r] \in Rotating \cup Writing => where \in Rotating \cup Writing
        /\ where \in Rotating \cup Writing => pc[r] \in Rotating \cup Writing
        /\ where \in {"data_open", "tracker"} => pc[r] \in {"data", "data_open"}
        /\ UNCHANGED doomed \/ r = 0
  BY DEF RankStep, Rotate, Mkdir, OpenShard, WriteShard, OpenData, WriteData, AfterShards,
     Goto, Rotating, Writing, Finishing
<1>3. step \in Steps
  BY <1>1, <1>2 DEF UploadInv, TypeInv, StepFits
<1>4. \A s \in Steps : s # step => shards'[s] = shards[s] /\ data'[s] = data[s]
  BY <1>1 DEF RankStep, Rotate, Mkdir, OpenShard, WriteShard, OpenData, WriteData, local
<1>5. folders \subseteq folders'
  BY DEF RankStep, Rotate, Mkdir, OpenShard, WriteShard, OpenData, WriteData, local
<1>6. \/ pc[0] \in Rotating \cup Writing \cup {"data", "data_open", "tracker", "enqueue"}
      \/ shards' = shards /\ data' = data
  <2>1. CASE OpenShard(r) \/ WriteShard(r)
    <3>1. pc[r] \in Writing
      BY <2>1 DEF OpenShard, WriteShard, Writing
    <3> QED
      BY <1>1, <3>1 DEF Together, Stage, Rotating, Writing, Finishing, Places
  <2>2. CASE OpenData(r) \/ WriteData(r)
    <3>1. CASE r \in Writers
      BY <2>2, <3>1 DEF OpenData, WriteData, Awaiting
    <3>2. CASE r \notin Writers
      BY <1>1, <2>2, <3>2 DEF OpenData, WriteData, Saved
    <3> QED
      BY <3>1, <3>2
  <2> QED
    BY <2>1, <2>2 DEF RankStep, Rotate, Mkdir, local
<1>7. Saved'
  <2>1. CASE Rotate(r) \/ Mkdir(r)
    BY <1>1, <1>2, <2>1 DEF Rotate, Mkdir, Goto, Saved, Rotating, Writing, Finishing, local
  <2>2. CASE OpenShard(r) \/ WriteShard(r)
    <3>1. /\ \A q \in Ranks : q # r => shards'[step][q] = shards[step][q]
          /\ WriteShard(r) => shards'[step][r] = "whole"
          /\ data' = data
      BY <1>1, <1>3, <2>2 DEF OpenShard, WriteShard
    <3> QED
      BY <1>1, <1>2, <2>2, <3>1 DEF OpenShard, WriteShard, Goto, Saved, Rotating, Writing, Finishing
  <2>3. CASE OpenData(r)
    BY <1>1, <1>3, <2>3 DEF OpenData, AfterShards, Awaiting, Goto, Saved, Rotating, Writing, Finishing
  <2>4. CASE WriteData(r)
    <3>1. r = 0 /\ data'[step][0] = "whole" /\ shards' = shards
      BY <1>1, <1>3, <2>4 DEF WriteData, Awaiting, Saved
    <3> QED
      BY <1>1, <1>2, <2>4, <3>1 DEF WriteData, Goto, Saved, Rotating, Writing, Finishing
  <2> QED
    BY <2>1, <2>2, <2>3, <2>4 DEF RankStep
<1>8. ASSUME config.uploads = "folder" PROVE Uploading' /\ Undisturbed
  <2>1. Uploading
    BY <1>8 DEF UploadInv
  <2>2. CASE pc'[0] # "wait"
    <3>1. ASSUME NEW s \in Steps, NEW id \in Uploader!Tasks, Queued(id, s)
          PROVE  /\ shards'[s] = shards[s] /\ data'[s] = data[s]
                 /\ s \in folders => s \in folders'
                 /\ s <= step'
                 /\ pc'[0] \notin {"down", "broken"}
                 /\ pc'[0] \in Rotating \cup Writing \cup {"data", "data_open", "tracker", "enqueue"} =>
                      s < step'
                 /\ pc'[0] \in {"delete", "rmdir"} => s # Head(doomed)'
      <4>1. /\ s <= step /\ pc[0] \notin {"down", "broken"}
            /\ pc[0] \in Rotating \cup Writing \cup {"data", "data_open", "tracker", "enqueue"} =>
                 s < step
            /\ pc[0] \in {"delete", "rmdir"} => s # Head(doomed)
        BY <2>1, <3>1 DEF Uploading
      <4>2. shards'[s] = shards[s] /\ data'[s] = data[s] /\ (s \in folders => s \in folders')
        BY <1>4, <1>5, <1>6, <4>1
      <4>3. CASE r # 0
        <5>1. pc'[0] = pc[0] /\ doomed' = doomed
          BY <1>1, <1>2, <4>3
        <5> QED
          BY <1>1, <4>1, <4>2, <5>1
      <4>4. CASE r = 0
        <5>1. pc'[0] = where
          BY <1>1, <1>2, <4>4
        <5>2. where \in Rotating \cup Writing \cup {"data", "data_open", "tracker", "enqueue"} =>
                pc[0] \in Rotating \cup Writing \cup {"data", "data_open", "tracker", "enqueue"}
          BY <1>2, <4>4 DEF Rotating, Writing, Finishing, RankStep, Rotate, Mkdir, OpenShard,
             WriteShard, OpenData, WriteData, Goto
        <5> QED
          BY <1>1, <1>2, <4>1, <4>2, <5>1, <5>2 DEF Rotating, Writing, Finishing
      <4> QED
        BY <4>3, <4>4
    <3>2. pc'[0] # "enqueue2"
      BY <1>1, <1>2, <2>1 DEF Uploading
    <3> QED
      BY <1>1, <1>8, <2>2, <3>1, <3>2, QueueStays DEF service
  <2>3. CASE pc'[0] = "wait"
    <3>1. r # 0 /\ pc[0] = "wait" /\ UNCHANGED doomed
      BY <1>1, <1>2, <2>3
    <3>2. UNCHANGED <<status, path, waiting>>
      BY <1>1 DEF service
    <3>3. ASSUME NEW s \in Steps, NEW id \in Uploader!Tasks, Queued(id, s)
          PROVE  /\ shards'[s] = shards[s] /\ data'[s] = data[s] /\ s < step
                 /\ s \in folders => s \in folders'
      BY <1>4, <1>5, <2>1, <3>1, <3>3 DEF Uploading, Rotating
    <3>4. \A id \in Uploader!Tasks, s \in Steps : Queued(id, s)' => Queued(id, s)
      BY <3>2 DEF Queued, Folder
    <3>5. \A id \in Uploader!Tasks : status'[id] = "pending" => \E s \in Steps : path'[id] = Folder(s)
      BY <2>1, <3>2 DEF Uploading
    <3>6. Uploading'
      <4>1. waiting'[0] = <<AbsFolder(Head(doomed')), FALSE>>
        BY <2>1, <3>1, <3>2 DEF Uploading
      <4>2. ASSUME NEW id \in Uploader!Tasks, NEW s \in Steps, Queued(id, s)'
            PROVE  /\ s < step' /\ s <= step'
                   /\ (\A q \in Ranks : shards'[s][q] = "whole") /\ data'[s][0] = "whole"
        <5>1. Queued(id, s)
          BY <3>2, <4>2 DEF Queued, Folder
        <5>2. (\A q \in Ranks : shards[s][q] = "whole") /\ data[s][0] = "whole"
          BY <2>1, <5>1 DEF Uploading
        <5>3. shards'[s] = shards[s] /\ data'[s] = data[s] /\ step' = step /\ s < step
          BY <1>1, <3>3, <5>1
        <5>4. step \in Int /\ s \in Int
          BY <1>3
        <5>5. (\A q \in Ranks : shards'[s][q] = "whole") /\ data'[s][0] = "whole"
          BY <5>2, <5>3
        <5> QED
          BY <5>3, <5>4, <5>5
      <4> QED
        BY <2>3, <3>5, <4>1, <4>2 DEF Uploading, Folder, AbsFolder
    <3> QED
      BY <2>1, <3>3, <3>6, ReadingIsQueued DEF Undisturbed
  <2> QED
    BY <2>2, <2>3
<1> QED
  BY <1>7, <1>8 DEF Undisturbed

\* A step of rank 0's alone.
LEMMA UploadRank0Step ==
  ASSUME UploadInv, Awaiting, Rank0Step
  PROVE  Saved' /\ (config.uploads = "folder" => Uploading') /\ Undisturbed
<1> USE Rank0
<1>1. /\ Saved /\ Together /\ pc \in [Ranks -> Places] /\ doomed \in Seq(Steps)
      /\ shards \in [Steps -> [Ranks -> FileState]] /\ data \in [Steps -> [Writers -> FileState]]
      /\ step' = step /\ config' = config
  BY DEF UploadInv, TypeInv, TypeOK, Places, Rank0Step, WaitUploads, UploadsDone, DeleteFiles,
     DeleteFolder, RotationDone, WriteTracker, EnqueueStep, EnqueueTracker
<1>2. PICK where \in Rotating \cup Finishing :
        /\ pc[0] \in Rotating \cup Finishing /\ pc' = [pc EXCEPT ![0] = where]
        /\ pc[0] \in Rotating <=> where \in Rotating
        /\ where \notin {"data", "data_open", "tracker"}
        /\ pc[0] \in Finishing => pc[0] \in {"tracker", "enqueue", "enqueue2"}
  BY DEF Rank0Step, WaitUploads, UploadsDone, DeleteFiles, DeleteFolder, RotationDone,
     WriteTracker, EnqueueStep, EnqueueTracker, Goto, Rotating, Finishing
<1>3. step \in Steps
  BY <1>2 DEF UploadInv, TypeInv, StepFits
<1>4. Saved'
  <2>1. CASE DeleteFiles
    <3>1. pc[0] = "delete" /\ where = "rmdir"
      BY <1>1, <1>2, <2>1 DEF DeleteFiles, Goto
    <3>2. \A r \in Ranks : pc[r] \in Rotating
      BY <1>1, <3>1 DEF Together, Stage, Rotating, Writing, Finishing, Places
    <3> QED
      BY <1>1, <1>2, <3>1, <3>2 DEF Saved, Rotating, Writing, Finishing
  <2>2. CASE ~DeleteFiles
    <3>1. shards' = shards /\ data' = data
      BY <2>2 DEF Rank0Step, WaitUploads, UploadsDone, DeleteFolder, RotationDone, WriteTracker,
         EnqueueStep, EnqueueTracker, local
    <3> QED
      BY <1>1, <1>2, <3>1 DEF Saved, Rotating, Finishing
  <2> QED
    BY <2>1, <2>2
<1>5. ASSUME config.uploads = "folder" PROVE Uploading' /\ Undisturbed
  <2>1. Uploading
    BY <1>5 DEF UploadInv
  <2>2. ASSUME pc[0] \in {"wait", "delete", "rmdir"}
        PROVE  doomed # <<>> /\ Head(doomed) \in Steps
    BY <1>1, <2>2, DoomedTypes DEF UploadInv, TypeInv, StepFits
  <2>3. CASE WaitUploads
    <3>1. /\ pc[0] = "remove" /\ pc'[0] = "wait"
          /\ UNCHANGED <<status, path, doomed, shards, data, folders>>
          /\ waiting' = [waiting EXCEPT ![0] = <<AbsFolder(Head(doomed)), FALSE>>]
      BY <1>1, <2>3 DEF WaitUploads, Goto, local, Uploader!Wait
    <3>2. waiting'[0] = <<AbsFolder(Head(doomed')), FALSE>>
      BY <3>1 DEF UploadInv, TypeInv, TypeOK
    <3>3. \A id \in Uploader!Tasks : status'[id] = "pending" => \E s \in Steps : path'[id] = Folder(s)
      BY <2>1, <3>1 DEF Uploading
    <3>4. \A id \in Uploader!Tasks, s \in Steps : Queued(id, s)' => Queued(id, s)
      BY <3>1 DEF Queued, Folder
    <3>5. \A id \in Uploader!Tasks, s \in Steps : Queued(id, s)' =>
            /\ s < step' /\ s <= step'
            /\ (\A q \in Ranks : shards'[s][q] = "whole") /\ data'[s][0] = "whole"
      BY <1>1, <2>1, <3>1, <3>4 DEF Uploading, Rotating
    <3> QED
      BY <3>1, <3>2, <3>3, <3>5 DEF Uploading, Folder, AbsFolder, Undisturbed
  <2>4. CASE UploadsDone
    <3>1. /\ pc[0] = "wait" /\ pc'[0] = "delete"
          /\ UNCHANGED <<status, path, doomed, shards, data, folders>>
          /\ Uploader!Drained(waiting[0][1])
      BY <1>1, <2>4 DEF UploadsDone, Goto, local, Uploader!Return
    <3>2. waiting[0][1] = AbsFolder(Head(doomed))
      BY <2>1, <3>1 DEF Uploading
    <3>3. ASSUME NEW id \in Uploader!Tasks, NEW s \in Steps, Queued(id, s)
          PROVE  s # Head(doomed) /\ s < step
      <4>1. s < step
        BY <2>1, <3>1, <3>3 DEF Uploading, Rotating
      <4>2. path[id] = AbsFolder(s) /\ status[id] = "pending"
        BY <3>3, FoldersDiffer DEF Awaiting, Queued
      <4>3. s # Head(doomed)
        BY <3>1, <3>2, <4>2 DEF Uploader!Drained
      <4> QED
        BY <4>1, <4>3
    <3> QED
      BY <1>1, <1>3, <1>5, <3>1, <3>3, QueueStays DEF Rotating, Writing
  <2>5. CASE DeleteFiles
    <3>1. /\ pc[0] = "delete" /\ pc'[0] = "rmdir" /\ UNCHANGED <<status, path, doomed, folders>>
          /\ \A s \in Steps : s # Head(doomed) => shards'[s] = shards[s] /\ data'[s] = data[s]
      BY <1>1, <2>5 DEF DeleteFiles, Goto, service
    <3>2. ASSUME NEW id \in Uploader!Tasks, NEW s \in Steps, Queued(id, s)
          PROVE  /\ s # Head(doomed)' /\ s < step' /\ s <= step'
                 /\ shards'[s] = shards[s] /\ data'[s] = data[s]
      <4>1. s # Head(doomed) /\ s < step
        BY <2>1, <3>1, <3>2 DEF Uploading, Rotating
      <4> QED
        BY <1>1, <1>3, <3>1, <4>1
    <3>3. UNCHANGED <<config, status, path>> /\ folders' = folders
      BY <1>1, <3>1
    <3> QED
      BY <1>5, <3>1, <3>2, <3>3, QueueStays DEF Rotating, Writing
  <2>6. CASE DeleteFolder
    <3>1. /\ pc[0] = "rmdir" /\ pc'[0] = "remove" /\ UNCHANGED <<status, path, shards, data>>
          /\ folders' = folders \ {Head(doomed)}
      BY <1>1, <2>6 DEF DeleteFolder, Goto, service
    <3>2. ASSUME NEW id \in Uploader!Tasks, NEW s \in Steps, Queued(id, s)
          PROVE  s # Head(doomed) /\ s < step
      BY <2>1, <3>1, <3>2 DEF Uploading, Rotating
    <3> QED
      BY <1>1, <1>3, <1>5, <3>1, <3>2, QueueStays DEF Rotating, Writing
  <2>7. CASE RotationDone \/ WriteTracker
    <3>1. /\ pc[0] \in {"remove", "tracker"} /\ pc'[0] \in {"mkdir", "enqueue", "b3"}
          /\ UNCHANGED <<status, path, shards, data, folders>>
      BY <1>1, <2>7 DEF RotationDone, WriteTracker, Goto, service, local
    <3>2. ASSUME NEW id \in Uploader!Tasks, NEW s \in Steps, Queued(id, s)
          PROVE  s < step
      BY <2>1, <3>1, <3>2 DEF Uploading, Rotating
    <3> QED
      BY <1>1, <1>3, <1>5, <3>1, <3>2, QueueStays DEF Rotating, Writing
  <2>8. CASE EnqueueStep
    <3>1. /\ pc[0] = "enqueue" /\ pc'[0] = "b3" /\ UNCHANGED <<shards, data, folders>>
          /\ Uploader!Enqueue(0, Folder(step))
      BY <1>1, <1>5, <2>8 DEF EnqueueStep, Goto, local
    <3>2. PICK new \in Uploader!Tasks :
            /\ status' = [status EXCEPT ![new] = "pending"]
            /\ path' = [path EXCEPT ![new] = Folder(step)]
      BY <3>1 DEF Uploader!Enqueue
    <3>3. /\ status'[new] = "pending" /\ path'[new] = Folder(step)
          /\ \A id \in Uploader!Tasks : id # new => status'[id] = status[id] /\ path'[id] = path[id]
      BY <3>2 DEF UploadInv, TypeInv, TypeOK
    <3>4. \A id \in Uploader!Tasks : status'[id] = "pending" => \E s \in Steps : path'[id] = Folder(s)
      BY <1>3, <2>1, <3>3 DEF Uploading
    <3>5. \A r \in Ranks : pc[r] \in Finishing
      BY <1>1, <3>1 DEF Together, Stage, Rotating, Writing, Finishing, Places
    <3>6. (\A r \in Ranks : shards[step][r] = "whole") /\ data[step][0] = "whole"
      BY <1>1, <3>1, <3>5 DEF Saved
    <3>7. \A id \in Uploader!Tasks, s \in Steps : Queued(id, s)' => Queued(id, s) \/ s = step
      <4>1. \A id \in Uploader!Tasks, s \in Steps :
              Queued(id, s)' <=> status'[id] = "pending" /\ path'[id] = Folder(s)
        BY DEF Queued, Folder
      <4> QED
        BY <1>3, <3>3, <4>1, FoldersDiffer DEF Queued
    <3>8. ASSUME NEW id \in Uploader!Tasks, NEW s \in Steps, Queued(id, s)'
          PROVE  /\ s <= step'
                 /\ (\A q \in Ranks : shards'[s][q] = "whole") /\ data'[s][0] = "whole"
      <4>1. CASE s = step
        BY <1>1, <1>3, <3>1, <3>6, <4>1
      <4>2. CASE Queued(id, s)
        BY <1>1, <2>1, <3>1, <4>2 DEF Uploading
      <4> QED
        BY <3>7, <3>8, <4>1, <4>2
    <3>9. Uploading'
      BY <3>1, <3>4, <3>8 DEF Uploading, Folder, Rotating, Writing
    <3> QED
      BY <3>1, <3>9 DEF Undisturbed
  <2>9. ~EnqueueTracker
    BY <2>1 DEF EnqueueTracker, Uploading
  <2> QED
    BY <2>3, <2>4, <2>5, <2>6, <2>7, <2>8, <2>9 DEF Rank0Step
<1> QED
  BY <1>4, <1>5 DEF Undisturbed

\* A step of all ranks at once.
LEMMA UploadCollective ==
  ASSUME UploadInv, Awaiting, Collective \/ Exit
  PROVE  Saved' /\ (config.uploads = "folder" => Uploading') /\ Undisturbed
<1> USE Rank0 DEF Everyone, AllAt
<1>1. /\ Saved /\ step \in 0 .. TotalSteps
      /\ UNCHANGED <<config, status, path, folders, shards, data, doomed>>
  BY DEF UploadInv, TypeInv, TypeOK, Collective, Launch, TrainStep, Barrier1, Barrier2, Barrier3,
     Shutdown, Exit, local, service, Uploader!Wait, Uploader!Return
<1>2. PICK where \in {"train", "broken", "done", "rotate", "shard", "data", "final", "exit"} :
        /\ pc' = [r \in Ranks |-> where]
        /\ where = "data" => (\A r \in Ranks : pc[r] = "b2") /\ step' = step
        /\ where = "shard" => pc[0] = "b1"
        /\ \/ pc[0] = "down"
           \/ pc[0] = "train" /\ where \in {"train", "rotate"} /\ step' = step + 1
           \/ step' = step /\ where \notin {"rotate", "broken"}
  BY DEF Collective, Launch, TrainStep, Barrier1, Barrier2, Barrier3, Shutdown, Exit, Onward
<1>3. Saved'
  BY <1>1, <1>2 DEF Saved, Finishing
<1>4. ASSUME config.uploads = "folder" PROVE Uploading' /\ Undisturbed
  <2>1. Uploading
    BY <1>4 DEF UploadInv
  <2>2. ASSUME NEW id \in Uploader!Tasks, NEW s \in Steps, Queued(id, s)
        PROVE  /\ s <= step' /\ where \notin {"down", "broken"}
               /\ where \in Rotating \cup Writing \cup {"data", "data_open", "tracker", "enqueue"} =>
                    s < step'
    <3>1. s <= step /\ pc[0] # "down"
      BY <2>1, <2>2 DEF Uploading
    <3>2. where \in {"shard", "data"} => s < step
      BY <1>2, <2>1, <2>2 DEF Uploading, Rotating, Writing
    <3> QED
      BY <1>1, <1>2, <3>1, <3>2 DEF Rotating, Writing
  <2>3. pc'[0] = where /\ where \notin {"enqueue2", "wait", "delete", "rmdir"}
    BY <1>2
  <2> QED
    BY <1>1, <1>4, <2>2, <2>3, QueueStays
<1> QED
  BY <1>3, <1>4 DEF Undisturbed

\* A crash empties the queue, and the pool takes from it.
LEMMA UploadOthers ==
  ASSUME UploadInv, \/ Crash
                    \/ \E id \in Uploader!Tasks : Upload(id)
                    \/ UNCHANGED vars
  PROVE  Saved' /\ (config.uploads = "folder" => Uploading') /\ Undisturbed
<1> USE Rank0
<1>1. UNCHANGED <<folders, shards, data, step, config>>
  BY DEF Crash, Upload, Settles, UploadOk, UploadFails, PutBreaks, local, vars
<1>2. CASE Crash
  <2>1. pc' = [r \in Ranks |-> "down"] /\ status' = [id \in Uploader!Tasks |-> "none"]
    BY <1>2 DEF Crash, AllAt
  <2>2. Saved'
    BY <2>1 DEF Saved, Finishing
  <2>3. \A id \in Uploader!Tasks : status'[id] # "pending"
    BY <2>1
  <2>4. Uploading'
    BY <2>1, <2>3 DEF Uploading, Queued
  <2> QED
    BY <1>1, <2>2, <2>4 DEF Undisturbed
<1>3. CASE (\E id \in Uploader!Tasks : Upload(id)) \/ UNCHANGED vars
  <2>1. /\ UNCHANGED <<pc, doomed, path, waiting>>
        /\ \A id \in Uploader!Tasks : status'[id] = "pending" => status[id] = "pending"
    BY <1>3 DEF Upload, Settles, UploadOk, UploadFails, PutBreaks, Uploader!Settle, vars, service, UploadInv, TypeInv,
       TypeOK
  <2>2. Saved'
    BY <1>1, <2>1 DEF UploadInv, Saved
  <2>3. ASSUME config.uploads = "folder" PROVE Uploading'
    <3>1. Uploading
      BY <2>3 DEF UploadInv
    <3>2. \A id \in Uploader!Tasks, s \in Steps : Queued(id, s)' => Queued(id, s)
      BY <2>1 DEF Queued, Folder
    <3>3. \A id \in Uploader!Tasks : status'[id] = "pending" => \E s \in Steps : path'[id] = Folder(s)
      BY <2>1, <3>1 DEF Uploading
    <3>4. pc'[0] = "wait" => waiting'[0] = <<AbsFolder(Head(doomed')), FALSE>>
      BY <2>1, <3>1 DEF Uploading
    <3>5. pc'[0] # "enqueue2"
      BY <2>1, <3>1 DEF Uploading
    <3>6. ASSUME NEW id \in Uploader!Tasks, NEW s \in Steps, Queued(id, s)'
          PROVE  /\ pc'[0] \notin {"down", "broken"}
                 /\ s <= step'
                 /\ pc'[0] \in Rotating \cup Writing \cup {"data", "data_open", "tracker", "enqueue"} =>
                      s < step'
                 /\ pc'[0] \in {"delete", "rmdir"} => s # Head(doomed')
                 /\ \A r \in Ranks : shards'[s][r] = "whole"
                 /\ data'[s][0] = "whole"
      BY <1>1, <2>1, <3>1, <3>2, <3>6 DEF Uploading
    <3> QED
      BY <3>3, <3>4, <3>5, <3>6 DEF Uploading, Folder, AbsFolder
  <2> QED
    BY <1>1, <2>2, <2>3 DEF Undisturbed
<1> QED
  BY <1>2, <1>3

LEMMA UploadStep ==
  ASSUME UploadInv, Awaiting, [Next]_vars
  PROVE  UploadInv' /\ Undisturbed
<1>1. TypeInv' /\ config' = config
  BY TypeStep, ConfigStays DEF UploadInv
<1>2. Saved' /\ (config.uploads = "folder" => Uploading') /\ Undisturbed
  BY UploadRankStep, UploadRank0Step, UploadCollective, UploadOthers DEF Next
<1> QED
  BY <1>1, <1>2 DEF UploadInv

LEMMA UploadInit == Init => UploadInv
<1> SUFFICES ASSUME Init PROVE UploadInv
  OBVIOUS
<1>1. (\A r \in Ranks : pc[r] = "down") /\ \A id \in Uploader!Tasks : status[id] = "none"
  BY DEF Init, AllAt, Uploader!Init
<1>2. Saved
  BY <1>1, Rank0 DEF Saved, Finishing
<1>3. Uploading
  BY <1>1, Rank0 DEF Uploading, Queued
<1> QED
  BY <1>2, <1>3, TypeInit DEF UploadInv

\* No file is removed or written while an upload is still to read it, for every number
\* of ranks, steps, saves kept, crashes and uploads: where whole directories are
\* uploaded and the manager waits for the path that was enqueued.
THEOREM UploadsReadWhatWasSaved ==
  ASSUME Awaiting
  PROVE  Spec => NothingChangesUnderUploads
<1>1. UploadInv /\ [Next]_vars => UploadInv'
  BY UploadStep
<1>2. UploadInv /\ [Next]_vars =>
        [config.uploads = "folder" => \A s \in Steps : Reading(s) =>
           shards'[s] = shards[s] /\ data'[s] = data[s] /\ (s \in folders => s \in folders')]_vars
  BY UploadStep DEF Undisturbed
<1> QED
  BY <1>1, <1>2, UploadInit, PTL DEF Spec, NothingChangesUnderUploads

\* A task that this incarnation has given to the uploader, for the directory of step s.
Given(id, s) == status[id] # "none" /\ path[id] = Folder(s)

\* An incarnation gives the uploader each directory once, after it has saved it.
Once ==
  /\ \A id \in Uploader!Tasks : status[id] # "none" => \E s \in Steps : path[id] = Folder(s)
  /\ \A id \in Uploader!Tasks, s \in Steps : Given(id, s) =>
       /\ pc[0] \notin {"down", "broken"}
       /\ s <= step
       /\ pc[0] \in Rotating \cup Writing \cup {"data", "data_open", "tracker", "enqueue"} => s < step
  /\ \A i, j \in Uploader!Tasks, s \in Steps : Given(i, s) /\ Given(j, s) => i = j

LEMMA OnceStep ==
  ASSUME UploadInv, config.uploads = "folder", Once, [Next]_vars
  PROVE  Once'
<1> DEFINE Unsaved == Rotating \cup Writing \cup {"data", "data_open", "tracker", "enqueue"}
<1> USE Rank0
<1>1. /\ pc \in [Ranks -> Places] /\ step \in 0 .. TotalSteps
      /\ status \in [Uploader!Tasks -> {"none", "pending", "ok", "failed"}]
      /\ path \in [Uploader!Tasks -> SourcePaths \cup {All}]
  BY DEF UploadInv, TypeInv, TypeOK, Places
<1>2. CASE Crash
  <2>1. \A id \in Uploader!Tasks : status'[id] = "none"
    BY <1>2 DEF Crash
  <2> QED
    BY <2>1 DEF Once, Given
<1>3. CASE EnqueueStep
  <2>1. /\ pc[0] = "enqueue" /\ pc'[0] = "b3" /\ step' = step
        /\ Uploader!Enqueue(0, Folder(step))
    BY <1>1, <1>3 DEF EnqueueStep, Goto
  <2>2. PICK new \in Uploader!Tasks :
          /\ status[new] = "none"
          /\ status'[new] = "pending" /\ path'[new] = Folder(step)
          /\ \A id \in Uploader!Tasks : id # new => status'[id] = status[id] /\ path'[id] = path[id]
    BY <1>1, <2>1 DEF Uploader!Enqueue
  <2>3. step \in Steps
    BY <2>1 DEF UploadInv, TypeInv, StepFits, Finishing
  <2>4. \A id \in Uploader!Tasks, s \in Steps :
          Given(id, s)' => (id = new /\ s = step) \/ (id # new /\ Given(id, s) /\ s < step)
    <3>1. \A id \in Uploader!Tasks, s \in Steps :
            Given(id, s)' <=> status'[id] # "none" /\ path'[id] = Folder(s)
      BY DEF Given, Folder
    <3>2. \A id \in Uploader!Tasks, s \in Steps : Given(id, s) => s < step
      BY <2>1 DEF Once
    <3> QED
      BY <2>2, <2>3, <3>1, <3>2, FoldersDiffer DEF Given
  <2>5. \A id \in Uploader!Tasks : status'[id] # "none" => \E s \in Steps : path'[id] = Folder(s)
    BY <2>2, <2>3 DEF Once
  <2>6. \A i, j \in Uploader!Tasks, s \in Steps : Given(i, s)' /\ Given(j, s)' => i = j
    <3> SUFFICES ASSUME NEW i \in Uploader!Tasks, NEW j \in Uploader!Tasks, NEW s \in Steps,
                        Given(i, s)', Given(j, s)'
                 PROVE  i = j
      OBVIOUS
    <3>1. CASE s = step
      BY <1>1, <2>4, <3>1
    <3>2. CASE s # step
      BY <2>4, <3>2 DEF Once
    <3> QED
      BY <3>1, <3>2
  <2>7. \A id \in Uploader!Tasks, s \in Steps : Given(id, s)' => s <= step'
    BY <1>1, <2>1, <2>4
  <2>8. pc'[0] \notin {"down", "broken"} \cup Unsaved
    BY <2>1 DEF Rotating, Writing
  <2> QED
    BY <2>5, <2>6, <2>7, <2>8 DEF Once, Folder
<1>4. CASE ~Crash /\ ~EnqueueStep
  <2>1. path' = path /\ \A id \in Uploader!Tasks : status'[id] # "none" <=> status[id] # "none"
    <3>1. ~EnqueueTracker
      BY DEF EnqueueTracker, UploadInv, Uploading
    <3>2. UNCHANGED <<status, path>> \/ \E id \in Uploader!Tasks : Settles(id)
      BY <1>4, <3>1 DEF vars, Next, Collective, Launch, TrainStep, Barrier1, Barrier2, Barrier3,
         Shutdown, Exit, RankStep, Rotate, Mkdir, OpenShard, WriteShard, OpenData,
         WriteData, Rank0Step, WaitUploads, UploadsDone, DeleteFiles, DeleteFolder,
         RotationDone, WriteTracker, Upload, PutBreaks, service, Uploader!Wait, Uploader!Return
    <3> QED
      BY <1>1, <3>2 DEF Settles, UploadOk, UploadFails, Uploader!Settle
  <2>2. \A id \in Uploader!Tasks, s \in Steps : Given(id, s)' <=> Given(id, s)
    BY <2>1 DEF Given, Folder
  <2>3. \/ pc[0] = "down"
        \/ step' = step + 1 /\ pc'[0] \in {"rotate", "train"}
        \/ step' = step /\ pc'[0] = pc[0]
        \/ /\ step' = step /\ pc'[0] \notin {"down", "broken"}
           /\ pc'[0] \in Unsaved => pc[0] \in Unsaved
    <3>1. CASE Launch
      BY <3>1 DEF Launch, Everyone
    <3>2. CASE TrainStep
      BY <3>2 DEF TrainStep, AllAt
    <3>3. CASE Barrier1 \/ Barrier2 \/ Barrier3 \/ Shutdown \/ Exit
      BY <3>3 DEF Barrier1, Barrier2, Barrier3, Shutdown, Exit, Everyone, AllAt, Onward,
         Rotating, Writing
    <3>4. CASE \E r \in Ranks : RankStep(r)
      BY <1>1, <3>4 DEF RankStep, Rotate, Mkdir, OpenShard, WriteShard, OpenData, WriteData,
         AfterShards, Goto, Rotating, Writing
    <3>5. CASE Rank0Step
      BY <1>1, <1>4, <3>5 DEF Rank0Step, WaitUploads, UploadsDone, DeleteFiles, DeleteFolder,
         RotationDone, WriteTracker, EnqueueTracker, Goto, Rotating, Writing
    <3>6. CASE (\E id \in Uploader!Tasks : Upload(id)) \/ UNCHANGED vars
      BY <3>6 DEF Upload, Settles, UploadOk, UploadFails, PutBreaks, vars
    <3> QED
      BY <1>4, <3>1, <3>2, <3>3, <3>4, <3>5, <3>6 DEF Next, Collective
  <2>4. ASSUME NEW id \in Uploader!Tasks, NEW s \in Steps, Given(id, s)
        PROVE  /\ pc'[0] \notin {"down", "broken"}
               /\ s <= step'
               /\ pc'[0] \in Unsaved => s < step'
    <3>1. /\ pc[0] \notin {"down", "broken"} /\ s <= step /\ (pc[0] \in Unsaved => s < step)
      BY <2>4 DEF Once
    <3> QED
      BY <1>1, <2>3, <3>1
  <2> QED
    BY <2>1, <2>2, <2>4 DEF Once, Folder
<1> QED
  BY <1>2, <1>3, <1>4

\* What an upload copies is complete, since nothing has changed it since it was saved,
\* and no later put of this incarnation touches the copy.
LEMMA CopiesAreWhole ==
  ASSUME UploadInv, Awaiting, config.uploads = "folder", Once, RemoteComplete, [Next]_vars
  PROVE  RemoteComplete'
<1>1. /\ Uploading
      /\ status \in [Uploader!Tasks -> {"none", "pending", "ok", "failed"}]
      /\ path \in [Uploader!Tasks -> SourcePaths \cup {All}]
      /\ remote \in [Steps -> CopyState]
      /\ shards \in [Steps -> [Ranks -> FileState]] /\ data \in [Steps -> [Writers -> FileState]]
  BY DEF UploadInv, TypeInv, TypeOK
<1>2. \A s \in Steps : Copied(s) => "whole" \in {remote[s].top, remote[s].nested}
  BY DEF RemoteComplete
<1>3. CASE \E id \in Uploader!Tasks : Upload(id)
  <2>1. PICK id \in Uploader!Tasks :
          /\ Upload(id) /\ status[id] = "pending" /\ path' = path
          /\ \A j \in Uploader!Tasks : j # id => status'[j] = status[j]
          /\ status'[id] = "ok" => UploadOk(id)
    BY <1>1, <1>3 DEF Upload, Settles, UploadOk, UploadFails, PutBreaks, Uploader!Settle, service
  <2>2. PICK s \in Steps : path[id] = Folder(s)
    BY <1>1, <2>1 DEF Uploading
  <2>3. UNCHANGED remote \/ \E content \in {"part", "whole"} : Arrives(Folder(s), content)
    BY <2>1, <2>2 DEF Upload, Settles, UploadOk, UploadFails, PutBreaks, Begun
  <2>4. \A t \in Steps : t # s => remote'[t] = remote[t]
    BY <1>1, <2>2, <2>3, FoldersDiffer DEF Arrives
  <2>5. ASSUME NEW t \in Steps, Copied(t)', t # s PROVE Copied(t)
    <3>1. PICK j \in Uploader!Tasks : status'[j] = "ok" /\ Inside(path[j], t)
      BY <2>1, <2>5 DEF Copied, Inside
    <3>2. j # id
      BY <2>2, <2>5, <3>1, FoldersDiffer DEF Inside
    <3> QED
      BY <2>1, <3>1, <3>2 DEF Copied
  <2>6. CASE status'[id] = "ok"
    <3>1. (\A r \in Ranks : shards[s][r] = "whole") /\ data[s][0] = "whole"
      BY <1>1, <2>1, <2>2 DEF Uploading, Queued
    <3>2. Arrives(Folder(s), "whole")
      <4>1. AllSaved(s)
        BY <3>1 DEF AllSaved, Awaiting
      <4>2. Folder(s)[2] = s /\ Folder(s) # TrackerFile /\ Folder(s) # DataFile(s)
        BY FoldersDiffer DEF Folder, DataFile
      <4> QED
        BY <2>1, <2>2, <2>6, <4>1, <4>2 DEF UploadOk
    <3>3. "whole" \in {remote'[s].top, remote'[s].nested}
      BY <1>1, <3>2, FoldersDiffer DEF Arrives, CopyState
    <3> QED
      BY <1>2, <2>4, <2>5, <3>3 DEF RemoteComplete
  <2>7. CASE status'[id] # "ok"
    <3>1. ~Copied(s)'
      <4> SUFFICES ASSUME Copied(s)' PROVE FALSE
        OBVIOUS
      <4>1. PICK j \in Uploader!Tasks : status'[j] = "ok" /\ Inside(path[j], s)
        BY <2>1 DEF Copied, Inside
      <4>2. j # id /\ status[j] = "ok"
        BY <2>1, <2>7, <4>1
      <4>3. PICK t \in Steps : path[j] = Folder(t)
        BY <4>2 DEF Once
      <4>4. t = s
        BY <4>1, <4>3, FoldersDiffer DEF Inside
      <4> QED
        BY <2>1, <2>2, <4>2, <4>3, <4>4 DEF Once, Given
    <3> QED
      BY <1>2, <2>4, <2>5, <3>1 DEF RemoteComplete
  <2> QED
    BY <2>6, <2>7
<1>4. CASE ~\E id \in Uploader!Tasks : Upload(id)
  <2>1. UNCHANGED remote
    BY <1>4 DEF vars, Next, Collective, Launch, TrainStep, Barrier1, Barrier2, Barrier3,
       Shutdown, Exit, Crash, RankStep, Rotate, Mkdir, OpenShard, WriteShard, OpenData,
       WriteData, Rank0Step, WaitUploads, UploadsDone, DeleteFiles, DeleteFolder,
       RotationDone, WriteTracker, EnqueueStep, EnqueueTracker
  <2>2. \A id \in Uploader!Tasks : status'[id] = "ok" => status[id] = "ok" /\ path'[id] = path[id]
    <3>1. \/ UNCHANGED <<status, path>>
          \/ Crash
          \/ \E p : Uploader!Enqueue(0, p)
      BY <1>4 DEF vars, Next, Collective, Launch, TrainStep, Barrier1, Barrier2, Barrier3,
         Shutdown, Exit, RankStep, Rotate, Mkdir, OpenShard, WriteShard, OpenData,
         WriteData, Rank0Step, WaitUploads, UploadsDone, DeleteFiles, DeleteFolder,
         RotationDone, WriteTracker, EnqueueStep, EnqueueTracker, service,
         Uploader!Wait, Uploader!Return
    <3>2. (\E p : Uploader!Enqueue(0, p)) =>
            \A id \in Uploader!Tasks : status'[id] = "ok" => status[id] = "ok" /\ path'[id] = path[id]
      BY <1>1 DEF Uploader!Enqueue
    <3>3. Crash => \A id \in Uploader!Tasks : status'[id] # "ok"
      BY DEF Crash
    <3> QED
      BY <3>1, <3>2, <3>3
  <2>3. \A s \in Steps : Copied(s)' => Copied(s)
    BY <2>2 DEF Copied, Inside
  <2> QED
    BY <1>2, <2>1, <2>3 DEF RemoteComplete
<1> QED
  BY <1>3, <1>4

\* A directory recorded as copied is on HDFS with the shard of every rank and the
\* dataloader's state, at its destination or one level below, whenever the job has died,
\* whatever broke off and whatever has been tried again before.
THEOREM CopiesCanBeResumedFrom ==
  ASSUME Awaiting
  PROVE  Spec => []RemoteComplete
<1> DEFINE CopyInv == config.uploads = "folder" => Once /\ RemoteComplete
<1>1. Init => UploadInv /\ CopyInv
  <2>1. Init => Once /\ RemoteComplete
    BY DEF Init, Uploader!Init, RemoteComplete, Copied, Once, Given
  <2> QED
    BY <2>1, UploadInit
<1>2. UploadInv /\ CopyInv /\ [Next]_vars => (UploadInv /\ CopyInv)'
  BY UploadStep, ConfigStays, OnceStep, CopiesAreWhole
<1>3. CopyInv => RemoteComplete
  BY DEF RemoteComplete
<1> QED
  BY <1>1, <1>2, <1>3, PTL DEF Spec

-----------------------------------------------------------------------------
(* The dataloaders.                                                        *)

\* Whatever the ranks do, every dataloader is at the step of the job.
AtStep == config.keep # 1 /\ pc[0] \notin {"down", "broken"} => \A r \in Ranks : iter[r] = step

LEMMA AtStepStep ==
  ASSUME Inv, Resuming, AtStep, [Next]_vars
  PROVE  AtStep'
<1> SUFFICES ASSUME config.keep # 1, config' = config PROVE AtStep'
  BY ConfigStays DEF AtStep
<1> USE Rank0
<1>1. /\ pc \in [Ranks -> Places] /\ iter \in [Ranks -> 0 .. TotalSteps]
      /\ step \in 0 .. TotalSteps /\ tracker \in 0 .. TotalSteps /\ TrackerResumable
  BY DEF Inv, TypeInv, TypeOK, Places
<1>2. CASE Launch
  <2>1. ASSUME ResumeStep # 0, NEW r \in Ranks PROVE Position(ResumeStep, r) = ResumeStep
    BY <1>1, <2>1 DEF ResumeStep, Position, DataOwner, TrackerResumable, Resuming
  <2>2. CASE step' = 0 /\ iter' = [r \in Ranks |-> 0]
    BY <2>2 DEF AtStep
  <2>3. CASE pc' = AllAt("broken")
    BY <2>3 DEF AtStep, AllAt
  <2>4. CASE ResumeStep # 0 /\ step' = ResumeStep /\ iter' = [r \in Ranks |-> Position(ResumeStep, r)]
    BY <2>1, <2>4 DEF AtStep
  <2> QED
    BY <1>2, <2>2, <2>3, <2>4 DEF Launch
<1>3. CASE TrainStep
  BY <1>1, <1>3 DEF TrainStep, Everyone, AtStep
<1>4. CASE Crash
  BY <1>4 DEF Crash, AtStep, AllAt
<1>5. CASE ~Launch /\ ~TrainStep /\ ~Crash
  <2>1. UNCHANGED <<step, iter>>
    BY <1>5 DEF vars, Next, Collective, Barrier1, Barrier2, Barrier3,
       Shutdown, Exit, RankStep, Rotate, Mkdir, OpenShard, WriteShard, OpenData,
       WriteData, Rank0Step, WaitUploads, UploadsDone, DeleteFiles, DeleteFolder,
       RotationDone, WriteTracker, EnqueueStep, EnqueueTracker, Upload, Settles, UploadOk, UploadFails, PutBreaks
  <2>2. pc'[0] = pc[0] \/ pc[0] \notin {"down", "broken"}
    BY <1>1, <1>5 DEF vars, Next, Collective, Barrier1, Barrier2, Barrier3, Everyone,
       Shutdown, Exit, RankStep, Rotate, Mkdir, OpenShard, WriteShard, OpenData,
       WriteData, Rank0Step, WaitUploads, UploadsDone, DeleteFiles, DeleteFolder,
       RotationDone, WriteTracker, EnqueueStep, EnqueueTracker, Upload, Settles, UploadOk, UploadFails, PutBreaks, Goto
  <2> QED
    BY <2>1, <2>2 DEF AtStep
<1> QED
  BY <1>2, <1>3, <1>4, <1>5

\* After any number of crashes, the dataloaders of all ranks are at the step the job is
\* at: no rank trains on the batch of another step.
THEOREM LoadersInStep ==
  ASSUME Resuming
  PROVE  Spec => []DataloadersAgree
<1>1. Init => Inv /\ AtStep
  <2>1. Init => AtStep
    BY Rank0 DEF Init, AtStep, AllAt
  <2> QED
    BY <2>1, TypeInit, SaveInit DEF Inv
<1>2. Inv /\ AtStep /\ [Next]_vars => (Inv /\ AtStep)'
  BY InvStep, AtStepStep
<1>3. AtStep => DataloadersAgree
  BY Rank0 DEF AtStep, DataloadersAgree, Everyone
<1> QED
  BY <1>1, <1>2, <1>3, PTL DEF Spec

=============================================================================
