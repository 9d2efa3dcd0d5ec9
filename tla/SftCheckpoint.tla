---------------------------- MODULE SftCheckpoint ----------------------------
(***************************************************************************)
(* Checkpointing of the SPMD (torchrun) trainers: sft_trainer.py with its  *)
(* CheckpointHandler and fsdp_sft_trainer.py, both on top of               *)
(* FSDPCheckpointManager and of the uploader of rank 0's process.          *)
(*                                                                         *)
(* Ranks train in lockstep, save on their own between collective barriers, *)
(* and die together.  What is on the local disk and on HDFS survives them; *)
(* the uploader's queue and the manager's list of saved paths do not.      *)
(* The uploader is UploadService, which HdfsUploader implements.           *)
(***************************************************************************)
EXTENDS Integers, Sequences, FiniteSets

CONSTANTS
  WorldSize,
  Writers,       \* ranks that save the dataloader state
  Configs,       \* the trainers' configurations
  RelativeDir,   \* default_local_dir is a relative path
  AutoResume,    \* resume_mode is auto, rather than disable
  SaveFreq, TotalSteps,
  All,           \* what a final wait waits for
  MaxCrashes,    \* bound: crashes in a behaviour
  MaxTasks       \* bound: uploads of one incarnation

Ranks == 0 .. WorldSize - 1

ASSUME CheckpointAssumption ==
  /\ WorldSize \in Nat \ {0}
  /\ 0 \in Writers /\ Writers \subseteq Ranks
  /\ SaveFreq \in Nat \ {0} /\ TotalSteps \in Nat \ {0}
  /\ Configs \subseteq
       [keep    : Nat,                          \* max_ckpt_to_keep, 0 for None
        uploads : {"folder", "files", "none"}]  \* what is enqueued: by CheckpointHandler, by
                                                \* fsdp_sft_trainer, or without a default_hdfs_dir
  /\ RelativeDir \in BOOLEAN /\ AutoResume \in BOOLEAN
  /\ MaxCrashes \in Nat /\ MaxTasks \in Nat

VARIABLES
  config,
  pc,         \* where each rank is
  step,       \* global_step, the same on every rank
  iter,       \* position of each rank's dataloader
  previous,   \* previous_saved_paths of rank 0, as steps
  doomed,     \* paths rank 0 has still to remove in this save
  folders,    \* local global_step_N directories that exist
  shards,     \* model, optimizer and extra files of each rank in them
  data,       \* dataloader state files in them
  tracker,    \* latest_checkpointed_iteration.txt, 0 if there is none
  status, path, waiting, closed,     \* the uploader of rank 0
  remote,     \* what HDFS has of each step, which a resume does not read
  crashes

local   == <<folders, shards, data, tracker>>
service == <<status, path, waiting, closed>>
vars == <<config, pc, step, iter, previous, doomed, local, service, remote, crashes>>

Steps     == 1 .. TotalSteps
FileState == {"none", "torn", "whole"}

\* A step's directory on HDFS, and the one of the same name inside it: absent,
\* begun or with files missing, or with all files of the checkpoint.
CopyState == [top : {"none", "part", "whole"}, nested : {"none", "part", "whole"}]

\* Source paths given to the uploader.  The manager works with the absolute
\* path that local_mkdir_safe returns; the trainers enqueue the path they
\* built from default_local_dir.
RelFolder(s) == <<"rel", s>>
AbsFolder(s) == <<"abs", s>>
Folder(s)    == <<IF RelativeDir THEN "rel" ELSE "abs", s>>
DataFile(s)  == <<"data", s>>
TrackerFile  == <<"tracker", 0>>
SourcePaths  == ({"abs", "rel", "data"} \X Steps) \cup {TrackerFile}
Uploader     == INSTANCE UploadService WITH Callers <- {0}, Paths <- SourcePaths

\* The path names something in the directory of step s.
Inside(p, s) == p # All /\ p # TrackerFile /\ p[2] = s

\* Ranks that own no dataloader file read the one of rank 0's group.
DataOwner(r) == IF r \in Writers THEN r ELSE 0

Everyone(where) == \A r \in Ranks : pc[r] = where
AllAt(where)    == [r \in Ranks |-> where]
Goto(r, where)  == pc' = [pc EXCEPT ![r] = where]

TypeOK ==
  /\ config \in Configs
  /\ pc \in [Ranks -> {"down", "broken", "train", "rotate", "remove", "wait", "delete",
                       "rmdir", "mkdir", "b1", "shard", "shard_open", "b2", "data", "data_open",
                       "tracker", "enqueue", "enqueue2", "b3", "done", "final", "exit"}]
  /\ step \in 0 .. TotalSteps
  /\ iter \in [Ranks -> 0 .. TotalSteps]
  /\ previous \in Seq(Steps) /\ doomed \in Seq(Steps)
  /\ folders \subseteq Steps
  /\ shards \in [Steps -> [Ranks -> FileState]]
  /\ data \in [Steps -> [Writers -> FileState]]
  /\ tracker \in 0 .. TotalSteps
  /\ status \in [Uploader!Tasks -> {"none", "pending", "ok", "failed"}]
  /\ path \in [Uploader!Tasks -> SourcePaths \cup {All}]
  /\ waiting \in [{0} -> {<<>>} \cup ((SourcePaths \cup {All}) \X BOOLEAN)]
  /\ closed \in BOOLEAN
  /\ remote \in [Steps -> CopyState]
  /\ crashes \in 0 .. MaxCrashes

Init ==
  /\ config \in Configs
  /\ pc = AllAt("down") /\ step = 0 /\ iter = [r \in Ranks |-> 0]
  /\ previous = <<>> /\ doomed = <<>>
  /\ folders = {} /\ tracker = 0
  /\ shards = [s \in Steps |-> [r \in Ranks |-> "none"]]
  /\ data = [s \in Steps |-> [w \in Writers |-> "none"]]
  /\ Uploader!Init
  /\ remote = [s \in Steps |-> [top |-> "none", nested |-> "none"]]
  /\ crashes = 0

-----------------------------------------------------------------------------
(* Starting and resuming.                                                  *)

\* _determine_resume_path and find_latest_ckpt_path: the step to resume from,
\* 0 to start anew.
ResumeStep ==
  IF AutoResume /\ tracker # 0 /\ tracker \in folders THEN tracker ELSE 0

\* The loops of fit: train on, or return after the last step.
Onward(s) == IF s < TotalSteps THEN "train" ELSE "done"

\* is_last_step or is_save_step
OnlyTheLast(s) == s >= TotalSteps
SaveNow(s)     == s >= TotalSteps \/ s % SaveFreq = 0

\* _load_dataloader_state: a missing file means that the data start anew.
OwnFileOnly(s, r) == IF r \in Writers /\ data[s][DataOwner(r)] = "whole" THEN s ELSE 0
Position(s, r)    == IF data[s][DataOwner(r)] = "whole" THEN s ELSE 0

\* load_checkpoint on every rank.  torch.load of a shard that is missing or
\* torn, or of torn dataloader state, raises and the job does not come up.
Launch ==
  /\ Everyone("down")
  /\ LET s == ResumeStep IN
       \/ /\ s = 0
          /\ step' = 0 /\ iter' = [r \in Ranks |-> 0]
          /\ pc' = AllAt("train")
       \/ /\ s # 0
          /\ \/ \E r \in Ranks : shards[s][r] # "whole"
             \/ \E w \in Writers : data[s][w] = "torn"
          /\ pc' = AllAt("broken")
          /\ UNCHANGED <<step, iter>>
       \/ /\ s # 0
          /\ \A r \in Ranks : shards[s][r] = "whole"
          /\ \A w \in Writers : data[s][w] # "torn"
          /\ step' = s
          /\ iter' = [r \in Ranks |-> Position(s, r)]
          /\ pc' = AllAt(Onward(s))
  /\ UNCHANGED <<previous, doomed, local, service, remote, crashes, config>>

\* Every rank dies; files being written stay torn, queued uploads are lost.
Crash ==
  /\ crashes < MaxCrashes /\ ~Everyone("down") /\ ~Everyone("exit") /\ ~Everyone("broken")
  /\ crashes' = crashes + 1
  /\ pc' = AllAt("down")
  /\ previous' = <<>> /\ doomed' = <<>>
  /\ status' = [id \in Uploader!Tasks |-> "none"]
  /\ path' = [id \in Uploader!Tasks |-> All]
  /\ waiting' = [c \in {0} |-> <<>>]
  /\ closed' = FALSE
  /\ UNCHANGED <<step, iter, local, remote, config>>

\* One training step: its collectives keep the ranks together.
TrainStep ==
  /\ Everyone("train")
  /\ step' = step + 1
  /\ iter' = [r \in Ranks |-> iter[r] + 1]
  /\ pc' = AllAt(IF SaveNow(step + 1) THEN "rotate" ELSE "train")
  /\ UNCHANGED <<previous, doomed, local, service, remote, crashes, config>>

-----------------------------------------------------------------------------
(* FSDPCheckpointManager.save_checkpoint.                                  *)

\* The oldest paths, so that there is room for the new one.
Oldest(n) == SubSeq(previous, 1, IF n <= Len(previous) THEN n ELSE Len(previous))

OneMoreLost ==
  IF config.keep > 0 /\ Len(previous) >= config.keep THEN Oldest(Len(previous) - config.keep + 2) ELSE <<>>

Victims ==
  IF config.keep > 0 /\ Len(previous) >= config.keep THEN Oldest(Len(previous) - config.keep + 1) ELSE <<>>

Rotate(r) ==
  /\ pc[r] = "rotate"
  /\ IF r = 0
     THEN /\ doomed' = Victims
          /\ previous' = SubSeq(previous, Len(Victims) + 1, Len(previous))
          /\ Goto(r, "remove")
     ELSE Goto(r, "mkdir") /\ UNCHANGED <<doomed, previous>>
  /\ UNCHANGED <<step, iter, local, service, remote, crashes, config>>

\* remove_previous_save_local_path: wait for the uploads of the path.  (It skips
\* a path that is gone, but only rank 0 removes any, and each one once.)
WaitUploads ==
  /\ pc[0] = "remove" /\ doomed # <<>>
  /\ Uploader!Wait(0, AbsFolder(Head(doomed)), FALSE)
  /\ Goto(0, "wait")
  /\ UNCHANGED <<step, iter, previous, doomed, local, remote, crashes, config>>

UploadsDone ==
  /\ pc[0] = "wait"
  /\ Uploader!Return(0)
  /\ Goto(0, "delete")
  /\ UNCHANGED <<step, iter, previous, doomed, local, remote, crashes, config>>

\* shutil.rmtree: the files go first, the directory after them.
DeleteFiles ==
  /\ pc[0] = "delete"
  /\ LET s == Head(doomed) IN
       /\ shards' = [shards EXCEPT ![s] = [r \in Ranks |-> "none"]]
       /\ data' = [data EXCEPT ![s] = [w \in Writers |-> "none"]]
  /\ Goto(0, "rmdir")
  /\ UNCHANGED <<step, iter, previous, doomed, folders, tracker, service, remote, crashes, config>>

DeleteFolder ==
  /\ pc[0] = "rmdir"
  /\ folders' = folders \ {Head(doomed)}
  /\ doomed' = Tail(doomed)
  /\ Goto(0, "remove")
  /\ UNCHANGED <<step, iter, previous, shards, data, tracker, service, remote, crashes, config>>

RotationDone ==
  /\ pc[0] = "remove" /\ doomed = <<>>
  /\ Goto(0, "mkdir")
  /\ UNCHANGED <<step, iter, previous, doomed, local, service, remote, crashes, config>>

Mkdir(r) ==
  /\ pc[r] = "mkdir"
  /\ folders' = folders \cup {step}
  /\ Goto(r, "b1")
  /\ UNCHANGED <<step, iter, previous, doomed, shards, data, tracker, service, remote, crashes, config>>

\* torch.distributed.barrier
Barrier1 ==
  /\ Everyone("b1")
  /\ pc' = AllAt("shard")
  /\ UNCHANGED <<step, iter, previous, doomed, local, service, remote, crashes, config>>

\* A rank opens its files, which empties old ones, and later has written them.
OpenShard(r) ==
  /\ pc[r] = "shard"
  /\ shards' = [shards EXCEPT ![step][r] = "torn"]
  /\ Goto(r, "shard_open")
  /\ UNCHANGED <<step, iter, previous, doomed, folders, data, tracker, service, remote, crashes, config>>

WriteShard(r) ==
  /\ pc[r] = "shard_open"
  /\ shards' = [shards EXCEPT ![step][r] = "whole"]
  /\ Goto(r, "b2")
  /\ UNCHANGED <<step, iter, previous, doomed, folders, data, tracker, service, remote, crashes, config>>

\* The barrier after the files, and previous_saved_paths.append.
Barrier2 ==
  /\ Everyone("b2")
  /\ previous' = Append(previous, step)
  /\ pc' = AllAt("data")
  /\ UNCHANGED <<step, iter, doomed, local, service, remote, crashes, config>>

-----------------------------------------------------------------------------
(* The rest of the trainers' save_checkpoint.                              *)

\* Every rank goes to the last barrier; a writer writes first.
EarlyReturn(r) == IF r \in Writers THEN "data_open" ELSE "exit"
AfterShards(r) == IF r \in Writers THEN "data_open" ELSE "b3"

OpenData(r) ==
  /\ pc[r] = "data"
  /\ data' = IF r \in Writers THEN [data EXCEPT ![step][r] = "torn"] ELSE data
  /\ Goto(r, AfterShards(r))
  /\ UNCHANGED <<step, iter, previous, doomed, folders, shards, tracker, service, remote, crashes, config>>

WriteData(r) ==
  /\ pc[r] = "data_open"
  /\ data' = [data EXCEPT ![step][r] = "whole"]
  /\ Goto(r, IF r = 0 THEN "tracker" ELSE "b3")
  /\ UNCHANGED <<step, iter, previous, doomed, folders, shards, tracker, service, remote, crashes, config>>

\* Written to a temporary file and renamed.
WriteTracker ==
  /\ pc[0] = "tracker"
  /\ tracker' = step
  /\ Goto(0, IF config.uploads = "none" THEN "b3" ELSE "enqueue")
  /\ UNCHANGED <<step, iter, previous, doomed, folders, shards, data, service, remote, crashes, config>>

\* enqueue_copy of the folder, or of data.pt and then of the tracker.
EnqueueStep ==
  /\ pc[0] = "enqueue"
  /\ Uploader!Enqueue(0, IF config.uploads = "folder" THEN Folder(step) ELSE DataFile(step))
  /\ Goto(0, IF config.uploads = "folder" THEN "b3" ELSE "enqueue2")
  /\ UNCHANGED <<step, iter, previous, doomed, local, remote, crashes, config>>

EnqueueTracker ==
  /\ pc[0] = "enqueue2"
  /\ Uploader!Enqueue(0, TrackerFile)
  /\ Goto(0, "b3")
  /\ UNCHANGED <<step, iter, previous, doomed, local, remote, crashes, config>>

Barrier3 ==
  /\ Everyone("b3")
  /\ pc' = AllAt(Onward(step))
  /\ UNCHANGED <<step, iter, previous, doomed, local, service, remote, crashes, config>>

\* shutdown_uploader(final_wait=True) in the finally block of run_sft.
Shutdown ==
  /\ Everyone("done")
  /\ Uploader!Wait(0, All, FALSE)
  /\ pc' = AllAt("final")
  /\ UNCHANGED <<step, iter, previous, doomed, local, remote, crashes, config>>

Exit ==
  /\ Everyone("final")
  /\ Uploader!Return(0) /\ closed'
  /\ pc' = AllAt("exit")
  /\ UNCHANGED <<step, iter, previous, doomed, local, remote, crashes, config>>

-----------------------------------------------------------------------------
(* The pool of rank 0's uploader.                                          *)

\* _do_copy makes the parent of the destination only, for "hdfs dfs -put" of a
\* directory onto one that is there already puts it inside, under its own name;
\* what is there of an earlier put is overwritten.  One is there when a put that
\* raised is tried again, and when a step is saved once more after a crash.
Arrives(p, content) ==
  LET s == p[2] IN
    remote' = IF p = Folder(s) /\ remote[s].top # "none"
              THEN [remote EXCEPT ![s].nested = content]
              ELSE [remote EXCEPT ![s].top = content]

AllSaved(s) == (\A r \in Ranks : shards[s][r] = "whole") /\ (\A w \in Writers : data[s][w] = "whole")

\* A put that returns has copied what is at the source then, if anything.
UploadOk(id) ==
  LET p == path[id] s == p[2] IN
    /\ Uploader!Settle(id) /\ status'[id] = "ok"
    /\ \/ p = TrackerFile /\ UNCHANGED remote
       \/ p = Folder(s) /\ s \in folders /\ Arrives(p, IF AllSaved(s) THEN "whole" ELSE "part")
       \/ p = DataFile(s) /\ data[s][0] # "none" /\ Arrives(p, "part")
    /\ UNCHANGED <<pc, step, iter, previous, doomed, local, crashes, config>>

\* A put that does not return well may leave a directory that it, or makedirs
\* for the parent of a file, had begun; nothing where its source is gone.
Begun(p) == p # TrackerFile /\ (p = Folder(p[2]) => p[2] \in folders) /\ Arrives(p, "part")

\* It is tried again, or the job dies meanwhile.
PutBreaks(id) ==
  /\ status[id] = "pending" /\ Begun(path[id])
  /\ UNCHANGED <<pc, step, iter, previous, doomed, local, service, crashes, config>>

\* No attempt is left.
UploadFails(id) ==
  /\ Uploader!Settle(id) /\ status'[id] = "failed"
  /\ UNCHANGED remote \/ Begun(path[id])
  /\ UNCHANGED <<pc, step, iter, previous, doomed, local, crashes, config>>

RankStep(r) ==
  Rotate(r) \/ Mkdir(r) \/ OpenShard(r) \/ WriteShard(r) \/ OpenData(r) \/ WriteData(r)

Rank0Step ==
  WaitUploads \/ UploadsDone \/ DeleteFiles \/ DeleteFolder \/ RotationDone \/ WriteTracker
    \/ EnqueueStep \/ EnqueueTracker

Collective == Launch \/ TrainStep \/ Barrier1 \/ Barrier2 \/ Barrier3 \/ Shutdown

Settles(id) == UploadOk(id) \/ UploadFails(id)
Upload(id)  == Settles(id) \/ PutBreaks(id)

Next ==
  \/ Collective \/ Exit \/ Rank0Step \/ Crash
  \/ \E r \in Ranks : RankStep(r)
  \/ \E id \in Uploader!Tasks : Upload(id)

Spec == Init /\ [][Next]_vars

NothingUploaded == \A id \in Uploader!Tasks : status[id] = "none"

\* Ranks are scheduled, uploads end, a dead job is started again; nothing
\* makes it crash.  wait_for_path is fair to return, as EveryUploadSettles of
\* HdfsUploader says it does; wait_for_all may sleep for ever, and is only sure
\* to return where it finds that nothing was ever given to the pool.
Fairness ==
  /\ WF_vars(Collective) /\ WF_vars(Rank0Step) /\ WF_vars(NothingUploaded /\ Exit)
  /\ \A r \in Ranks : WF_vars(RankStep(r))
  /\ \A id \in Uploader!Tasks : WF_vars(Settles(id))

FairSpec == Spec /\ Fairness

-----------------------------------------------------------------------------
(* Properties.                                                             *)

\* The directory that the tracker names can be loaded by every rank, at any time
\* the job may die: the tracker is renamed over the old one after all ranks have
\* written, and rotation does not touch what it names.  (With a single one kept,
\* rotation removes it before the next is there.)
TrackerResumable ==
  tracker # 0 /\ config.keep # 1 =>
    /\ tracker \in folders
    /\ \A r \in Ranks : shards[tracker][r] = "whole"
    /\ \A w \in Writers : data[tracker][w] = "whole"

\* An upload that is queued or being copied reads from the directory of step s.
Reading(s) == \E id \in Uploader!Tasks : status[id] = "pending" /\ Inside(path[id], s)

\* Files that an upload is still to read are not removed or changed: the
\* comment of remove_previous_save_local_path, "Make sure no async HDFS upload
\* is still reading from this directory before we delete it".  It is about the
\* directory: a data.pt that fsdp_sft_trainer enqueued by itself is not waited for.
NothingChangesUnderUploads ==
  [][config.uploads = "folder" => \A s \in Steps : Reading(s) =>
       shards'[s] = shards[s] /\ data'[s] = data[s] /\ (s \in folders => s \in folders')]_vars

\* A directory recorded as copied is on HDFS with all its files, although a put
\* reads the source long after the save and may have been broken off before, in
\* this life of the job or an earlier one: at its destination, or one level below
\* it where an earlier put had left a directory.
Copied(s) == \E id \in Uploader!Tasks : status[id] = "ok" /\ Inside(path[id], s)

RemoteComplete ==
  config.uploads = "folder" =>
    \A s \in Steps : Copied(s) => "whole" \in {remote[s].top, remote[s].nested}

\* It is at the destination: hdfs_io.copy "Works like shutil.copy() for file, and
\* shutil.copytree for dir, and supports hdfs".  It may be below, behind a directory
\* that has only a part of the checkpoint.
CopiedToItsPlace ==
  config.uploads = "folder" => \A s \in Steps : Copied(s) => remote[s].top = "whole"

\* The dataloaders of all ranks are at the step the job is at, after any
\* resume: otherwise ranks train on batches of different steps.  (A job that
\* keeps one checkpoint and dies twice while it replaces it may find the new
\* shards under the old tracker, and no dataloader state.)
DataloadersAgree ==
  config.keep # 1 => \A r \in Ranks : Everyone("train") => iter[r] = step

\* A restarted job goes on from the last save and repeats at most one interval,
\* unless it keeps a single checkpoint.
Job == INSTANCE ResumableTraining WITH saved <- tracker, up <- ~Everyone("down")
ResumesFromLastSave == Job!Init /\ [][config.keep # 1 => Job!Next]_(Job!jvars)

\* Ranks meet at every barrier, rotation does not wait for ever, and the job
\* comes to its end whatever happens to uploads and however often it dies.  With
\* a single checkpoint kept it may instead not come up after a crash; and where
\* anything was uploaded the last wait may sleep on, but only with every upload
\* settled and nothing left to do but to exit.
Overslept == Everyone("final") /\ ~NothingUploaded /\ Uploader!Drained(All)

JobFinishes ==
  <>[](Everyone("exit") \/ (config.keep = 1 /\ Everyone("broken")) \/ Overslept)
=============================================================================
