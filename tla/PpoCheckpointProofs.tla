------------------------- MODULE PpoCheckpointProofs -------------------------
(***************************************************************************)
(* The state of PpoCheckpoint has its type, for every number of steps,     *)
(* restarts and uploads; and, where each role keeps more than one          *)
(* checkpoint and nothing is on HDFS, a restarted job finds all roles'     *)
(* shards under the tracker and goes on from there.  A job that ends has   *)
(* copied the data of its last step to HDFS, unless an upload failed.      *)
(***************************************************************************)
EXTENDS PpoCheckpoint, SequenceTheorems, TLAPS

USE PpoAssumption DEF LastStep, Steps, Empty, Unread, FileState, Uploader!Tasks

-----------------------------------------------------------------------------
(* Types.  A job that had ended makes one step more when it is resumed, so *)
(* how far it gets depends on how often it was restarted.                  *)

Waiting == {"down", "broken", "train", "failing"}

Bound ==
  TotalSteps + crashes - (IF pc \in Waiting \/ step < TotalSteps + crashes THEN 1 ELSE 0)

Within ==
  /\ step <= Bound /\ tracker <= Bound
  /\ \A s \in remoteFolders : s <= Bound
  /\ \A id \in Uploader!Tasks : status[id] = "pending" =>
       path[id] = TrackerFile \/ path[id] \in {"data"} \X (1 .. Bound)

\* A step is being saved.
Saving == {"rotate", "removing", "open", "write", "data", "data_open", "tracker", "tracker_open",
           "enqueue", "enqueue2"}

StepFits == pc \in Saving => step \in Steps

TypeInv == TypeOK /\ Within /\ StepFits

LEMMA RolesAre ==
  /\ Len(Roles) \in {1, 2} /\ DOMAIN Roles = 1 .. Len(Roles)
  /\ \A i \in DOMAIN Roles : Roles[i] \in Role
  /\ \A i, j \in DOMAIN Roles : i # j => Roles[i] # Roles[j]
BY DEF Role

LEMMA TypeInit == Init => TypeInv
<1> SUFFICES ASSUME Init PROVE TypeInv
  OBVIOUS
<1>1. /\ status = [id \in Uploader!Tasks |-> "none"]
      /\ path = [id \in Uploader!Tasks |-> All]
      /\ waiting = [c \in {0} |-> <<>>] /\ closed = FALSE
  BY DEF Init, Uploader!Init
<1>2. TypeOK
  <2>1. /\ status \in [Uploader!Tasks -> {"none", "pending", "ok", "failed"}]
        /\ path \in [Uploader!Tasks -> SourcePaths \cup {All}]
        /\ waiting \in [{0} -> {<<>>, <<All, FALSE>>}] /\ closed \in BOOLEAN
    BY <1>1
  <2>2. /\ previous \in [Role -> Seq(Steps)]
        /\ shards \in [Role -> [Steps -> FileState]]
    BY DEF Init
  <2>3. saving \in DOMAIN Roles
    BY RolesAre DEF Init
  <2>4. /\ hdfs \in HdfsChoices /\ pc = "down" /\ step \in 0 .. LastStep /\ tracker = 0
        /\ data \in [Steps -> FileState] /\ crashes \in 0 .. MaxCrashes
        /\ snapshot \in [Uploader!Tasks -> Steps \cup {0, Empty, Unread}]
        /\ remoteFolders = {} /\ remoteData = {} /\ remoteTracker = 0
    BY DEF Init
  <2> QED
    BY <2>1, <2>2, <2>3, <2>4 DEF TypeOK
<1>3. Within /\ StepFits
  BY <1>1 DEF Init, Within, StepFits, Bound, Waiting, Saving
<1> QED
  BY <1>2, <1>3 DEF TypeInv

\* The uploader of the driver.
ServiceOK ==
  /\ status \in [Uploader!Tasks -> {"none", "pending", "ok", "failed"}]
  /\ path \in [Uploader!Tasks -> SourcePaths \cup {All}]
  /\ waiting \in [{0} -> {<<>>, <<All, FALSE>>}]
  /\ closed \in BOOLEAN

PendingWithin(bound) ==
  \A id \in Uploader!Tasks : status[id] = "pending" =>
    path[id] = TrackerFile \/ path[id] \in {"data"} \X (1 .. bound)

LEMMA ServiceSteps ==
  ASSUME ServiceOK, NEW bound \in Nat, PendingWithin(bound)
  PROVE  /\ \A p \in SourcePaths :
              /\ Uploader!Enqueue(0, p)
              /\ p = TrackerFile \/ p \in {"data"} \X (1 .. bound)
              => ServiceOK' /\ PendingWithin(bound)'
         /\ Uploader!Wait(0, All, FALSE) => ServiceOK' /\ PendingWithin(bound)'
         /\ Uploader!Return(0) => ServiceOK' /\ PendingWithin(bound)'
         /\ \A id \in Uploader!Tasks : Uploader!Settle(id) => ServiceOK' /\ PendingWithin(bound)'
<1>1. ASSUME NEW p \in SourcePaths, Uploader!Enqueue(0, p),
             p = TrackerFile \/ p \in {"data"} \X (1 .. bound)
      PROVE  ServiceOK' /\ PendingWithin(bound)'
  <2>1. PICK id \in Uploader!Tasks :
          /\ status' = [status EXCEPT ![id] = "pending"] /\ path' = [path EXCEPT ![id] = p]
          /\ UNCHANGED <<waiting, closed>>
    BY <1>1 DEF Uploader!Enqueue
  <2>2. ServiceOK'
    BY <2>1 DEF ServiceOK
  <2>3. PendingWithin(bound)'
    BY <1>1, <2>1 DEF ServiceOK, PendingWithin
  <2> QED
    BY <2>2, <2>3
<1>2. ASSUME Uploader!Wait(0, All, FALSE) PROVE ServiceOK' /\ PendingWithin(bound)'
  BY <1>2 DEF ServiceOK, PendingWithin, Uploader!Wait
<1>3. ASSUME Uploader!Return(0) PROVE ServiceOK' /\ PendingWithin(bound)'
  <2>1. closed' \in BOOLEAN
    BY <1>3 DEF ServiceOK, Uploader!Return
  <2> QED
    BY <1>3, <2>1 DEF ServiceOK, PendingWithin, Uploader!Return
<1>4. ASSUME NEW id \in Uploader!Tasks, Uploader!Settle(id)
      PROVE  ServiceOK' /\ PendingWithin(bound)'
  BY <1>4 DEF ServiceOK, PendingWithin, Uploader!Settle
<1> QED
  BY <1>1, <1>2, <1>3, <1>4

LEMMA BoundIsNat ==
  ASSUME TypeOK
  PROVE  Bound \in 0 .. LastStep
BY DEF TypeOK, Bound

LEMMA PathsAreSources ==
  ASSUME NEW s \in Steps, NEW bound \in Nat, s <= bound
  PROVE  /\ DataFile(s) \in SourcePaths /\ TrackerFile \in SourcePaths
         /\ DataFile(s) \in {"data"} \X (1 .. bound)
BY DEF SourcePaths, DataFile, TrackerFile

\* Nothing the bound is about changes but the step, the tracker and the place.
LEMMA StaysWithin ==
  ASSUME TypeInv, UNCHANGED <<status, path, remoteFolders>>,
         Bound' \in Nat, Bound <= Bound', step' <= Bound', tracker' <= Bound'
  PROVE  Within'
<1>1. Bound \in Nat /\ \A s \in remoteFolders : s \in Nat
  <2>1. Bound \in 0 .. LastStep
    BY BoundIsNat DEF TypeInv
  <2>2. remoteFolders \subseteq Steps
    BY DEF TypeInv, TypeOK
  <2> QED
    BY <2>1, <2>2
<1>2. \A s \in remoteFolders' : s <= Bound'
  BY <1>1 DEF TypeInv, Within
<1>3. {"data"} \X (1 .. Bound) \subseteq {"data"} \X (1 .. Bound')
  BY <1>1
<1>4. \A id \in Uploader!Tasks : status'[id] = "pending" =>
        path'[id] = TrackerFile \/ path'[id] \in {"data"} \X (1 .. Bound')
  <2>1. \A id \in Uploader!Tasks : status[id] = "pending" =>
          path[id] = TrackerFile \/ path[id] \in {"data"} \X (1 .. Bound)
    BY DEF TypeInv, Within
  <2> QED
    BY <1>3, <2>1
<1> QED
  BY <1>2, <1>4 DEF Within

\* The steps of a save: rank files, data and tracker.
LEMMA TypeSave ==
  ASSUME TypeInv, \/ Rotate \/ Removed \/ OpenShards \/ WriteShards \/ OpenData \/ WriteData
                  \/ OpenTracker
  PROVE  TypeInv'
<1>1. /\ pc \in Saving /\ pc' \in Saving /\ UNCHANGED <<hdfs, step, crashes, service, remote, snapshot>>
      /\ tracker' \in {tracker, Empty} /\ step \in Steps
  BY DEF Rotate, Removed, OpenShards, WriteShards, OpenData, WriteData, OpenTracker, Saving,
     TypeInv, StepFits, local
<1>2. Within' /\ StepFits'
  <2>1. Bound' = Bound /\ step' <= Bound' /\ tracker' <= Bound' /\ Bound' \in Nat
    BY <1>1, BoundIsNat DEF Bound, Saving, Waiting, TypeInv, TypeOK, Within
  <2> QED
    BY <1>1, <2>1, StaysWithin DEF StepFits, service, remote
<1>3. Current \in Role /\ saving \in 1 .. Len(Roles) /\ Len(Roles) \in {1, 2}
  <2>1. saving \in DOMAIN Roles
    BY DEF TypeInv, TypeOK
  <2> QED
    BY <2>1, RolesAre DEF Current
<1>4. saving' \in 1 .. Len(Roles)
  BY <1>3 DEF Rotate, Removed, OpenShards, WriteShards, OpenData, WriteData, OpenTracker
<1>5. shards' \in [Role -> [Steps -> FileState]]
  <2>1. CASE UNCHANGED shards
    BY <2>1 DEF TypeInv, TypeOK
  <2>2. CASE OpenShards \/ WriteShards
    <3>1. PICK state \in FileState : shards' = [shards EXCEPT ![Current][step] = state]
      BY <2>2 DEF OpenShards, WriteShards
    <3> QED
      BY <1>1, <1>3, <3>1 DEF TypeInv, TypeOK
  <2>3. ASSUME NEW state \in FileState, Wipe(Current, state) PROVE shards' \in [Role -> [Steps -> FileState]]
    <3>1. shards[Current] \in [Steps -> FileState]
      BY <1>3 DEF TypeInv, TypeOK
    <3> DEFINE wiped == [s \in Steps |-> IF s \in Victims(Current) THEN state ELSE shards[Current][s]]
    <3>2. wiped \in [Steps -> FileState]
      BY <2>3, <3>1
    <3>3. shards' = [shards EXCEPT ![Current] = wiped]
      BY <2>3 DEF Wipe
    <3> HIDE DEF wiped
    <3> QED
      BY <1>3, <3>2, <3>3 DEF TypeInv, TypeOK
  <2> QED
    BY <2>1, <2>2, <2>3 DEF Rotate, Removed, OpenData, WriteData, OpenTracker
<1>6. previous' \in [Role -> Seq(Steps)]
  <2>1. CASE UNCHANGED previous
    BY <2>1 DEF TypeInv, TypeOK
  <2>2. CASE Removed
    <3>1. previous[Current] \in Seq(Steps) /\ Surplus(Current) \in Nat
      BY <1>3 DEF Surplus, TypeInv, TypeOK
    <3>2. SubSeq(previous[Current], Surplus(Current) + 1, Len(previous[Current])) \in Seq(Steps)
      BY <3>1
    <3> QED
      BY <1>3, <2>2, <3>2 DEF Removed, TypeInv, TypeOK
  <2>3. CASE WriteShards
    <3>1. Append(previous[Current], step) \in Seq(Steps)
      BY <1>1, <1>3 DEF TypeInv, TypeOK
    <3> QED
      BY <1>3, <2>3, <3>1 DEF WriteShards, TypeInv, TypeOK
  <2> QED
    BY <2>1, <2>2, <2>3 DEF Rotate, OpenShards, OpenData, WriteData, OpenTracker
<1>7. data' \in [Steps -> FileState]
  BY <1>1 DEF Rotate, Removed, OpenShards, WriteShards, OpenData, WriteData, OpenTracker,
     TypeInv, TypeOK
<1>8. TypeOK'
  BY <1>1, <1>4, <1>5, <1>6, <1>7, RolesAre DEF TypeInv, TypeOK, Saving, service, remote
<1> QED
  BY <1>2, <1>8 DEF TypeInv

\* The state apart from the uploader's.
RestOK ==
  /\ hdfs \in HdfsChoices
  /\ pc \in Saving \cup Waiting \cup {"final", "exit"}
  /\ saving \in DOMAIN Roles
  /\ step \in 0 .. LastStep
  /\ previous \in [Role -> Seq(Steps)]
  /\ shards \in [Role -> [Steps -> FileState]]
  /\ data \in [Steps -> FileState]
  /\ tracker \in Steps \cup {0, Empty}
  /\ snapshot \in [Uploader!Tasks -> Steps \cup {0, Empty, Unread}]
  /\ remoteFolders \subseteq Steps /\ remoteData \subseteq remoteFolders
  /\ remoteTracker \in Steps \cup {0, Empty}
  /\ crashes \in 0 .. MaxCrashes

LEMMA TypeParts == TypeOK => RestOK /\ ServiceOK
BY DEF TypeOK, RestOK, ServiceOK, Saving, Waiting

LEMMA TypeOfParts == RestOK' /\ ServiceOK' => TypeOK'
BY DEF TypeOK, RestOK, ServiceOK, Saving, Waiting

\* Where a restarted job resumes is within the bound.
LEMMA ResumesWithin ==
  ASSUME TypeInv
  PROVE  ResumeStep \in 0 .. LastStep /\ ResumeStep <= Bound
<1>1. Bound \in 0 .. LastStep /\ remoteFolders \subseteq Steps /\ tracker \in Steps \cup {0, Empty}
  BY BoundIsNat DEF TypeInv, TypeOK
<1>2. LatestBelow(remoteTracker) \in remoteFolders \cup {0}
  BY DEF LatestBelow
<1>3. tracker <= Bound /\ \A s \in remoteFolders : s <= Bound
  BY DEF TypeInv, Within
<1>4. CASE hdfs
  <2>1. ResumeStep = LatestBelow(remoteTracker)
    BY <1>4 DEF ResumeStep
  <2>2. \A s \in remoteFolders \cup {0} : s \in 0 .. LastStep /\ s <= Bound
    BY <1>1, <1>3
  <2> QED
    BY <1>2, <2>1, <2>2
<1>5. CASE ~hdfs
  BY <1>1, <1>3, <1>5 DEF ResumeStep
<1> QED
  BY <1>4, <1>5

\* The other steps of the driver.
LEMMA TypeDriver ==
  ASSUME TypeInv, \/ Launch \/ TrainStep \/ WriteTracker \/ EnqueueData \/ EnqueueTracker
                  \/ Shutdown \/ Exit
  PROVE  TypeInv'
<1>1. /\ RestOK /\ ServiceOK /\ Within /\ StepFits /\ Bound \in Nat /\ PendingWithin(Bound)
      /\ Bound \in 0 .. LastStep
  BY TypeParts, BoundIsNat DEF TypeInv, Within, PendingWithin
<1>2. CASE Launch
  <2>1. /\ pc = "down" /\ pc' \in {"broken", "train"} /\ step' \in {step, ResumeStep}
        /\ UNCHANGED <<hdfs, saving, local, service, snapshot, remote, crashes>>
    BY <1>2 DEF Launch
  <2>2. step' \in 0 .. LastStep /\ step' <= Bound
    BY <1>1, <2>1, ResumesWithin DEF RestOK, Within
  <2>3. Bound' = Bound /\ tracker' <= Bound'
    BY <1>1, <2>1 DEF Bound, Waiting, Within, local
  <2>4. Within'
    BY <1>1, <2>1, <2>2, <2>3, StaysWithin DEF service, remote
  <2>5. RestOK' /\ ServiceOK' /\ StepFits'
    BY <1>1, <2>1, <2>2 DEF RestOK, ServiceOK, StepFits, Saving, Waiting, local, service, remote
  <2> QED
    BY <2>4, <2>5, TypeOfParts DEF TypeInv
<1>3. CASE TrainStep
  <2>1. /\ pc = "train" /\ step' = step + 1
        /\ \/ pc' = "rotate"
           \/ pc' = "train" /\ step + 1 < TotalSteps
        /\ UNCHANGED <<hdfs, saving, local, service, snapshot, remote, crashes>>
    BY <1>1, <1>3 DEF TrainStep, SaveNow, RestOK
  <2>2. /\ step + 1 \in Steps /\ Bound <= Bound' /\ step' <= Bound' /\ Bound' \in Nat
        /\ tracker' <= Bound'
    BY <1>1, <2>1 DEF Bound, Waiting, Within, RestOK, local
  <2>3. Within'
    BY <2>1, <2>2, StaysWithin DEF service, remote
  <2>4. RestOK' /\ ServiceOK' /\ StepFits'
    <3>1. step' \in Steps /\ step' \in 0 .. LastStep
      BY <2>1, <2>2
    <3> QED
      BY <1>1, <2>1, <3>1 DEF RestOK, ServiceOK, StepFits, Saving, Waiting, local, service, remote
  <2> QED
    BY <2>3, <2>4, TypeOfParts DEF TypeInv
<1>4. CASE WriteTracker
  <2>1. /\ pc = "tracker_open" /\ tracker' = step /\ step \in Steps
        /\ \/ pc' \in {"enqueue", "final"}
           \/ pc' = "train" /\ step < TotalSteps
        /\ UNCHANGED <<hdfs, saving, step, previous, shards, data, service, snapshot, remote, crashes>>
    BY <1>1, <1>4 DEF WriteTracker, Onward, RestOK, StepFits, Saving
  <2>2. Bound' = Bound /\ step' <= Bound'
    BY <1>1, <2>1 DEF Bound, Waiting, Within, RestOK
  <2>3. Within'
    BY <1>1, <2>1, <2>2, StaysWithin DEF service, remote
  <2>4. RestOK' /\ ServiceOK' /\ StepFits'
    BY <1>1, <2>1 DEF RestOK, ServiceOK, StepFits, Saving, Waiting, service, remote
  <2> QED
    BY <2>3, <2>4, TypeOfParts DEF TypeInv
<1>5. CASE EnqueueData
  <2>1. /\ pc = "enqueue" /\ pc' = "enqueue2" /\ step \in Steps
        /\ Uploader!Enqueue(0, DataFile(step))
        /\ UNCHANGED <<hdfs, saving, step, local, snapshot, remote, crashes>>
    BY <1>1, <1>5 DEF EnqueueData, StepFits, Saving
  <2>2. Bound' = Bound /\ step <= Bound
    BY <1>1, <2>1 DEF Bound, Waiting, Within
  <2>3. ServiceOK' /\ PendingWithin(Bound)'
    BY <1>1, <2>1, <2>2, ServiceSteps, PathsAreSources
  <2>4. Within'
    BY <1>1, <2>1, <2>2, <2>3 DEF Within, PendingWithin, local, remote
  <2>5. RestOK' /\ StepFits'
    BY <1>1, <2>1 DEF RestOK, StepFits, Saving, local, remote
  <2> QED
    BY <2>3, <2>4, <2>5, TypeOfParts DEF TypeInv
<1>6. CASE EnqueueTracker
  <2>1. /\ pc = "enqueue2"
        /\ \/ pc' = "final"
           \/ pc' = "train" /\ step < TotalSteps
        /\ Uploader!Enqueue(0, TrackerFile) /\ step \in Steps
        /\ UNCHANGED <<hdfs, saving, step, local, snapshot, remote, crashes>>
    BY <1>1, <1>6 DEF EnqueueTracker, Onward, RestOK, StepFits, Saving
  <2>2. Bound' = Bound
    BY <1>1, <2>1 DEF Bound, Waiting, RestOK
  <2>3. ServiceOK' /\ PendingWithin(Bound)'
    <3>1. TrackerFile \in SourcePaths
      BY DEF SourcePaths
    <3> QED
      BY <1>1, <2>1, <2>2, <3>1, ServiceSteps
  <2>4. Within'
    BY <1>1, <2>1, <2>2, <2>3 DEF Within, PendingWithin, local, remote
  <2>5. RestOK' /\ StepFits'
    BY <1>1, <2>1 DEF RestOK, StepFits, Saving, Waiting, local, remote
  <2> QED
    BY <2>3, <2>4, <2>5, TypeOfParts DEF TypeInv
<1>7. CASE Shutdown \/ Exit
  <2>1. /\ pc = "final" /\ pc' \in {"final", "exit"}
        /\ Uploader!Wait(0, All, FALSE) \/ Uploader!Return(0)
        /\ UNCHANGED <<hdfs, saving, step, local, snapshot, remote, crashes>>
    BY <1>7 DEF Shutdown, Exit
  <2>2. Bound' = Bound
    BY <2>1 DEF Bound, Waiting
  <2>3. ServiceOK' /\ PendingWithin(Bound)'
    BY <1>1, <2>1, <2>2, ServiceSteps
  <2>4. Within'
    BY <1>1, <2>1, <2>2, <2>3 DEF Within, PendingWithin, local, remote
  <2>5. RestOK' /\ StepFits'
    BY <1>1, <2>1 DEF RestOK, StepFits, Saving, local, remote
  <2> QED
    BY <2>3, <2>4, <2>5, TypeOfParts DEF TypeInv
<1> QED
  BY <1>2, <1>3, <1>4, <1>5, <1>6, <1>7

\* The job dies, or a worker fails and the driver waits for its uploads.
LEMMA TypeDies ==
  ASSUME TypeInv, Crash \/ WorkerFails \/ Fail
  PROVE  TypeInv'
<1>1. /\ RestOK /\ ServiceOK /\ Within /\ Bound \in Nat /\ PendingWithin(Bound)
  BY TypeParts, BoundIsNat DEF TypeInv, Within, PendingWithin
<1>2. CASE Crash \/ Fail
  <2>1. /\ Forget /\ pc # "down" /\ crashes' \in 0 .. MaxCrashes
        /\ \/ crashes' = crashes + 1
           \/ crashes' = crashes /\ pc = "failing"
    BY <1>1, <1>2 DEF Crash, Fail, RestOK
  <2>2. ServiceOK' /\ PendingWithin(Bound)'
    BY <2>1 DEF Forget, ServiceOK, PendingWithin
  <2>3. RestOK'
    BY <1>1, <2>1, RolesAre DEF Forget, RestOK, Waiting, remote
  <2>4. Bound <= Bound' /\ Bound' \in Nat
    <3>1. /\ pc' = "down" /\ step' = step /\ step \in Nat /\ crashes \in Nat
          /\ TotalSteps \in Nat \ {0}
      BY <1>1, <2>1 DEF Forget, RestOK
    <3>2. CASE crashes' = crashes + 1
      BY <3>1, <3>2 DEF Bound, Waiting
    <3>3. CASE crashes' = crashes /\ pc = "failing"
      BY <3>1, <3>3 DEF Bound, Waiting
    <3> QED
      BY <2>1, <3>2, <3>3
  <2>5. \A s \in remoteFolders : s \in Nat
    BY <1>1 DEF RestOK
  <2>6. Within' /\ StepFits'
    BY <1>1, <2>1, <2>2, <2>4, <2>5 DEF Forget, Within, RestOK, PendingWithin, StepFits, Saving, remote
  <2> QED
    BY <2>2, <2>3, <2>6, TypeOfParts DEF TypeInv
<1>3. CASE WorkerFails
  <2>1. /\ Uploader!Wait(0, All, FALSE) /\ pc' = "failing" /\ crashes' = crashes + 1
        /\ crashes < MaxCrashes
        /\ UNCHANGED <<hdfs, saving, step, local, snapshot, remote>>
    BY <1>3 DEF WorkerFails
  <2>2. ServiceOK' /\ UNCHANGED <<status, path>>
    BY <1>1, <2>1, ServiceSteps DEF Uploader!Wait
  <2>3. Bound <= Bound' /\ Bound' \in Nat
    BY <1>1, <2>1 DEF Bound, Waiting, RestOK
  <2>4. step' <= Bound' /\ tracker' <= Bound'
    BY <1>1, <2>1, <2>3 DEF Within, RestOK, local
  <2>5. Within'
    BY <2>1, <2>2, <2>3, <2>4, StaysWithin DEF remote
  <2>6. RestOK' /\ StepFits'
    BY <1>1, <2>1 DEF RestOK, StepFits, Saving, Waiting, local, remote
  <2> QED
    BY <2>2, <2>5, <2>6, TypeOfParts DEF TypeInv
<1> QED
  BY <1>2, <1>3

\* An upload runs, ends or fails.
LEMMA TypeUpload ==
  ASSUME TypeInv, NEW id \in Uploader!Tasks, Upload(id)
  PROVE  TypeInv'
<1>1. /\ RestOK /\ ServiceOK /\ Within /\ StepFits /\ Bound \in Nat /\ PendingWithin(Bound)
  BY TypeParts, BoundIsNat DEF TypeInv, Within, PendingWithin
<1>2. /\ UNCHANGED <<hdfs, pc, saving, step, local, crashes>>
      /\ UNCHANGED service \/ Uploader!Settle(id)
  BY DEF Upload, ReadTracker, UploadedTracker, MakeFolder, UploadedData, UploadFails
<1>3. Bound' = Bound
  BY <1>2 DEF Bound
<1>4. ServiceOK' /\ PendingWithin(Bound)'
  <2>1. CASE UNCHANGED service
    BY <1>1, <1>3, <2>1 DEF ServiceOK, PendingWithin, service
  <2>2. CASE Uploader!Settle(id)
    BY <1>1, <1>3, <2>2, ServiceSteps
  <2> QED
    BY <1>2, <2>1, <2>2
<1>5. /\ snapshot' \in [Uploader!Tasks -> Steps \cup {0, Empty, Unread}]
      /\ remoteTracker' \in Steps \cup {0, Empty}
  BY <1>1 DEF Upload, ReadTracker, UploadedTracker, MakeFolder, UploadedData, UploadFails, RestOK, remote
<1>6. ASSUME status[id] = "pending", path[id] # TrackerFile
      PROVE  path[id][2] \in Steps /\ path[id][2] <= Bound
  <2>1. path[id] \in {"data"} \X (1 .. Bound) /\ Bound \in 0 .. LastStep
    BY <1>1, <1>6, TypeParts, BoundIsNat DEF PendingWithin, TypeInv
  <2> QED
    BY <2>1
<1>7. /\ remoteFolders' \subseteq Steps /\ remoteData' \subseteq remoteFolders'
      /\ \A s \in remoteFolders' : s <= Bound
  <2>1. CASE UNCHANGED <<remoteFolders, remoteData>>
    BY <1>1, <2>1 DEF RestOK, Within
  <2>2. CASE ~UNCHANGED <<remoteFolders, remoteData>>
    <3>1. /\ status[id] = "pending" /\ path[id] # TrackerFile
          /\ remoteFolders' \in {remoteFolders, remoteFolders \cup {path[id][2]}}
          /\ remoteData' \in {remoteData, remoteData \cup ({path[id][2]} \cap remoteFolders)}
      BY <2>2 DEF Upload, ReadTracker, UploadedTracker, MakeFolder, UploadedData, UploadFails, remote,
         Uploader!Settle
    <3> QED
      BY <1>1, <1>6, <3>1 DEF RestOK, Within
  <2> QED
    BY <2>1, <2>2
<1>8. RestOK'
  BY <1>1, <1>2, <1>5, <1>7 DEF RestOK, local
<1>9. Within' /\ StepFits'
  BY <1>1, <1>2, <1>3, <1>4, <1>7 DEF Within, PendingWithin, StepFits, local
<1> QED
  BY <1>4, <1>8, <1>9, TypeOfParts DEF TypeInv

LEMMA TypeStep == TypeInv /\ [Next]_vars => TypeInv'
<1>1. ASSUME TypeInv, UNCHANGED vars PROVE TypeInv'
  BY <1>1 DEF vars, local, service, remote, TypeInv, TypeOK, Within, StepFits, Bound
<1> QED
  BY <1>1, TypeSave, TypeDriver, TypeDies, TypeUpload DEF Next, Driver

\* The state always has its type: in particular a job never gets past TotalSteps by
\* more steps than it was restarted.
THEOREM TypeCorrect == Spec => []TypeOK
<1>1. TypeInv => TypeOK
  BY DEF TypeInv
<1> QED
  BY <1>1, TypeInit, TypeStep, PTL DEF Spec

-----------------------------------------------------------------------------
(* Without HDFS, the tracker names a checkpoint that can be loaded.        *)

\* Role i has saved its files of this step.
Done(i) ==
  \/ pc \in {"data", "data_open", "tracker", "tracker_open"}
  \/ pc \in {"rotate", "removing", "open", "write"} /\ i < saving

\* What role i keeps: the newest is what the tracker names, or the step it has saved.
KeptBy(i, kept) ==
  /\ pc \in {"down", "broken"} => kept = <<>>
  /\ \A j \in 1 .. Len(kept) - 1 : kept[j] < kept[Len(kept)]
  /\ Done(i) => kept # <<>> /\ kept[Len(kept)] = step
  /\ ~Done(i) /\ kept # <<>> => kept[Len(kept)] = tracker

Kept == pc # "failing" => \A i \in DOMAIN Roles : KeptBy(i, previous[Roles[i]])

\* The tracker is behind the step until the driver writes it.
Order ==
  /\ pc \notin {"down", "broken", "tracker_open"} => tracker # Empty
  /\ pc = "train" => tracker <= step
  /\ pc \in Saving /\ pc # "tracker_open" => tracker < step
  /\ pc \notin {"enqueue", "enqueue2"}
  /\ pc \notin {"rotate", "removing", "open", "write", "failing"} => saving = 1

\* The files of the step, as far as the save has come.
Written ==
  /\ \A i \in DOMAIN Roles : Done(i) => shards[Roles[i]][step] = "whole"
  /\ pc \in {"tracker", "tracker_open"} => data[step] = "whole"

SaveInv == ~hdfs => Kept /\ Order /\ Written

Inv == TypeInv /\ SaveInv /\ LocalResumable

\* No role keeps a single checkpoint.
KeepsTwo == \A r \in Role : Keep[r] # 1

LEMMA SaveInit == Init => SaveInv /\ LocalResumable
<1> SUFFICES ASSUME Init PROVE SaveInv /\ LocalResumable
  OBVIOUS
<1>1. pc = "down" /\ saving = 1 /\ tracker = 0 /\ \A r \in Role : previous[r] = <<>>
  BY DEF Init
<1>2. Kept
  BY <1>1, RolesAre DEF Kept, KeptBy, Done
<1>3. Order /\ Written /\ LocalResumable
  BY <1>1 DEF Order, Written, Done, LocalResumable, Saving
<1> QED
  BY <1>2, <1>3 DEF SaveInv

\* Taking the oldest off a list leaves the newest.
LEMMA CutOff ==
  ASSUME NEW kept \in Seq(Steps), NEW n \in 0 .. Len(kept), n = 0 \/ n < Len(kept),
         NEW cut, cut = SubSeq(kept, n + 1, Len(kept))
  PROVE  /\ cut = <<>> <=> kept = <<>>
         /\ cut # <<>> => cut[Len(cut)] = kept[Len(kept)]
         /\ (\A j \in 1 .. Len(kept) - 1 : kept[j] < kept[Len(kept)]) =>
              \A j \in 1 .. Len(cut) - 1 : cut[j] < cut[Len(cut)]
<1>1. /\ Len(kept) \in Nat /\ cut \in Seq(Steps) /\ Len(cut) = Len(kept) - n
      /\ \A j \in 1 .. Len(cut) : cut[j] = kept[j + n]
  OBVIOUS
<1>2. cut = <<>> <=> kept = <<>>
  <2>1. (cut = <<>> <=> Len(cut) = 0) /\ (kept = <<>> <=> Len(kept) = 0)
    BY <1>1, EmptySeq
  <2> QED
    BY <1>1, <2>1
<1>3. cut # <<>> => cut[Len(cut)] = kept[Len(kept)]
  <2>1. SUFFICES ASSUME cut # <<>> PROVE cut[Len(cut)] = kept[Len(kept)]
    OBVIOUS
  <2>2. Len(cut) \in 1 .. Len(cut) /\ Len(cut) + n = Len(kept)
    BY <1>1, <2>1
  <2> QED
    BY <1>1, <2>2
<1>4. ASSUME \A j \in 1 .. Len(kept) - 1 : kept[j] < kept[Len(kept)],
             NEW j \in 1 .. Len(cut) - 1
      PROVE  cut[j] < cut[Len(cut)]
  <2>1. j \in 1 .. Len(cut) /\ j + n \in 1 .. Len(kept) - 1 /\ Len(cut) # 0
    BY <1>1
  <2>2. cut # <<>>
    BY <1>1, <2>1, EmptySeq
  <2> QED
    BY <1>1, <1>3, <1>4, <2>1, <2>2
<1> QED
  BY <1>2, <1>3, <1>4

LEMMA SurplusIs ==
  ASSUME TypeOK, KeepsTwo, NEW r \in Role
  PROVE  /\ previous[r] \in Seq(Steps)
         /\ Surplus(r) \in 0 .. Len(previous[r])
         /\ Surplus(r) = 0 \/ Surplus(r) < Len(previous[r])
<1>1. previous[r] \in Seq(Steps) /\ Len(previous[r]) \in Nat /\ Keep[r] \in Nat /\ Keep[r] # 1
  BY DEF TypeOK, KeepsTwo
<1> QED
  BY <1>1 DEF Surplus

\* Rotation spares what the tracker names and what is being saved.
LEMMA WipeSpares ==
  ASSUME Inv, ~hdfs, KeepsTwo, pc \in {"rotate", "removing"}, NEW state, Wipe(Current, state)
  PROVE  /\ \A s \in Steps : s = tracker \/ s = step =>
              \A r \in Role : shards'[r][s] = shards[r][s]
<1>1. Current \in Role /\ saving \in DOMAIN Roles /\ TypeOK /\ Order /\ Kept /\ step \in Steps
  BY RolesAre DEF Current, Inv, TypeInv, TypeOK, SaveInv, StepFits, Saving
<1> DEFINE kept == previous[Current]
<1>2. /\ kept \in Seq(Steps) /\ Len(kept) \in Nat
      /\ Surplus(Current) \in 0 .. Len(kept)
      /\ Surplus(Current) = 0 \/ Surplus(Current) < Len(kept)
  BY <1>1, SurplusIs
<1>3. /\ \A j \in 1 .. Len(kept) - 1 : kept[j] < kept[Len(kept)]
      /\ kept # <<>> => kept[Len(kept)] = tracker
  <2>1. ~Done(saving)
    <3>1. saving \in Nat
      BY <1>1, RolesAre
    <3> QED
      BY <3>1 DEF Done
  <2>2. KeptBy(saving, kept)
    BY <1>1 DEF Kept, Current
  <2> QED
    BY <2>1, <2>2 DEF KeptBy
<1>4. tracker < step
  BY <1>1 DEF Order, Saving
<1>5. ASSUME NEW s \in Steps, s = tracker \/ s = step PROVE s \notin Victims(Current)
  <2>1. ASSUME NEW j \in 1 .. Surplus(Current) PROVE kept[j] < tracker /\ kept[j] \in Steps
    <3>1. j \in 1 .. Len(kept) - 1 /\ kept # <<>> /\ j \in 1 .. Len(kept)
      BY <1>2, <2>1
    <3> QED
      BY <1>2, <1>3, <3>1
  <2>2. \A j \in 1 .. Surplus(Current) : kept[j] # s
    <3>1. tracker \in Int
      BY <1>1 DEF TypeOK
    <3> QED
      BY <1>1, <1>4, <1>5, <2>1, <3>1
  <2> QED
    BY <2>2 DEF Victims
<1>6. ASSUME NEW s \in Steps, s = tracker \/ s = step, NEW r \in Role
      PROVE  shards'[r][s] = shards[r][s]
  <2>1. s \notin Victims(Current)
    BY <1>5, <1>6
  <2> QED
    BY <1>1, <2>1 DEF Wipe, TypeOK
<1> QED
  BY <1>6

\* The last of a list that was appended to.
LEMMA LastAppended ==
  \A kept \in Seq(Steps), s \in Steps :
    /\ Len(Append(kept, s)) = Len(kept) + 1 /\ Append(kept, s)[Len(kept) + 1] = s
    /\ \A j \in 1 .. Len(kept) : Append(kept, s)[j] = kept[j]
    /\ Append(kept, s) # <<>>
<1>1. SUFFICES ASSUME NEW kept \in Seq(Steps), NEW s \in Steps
      PROVE  /\ Len(Append(kept, s)) = Len(kept) + 1 /\ Append(kept, s)[Len(kept) + 1] = s
             /\ \A j \in 1 .. Len(kept) : Append(kept, s)[j] = kept[j]
             /\ Append(kept, s) # <<>>
  OBVIOUS
<1> QED
  BY AppendProperties

\* What every step of a save starts from.
LEMMA SavingFacts ==
  ASSUME Inv, ~hdfs, pc \in Saving
  PROVE  /\ Kept /\ Order /\ Written /\ step \in Steps /\ tracker \in Steps \cup {0, Empty}
         /\ saving \in DOMAIN Roles /\ saving \in Nat /\ Current \in Role
         /\ \A i \in DOMAIN Roles : i \in Nat /\ previous[Roles[i]] \in Seq(Steps)
         /\ previous \in [Role -> Seq(Steps)]
         /\ shards \in [Role -> [Steps -> FileState]] /\ data \in [Steps -> FileState]
<1>1. /\ saving \in DOMAIN Roles /\ \A r \in Role : previous[r] \in Seq(Steps)
      /\ previous \in [Role -> Seq(Steps)] /\ tracker \in Steps \cup {0, Empty}
      /\ shards \in [Role -> [Steps -> FileState]] /\ data \in [Steps -> FileState]
  BY DEF Inv, TypeInv, TypeOK
<1>2. /\ saving \in Nat /\ Current \in Role
      /\ \A i \in DOMAIN Roles : i \in Nat /\ Roles[i] \in Role
  BY <1>1, RolesAre DEF Current
<1> QED
  BY <1>1, <1>2 DEF Inv, SaveInv, TypeInv, StepFits

\* A worker group saves: its rotation, and its files.
LEMMA SaveWorkers ==
  ASSUME Inv, KeepsTwo, ~hdfs, Rotate \/ Removed \/ OpenShards \/ WriteShards
  PROVE  Kept' /\ Order' /\ Written' /\ LocalResumable'
<1>1. /\ pc \in Saving /\ pc \in {"rotate", "removing", "open", "write"}
      /\ UNCHANGED <<hdfs, step, data, tracker>>
  BY DEF Rotate, Removed, OpenShards, WriteShards, Saving
<1>2. /\ Kept /\ Order /\ Written /\ LocalResumable /\ step \in Steps
      /\ tracker \in Steps \cup {0, Empty} /\ tracker < step
      /\ saving \in DOMAIN Roles /\ saving \in Nat /\ Current \in Role
      /\ \A i \in DOMAIN Roles : i \in Nat /\ previous[Roles[i]] \in Seq(Steps)
      /\ previous \in [Role -> Seq(Steps)]
      /\ shards \in [Role -> [Steps -> FileState]]
  BY <1>1, SavingFacts DEF Inv, Order
<1>3. CASE Rotate
  <2>1. pc = "rotate" /\ pc' = "removing" /\ UNCHANGED <<previous, saving>> /\ Wipe(Current, "torn")
    BY <1>3 DEF Rotate
  <2>2. Kept' /\ Order'
    BY <1>1, <1>2, <2>1 DEF Kept, KeptBy, Done, Order, Saving
  <2>3. \A s \in Steps : s = tracker \/ s = step => \A r \in Role : shards'[r][s] = shards[r][s]
    BY <1>1, <2>1, WipeSpares
  <2>4. Written' /\ LocalResumable'
    BY <1>1, <1>2, <2>1, <2>3, RolesAre DEF Written, Done, LocalResumable
  <2> QED
    BY <2>2, <2>4
<1>4. CASE Removed
  <2>1. /\ pc = "removing" /\ pc' = "open" /\ UNCHANGED saving /\ Wipe(Current, "none")
        /\ previous' = [previous EXCEPT ![Current] =
                          SubSeq(@, Surplus(Current) + 1, Len(@))]
    BY <1>4 DEF Removed
  <2>2. ASSUME NEW i \in DOMAIN Roles PROVE KeptBy(i, previous[Roles[i]])'
    <3>1. /\ KeptBy(i, previous[Roles[i]]) /\ Done(i)' = Done(i) /\ Roles[i] \in Role
          /\ pc' \notin {"down", "broken"}
      BY <1>1, <1>2, <2>1, <2>2, RolesAre DEF Kept, Done
    <3>2. CASE i # saving
      <4>1. previous'[Roles[i]] = previous[Roles[i]]
        BY <1>2, <2>1, <3>1, <3>2, RolesAre DEF Current
      <4> QED
        BY <1>1, <3>1, <4>1 DEF KeptBy
    <3>3. CASE i = saving
      <4> DEFINE kept == previous[Current]
                 cut  == SubSeq(kept, Surplus(Current) + 1, Len(kept))
      <4>1. previous'[Roles[i]] = cut /\ kept = previous[Roles[i]]
        BY <1>2, <2>1, <3>3 DEF Current
      <4>2. /\ kept \in Seq(Steps) /\ Surplus(Current) \in 0 .. Len(kept)
            /\ Surplus(Current) = 0 \/ Surplus(Current) < Len(kept)
        BY <1>2, SurplusIs DEF Inv, TypeInv
      <4>3. /\ cut = <<>> <=> kept = <<>>
            /\ cut # <<>> => cut[Len(cut)] = kept[Len(kept)]
            /\ (\A j \in 1 .. Len(kept) - 1 : kept[j] < kept[Len(kept)]) =>
                  \A j \in 1 .. Len(cut) - 1 : cut[j] < cut[Len(cut)]
        BY <4>2, CutOff
      <4> HIDE DEF cut, kept
      <4> QED
        BY <1>1, <3>1, <4>1, <4>3 DEF KeptBy
    <3> QED
      BY <3>2, <3>3
  <2>3. Kept' /\ Order'
    BY <1>1, <1>2, <2>1, <2>2 DEF Kept, Order, Saving
  <2>4. \A s \in Steps : s = tracker \/ s = step => \A r \in Role : shards'[r][s] = shards[r][s]
    BY <1>1, <2>1, WipeSpares
  <2>5. Written' /\ LocalResumable'
    BY <1>1, <1>2, <2>1, <2>4, RolesAre DEF Written, Done, LocalResumable
  <2> QED
    BY <2>3, <2>5
<1>5. CASE OpenShards
  <2>1. /\ pc = "open" /\ pc' = "write" /\ UNCHANGED <<previous, saving>>
        /\ shards' = [shards EXCEPT ![Current][step] = "torn"]
    BY <1>5 DEF OpenShards
  <2>2. Kept' /\ Order'
    BY <1>1, <1>2, <2>1 DEF Kept, KeptBy, Done, Order, Saving
  <2>3. \A r \in Role, s \in Steps : r # Current \/ s # step => shards'[r][s] = shards[r][s]
    BY <1>2, <2>1
  <2>4. Written' /\ LocalResumable'
    BY <1>1, <1>2, <2>1, <2>3, RolesAre DEF Written, Done, LocalResumable, Current
  <2> QED
    BY <2>2, <2>4
<1>6. CASE WriteShards
  <2>1. /\ pc = "write"
        /\ \/ saving = Len(Roles) /\ pc' = "data" /\ saving' = 1
           \/ saving # Len(Roles) /\ pc' = "rotate" /\ saving' = saving + 1
        /\ shards' = [shards EXCEPT ![Current][step] = "whole"]
        /\ previous' = [previous EXCEPT ![Current] = Append(@, step)]
    BY <1>6 DEF WriteShards
  <2>2. /\ shards'[Current][step] = "whole"
        /\ \A r \in Role, s \in Steps : r # Current \/ s # step => shards'[r][s] = shards[r][s]
    BY <1>2, <2>1
  <2>3. ASSUME NEW i \in DOMAIN Roles PROVE Done(i)' <=> Done(i) \/ i = saving
    <3>1. i \in 1 .. Len(Roles) /\ saving \in 1 .. Len(Roles) /\ Len(Roles) \in Nat
      BY <1>2, <2>3, RolesAre
    <3>2. CASE saving = Len(Roles)
      BY <2>1, <3>1, <3>2 DEF Done
    <3>3. CASE saving # Len(Roles)
      BY <2>1, <3>1, <3>3 DEF Done
    <3> QED
      BY <3>2, <3>3
  <2>4. ASSUME NEW i \in DOMAIN Roles PROVE KeptBy(i, previous[Roles[i]])'
    <3>1. /\ KeptBy(i, previous[Roles[i]]) /\ Roles[i] \in Role /\ pc' \notin {"down", "broken"}
      BY <1>1, <1>2, <2>1, <2>4, RolesAre DEF Kept
    <3>2. CASE i # saving
      <4>1. previous'[Roles[i]] = previous[Roles[i]] /\ (Done(i)' <=> Done(i))
        BY <1>2, <2>1, <2>3, <3>1, <3>2, RolesAre DEF Current
      <4> QED
        BY <1>1, <3>1, <4>1 DEF KeptBy
    <3>3. CASE i = saving
      <4> DEFINE kept == previous[Current]
      <4>1. previous'[Roles[i]] = Append(kept, step) /\ kept = previous[Roles[i]] /\ Done(i)'
        <5>1. Roles[i] = Current /\ Done(i)'
          BY <2>3, <3>3 DEF Current
        <5> QED
          BY <1>2, <2>1, <5>1
      <4>2. kept \in Seq(Steps) /\ Len(kept) \in Nat /\ ~Done(i)
        <5>1. kept \in Seq(Steps)
          BY <1>2
        <5>2. ~Done(i)
          BY <1>2, <2>1, <3>3 DEF Done
        <5> QED
          BY <5>1, <5>2
      <4> HIDE DEF kept
      <4>3. ASSUME NEW j \in 1 .. Len(kept) PROVE kept[j] < step
        <5>1. kept # <<>> /\ kept[Len(kept)] = tracker
          BY <3>1, <4>1, <4>2, EmptySeq DEF KeptBy
        <5>2. CASE j = Len(kept)
          BY <1>2, <5>1, <5>2
        <5>3. CASE j # Len(kept)
          <6>1. j \in 1 .. Len(kept) - 1 /\ kept[j] \in Steps
            BY <4>2, <4>3, <5>3
          <6> QED
            BY <1>2, <3>1, <4>1, <5>1, <6>1 DEF KeptBy
        <5> QED
          BY <5>2, <5>3
      <4>4. /\ Len(Append(kept, step)) = Len(kept) + 1 /\ Append(kept, step)[Len(kept) + 1] = step
            /\ \A j \in 1 .. Len(kept) : Append(kept, step)[j] = kept[j]
            /\ Append(kept, step) # <<>>
        <5>1. step \in Steps
          BY <1>2
        <5> QED
          BY <4>2, <5>1, LastAppended
      <4> QED
        BY <1>1, <3>1, <4>1, <4>2, <4>3, <4>4 DEF KeptBy
    <3> QED
      BY <3>2, <3>3
  <2>5. Kept' /\ Order'
    BY <1>1, <1>2, <2>1, <2>4 DEF Kept, Order, Saving
  <2>6. Written'
    BY <1>1, <1>2, <2>1, <2>2, <2>3, RolesAre DEF Written, Current
  <2>7. LocalResumable'
    BY <1>1, <1>2, <2>2 DEF LocalResumable
  <2> QED
    BY <2>5, <2>6, <2>7
<1> QED
  BY <1>3, <1>4, <1>5, <1>6

\* The driver's own part of a save.
LEMMA SaveDriver ==
  ASSUME Inv, ~hdfs, OpenData \/ WriteData \/ OpenTracker \/ WriteTracker
  PROVE  Kept' /\ Order' /\ Written' /\ LocalResumable'
<1>1. /\ pc \in {"data", "data_open", "tracker", "tracker_open"} /\ pc \in Saving
      /\ UNCHANGED <<hdfs, step, previous, saving, shards>>
  BY DEF OpenData, WriteData, OpenTracker, WriteTracker, Saving
<1>2. /\ Kept /\ Order /\ Written /\ LocalResumable /\ step \in Steps /\ saving = 1
      /\ tracker \in Steps \cup {0, Empty} /\ data \in [Steps -> FileState]
      /\ \A i \in DOMAIN Roles : i \in Nat /\ shards[Roles[i]][step] = "whole"
  BY <1>1, SavingFacts DEF Inv, Order, Written, Done
<1>3. \A r \in Role : shards[r][step] = "whole"
  BY <1>2 DEF Role
<1>4. CASE OpenData \/ WriteData
  <2>1. /\ pc \in {"data", "data_open"} /\ pc' \in {"data_open", "tracker"} /\ UNCHANGED tracker
        /\ \E state \in FileState :
             data' = [data EXCEPT ![step] = state] /\ (pc' = "tracker" => state = "whole")
    BY <1>4 DEF OpenData, WriteData
  <2>2. tracker < step
    BY <1>1, <1>2, <2>1 DEF Order
  <2>3. Kept' /\ Order'
    BY <1>1, <1>2, <2>1, <2>2 DEF Kept, KeptBy, Done, Order, Saving
  <2>4. Written'
    BY <1>1, <1>2, <2>1 DEF Written, Done
  <2>5. \A s \in Steps : s # step => data'[s] = data[s]
    BY <1>2, <2>1
  <2>6. LocalResumable'
    BY <1>1, <1>2, <2>1, <2>2, <2>5 DEF LocalResumable
  <2> QED
    BY <2>3, <2>4, <2>6
<1>5. CASE OpenTracker
  <2>1. pc = "tracker" /\ pc' = "tracker_open" /\ tracker' = Empty /\ UNCHANGED data
    BY <1>5 DEF OpenTracker
  <2>2. Kept' /\ Order' /\ Written'
    BY <1>1, <1>2, <2>1 DEF Kept, KeptBy, Done, Order, Written, Saving
  <2> QED
    BY <2>1, <2>2 DEF LocalResumable
<1>6. CASE WriteTracker
  <2>1. /\ pc = "tracker_open" /\ tracker' = step /\ UNCHANGED data
        /\ pc' \in {"train", "final"}
    BY <1>6 DEF WriteTracker, Onward
  <2>2. \A i \in DOMAIN Roles : Done(i) /\ ~Done(i)'
    BY <2>1 DEF Done
  <2>3. Kept'
    BY <1>1, <1>2, <2>1, <2>2 DEF Kept, KeptBy
  <2>4. Order' /\ Written'
    BY <1>1, <1>2, <2>1, <2>2 DEF Order, Written, Saving
  <2>5. data[step] = "whole"
    BY <1>2, <2>1 DEF Written
  <2> QED
    BY <1>1, <1>3, <2>1, <2>3, <2>4, <2>5 DEF LocalResumable
<1> QED
  BY <1>4, <1>5, <1>6

\* The job starts, trains, dies or ends, and uploads run.
LEMMA SaveOthers ==
  ASSUME Inv, ~hdfs, \/ Launch \/ TrainStep \/ EnqueueData \/ EnqueueTracker \/ Shutdown \/ Exit
                     \/ Crash \/ WorkerFails \/ Fail \/ UNCHANGED vars
                     \/ \E id \in Uploader!Tasks : Upload(id)
  PROVE  Kept' /\ Order' /\ Written' /\ LocalResumable'
<1>1. /\ Kept /\ Order /\ Written /\ LocalResumable /\ UNCHANGED <<shards, data, tracker>>
      /\ hdfs' = hdfs
  BY DEF Inv, SaveInv, Launch, TrainStep, EnqueueData, EnqueueTracker, Shutdown, Exit, Crash,
     WorkerFails, Fail, Forget, Upload, ReadTracker, UploadedTracker, MakeFolder, UploadedData, UploadFails,
     vars, local
<1>2. LocalResumable'
  BY <1>1 DEF LocalResumable
<1>3. step \in 0 .. LastStep /\ tracker \in Steps \cup {0, Empty} /\ DOMAIN Roles \subseteq Nat
  BY RolesAre DEF Inv, TypeInv, TypeOK
<1>4. CASE Launch
  <2>1. /\ pc = "down" /\ UNCHANGED <<saving, previous>>
        /\ \/ pc' = "broken"
           \/ pc' = "train" /\ tracker # Empty /\ step' = ResumeStep
    BY <1>4 DEF Launch, Unloadable, local, Inv
  <2>2. tracker # Empty => ResumeStep = tracker
    BY <1>1, <1>3 DEF ResumeStep, Present, LocalResumable
  <2>3. \A i \in DOMAIN Roles : ~Done(i)' /\ previous[Roles[i]] = <<>>
    BY <1>1, <2>1 DEF Done, Kept, KeptBy
  <2>4. Kept'
    BY <2>1, <2>3 DEF Kept, KeptBy
  <2>5. Order' /\ Written'
    BY <1>1, <1>3, <2>1, <2>2, <2>3 DEF Order, Written, Saving
  <2> QED
    BY <1>2, <2>4, <2>5
<1>5. CASE TrainStep
  <2>1. /\ pc = "train" /\ step' = step + 1 /\ UNCHANGED <<saving, previous>>
        /\ pc' \in {"rotate", "train"} /\ saving = 1
    BY <1>1, <1>5 DEF TrainStep, local, Order
  <2>2. \A i \in DOMAIN Roles : ~Done(i) /\ ~Done(i)'
    BY <2>1, RolesAre DEF Done
  <2>3. Kept'
    BY <1>1, <2>1, <2>2 DEF Kept, KeptBy
  <2>4. Order' /\ Written'
    BY <1>1, <1>3, <2>1, <2>2 DEF Order, Written, Saving
  <2> QED
    BY <1>2, <2>3, <2>4
<1>6. CASE EnqueueData \/ EnqueueTracker
  BY <1>1, <1>6 DEF EnqueueData, EnqueueTracker, Order
<1>7. CASE Shutdown \/ Exit
  <2>1. pc = "final" /\ pc' \in {"final", "exit"} /\ UNCHANGED <<saving, previous, step>>
    BY <1>7 DEF Shutdown, Exit, local
  <2>2. Kept' /\ Order' /\ Written'
    BY <1>1, <2>1 DEF Kept, KeptBy, Done, Order, Written, Saving
  <2> QED
    BY <1>2, <2>2
<1>8. CASE Crash \/ Fail
  <2>1. pc' = "down" /\ saving' = 1 /\ previous' = [r \in Role |-> <<>>]
    BY <1>8 DEF Crash, Fail, Forget
  <2>2. \A i \in DOMAIN Roles : previous'[Roles[i]] = <<>> /\ ~Done(i)'
    BY <2>1, RolesAre DEF Done
  <2>3. Kept' /\ Order' /\ Written'
    BY <2>1, <2>2 DEF Kept, KeptBy, Order, Written, Saving
  <2> QED
    BY <1>2, <2>3
<1>9. CASE WorkerFails
  <2>1. pc' = "failing" /\ pc \in InWorkers
    BY <1>9 DEF WorkerFails
  <2>2. Kept' /\ Order' /\ Written'
    BY <1>1, <2>1 DEF Kept, Order, Written, Done, InWorkers, Saving
  <2> QED
    BY <1>2, <2>2
<1>10. CASE UNCHANGED vars \/ \E id \in Uploader!Tasks : Upload(id)
  <2>1. UNCHANGED <<pc, saving, previous, step>>
    BY <1>10 DEF vars, local, Upload, ReadTracker, UploadedTracker, MakeFolder, UploadedData, UploadFails
  <2>2. Kept' /\ Order' /\ Written'
    BY <1>1, <2>1 DEF Kept, KeptBy, Done, Order, Written
  <2> QED
    BY <1>2, <2>2
<1> QED
  BY <1>4, <1>5, <1>6, <1>7, <1>8, <1>9, <1>10

LEMMA HdfsStays == [Next]_vars => hdfs' = hdfs
BY DEF Next, Driver, Launch, Fail, Forget, TrainStep, Rotate, Removed, OpenShards, WriteShards,
   OpenData, WriteData, OpenTracker, WriteTracker, EnqueueData, EnqueueTracker, Shutdown, Exit,
   Crash, WorkerFails, Upload, ReadTracker, UploadedTracker, MakeFolder, UploadedData, UploadFails, vars

LEMMA InvStep ==
  ASSUME KeepsTwo, Inv, [Next]_vars
  PROVE  Inv'
<1>1. TypeInv'
  BY TypeStep DEF Inv
<1>2. CASE hdfs
  BY <1>1, <1>2, HdfsStays DEF Inv, SaveInv, LocalResumable
<1>3. CASE ~hdfs
  <2>1. Kept' /\ Order' /\ Written' /\ LocalResumable'
    BY <1>3, SaveWorkers, SaveDriver, SaveOthers DEF Next, Driver
  <2> QED
    BY <1>1, <2>1 DEF Inv, SaveInv
<1> QED
  BY <1>2, <1>3

\* Without HDFS, what the tracker names can be loaded by every role whenever the job
\* dies, for every number of steps, saves kept and restarts: unless a role keeps one.
THEOREM Resumable ==
  ASSUME KeepsTwo
  PROVE  Spec => []LocalResumable
<1>1. Init => Inv
  BY TypeInit, SaveInit DEF Inv
<1>2. Inv /\ [Next]_vars => Inv'
  BY InvStep
<1>3. Inv => LocalResumable
  BY DEF Inv
<1> QED
  BY <1>1, <1>2, <1>3, PTL DEF Spec

-----------------------------------------------------------------------------
(* Without HDFS, a restarted job goes on from the last save.               *)

\* No step that is due to be saved has gone by without a save.
NoneMissed == pc = "train" => \A k \in tracker + 1 .. step : ~SaveNow(k)

JobInv == Inv /\ (~hdfs => NoneMissed)

\* In any interval of SaveFreq steps one is saved.
LEMMA OneIsSaved ==
  ASSUME NEW a \in Nat
  PROVE  \E k \in a + 1 .. a + SaveFreq : SaveNow(k)
<1> DEFINE k == (a \div SaveFreq + 1) * SaveFreq
<1>1. a = SaveFreq * (a \div SaveFreq) + (a % SaveFreq)
  BY SMT
<1>2. a \div SaveFreq \in Nat /\ a % SaveFreq \in 0 .. SaveFreq - 1
  BY SMT
<1>3. k = SaveFreq * (a \div SaveFreq) + SaveFreq /\ k \in Nat
  BY <1>2, SMT
<1>4. k \in a + 1 .. a + SaveFreq
  BY <1>1, <1>2, <1>3, SMT
<1>5. \A b \in Nat, j \in Nat : b = j * SaveFreq => b % SaveFreq = 0
  BY SMT
<1>6. k % SaveFreq = 0
  BY <1>2, <1>3, <1>5
<1> QED
  BY <1>4, <1>6 DEF SaveNow

\* Each step of a job without HDFS is one of the abstract job, or none.
LEMMA JobSteps ==
  ASSUME JobInv, ~hdfs, [Next]_vars
  PROVE  NoneMissed' /\ (Job!Next \/ UNCHANGED Job!jvars)
<1> USE DEF Job!Next, Job!jvars
<1>1. /\ NoneMissed /\ Order /\ LocalResumable /\ hdfs' = hdfs
      /\ step \in 0 .. LastStep /\ tracker \in Steps \cup {0, Empty}
      /\ pc = "train" => tracker # Empty /\ tracker <= step
      /\ pc = "train" => step < LastStep
  <2>1. pc = "train" => step < LastStep
    BY DEF JobInv, Inv, TypeInv, TypeOK, Within, Bound, Waiting
  <2> QED
    BY <2>1, HdfsStays DEF JobInv, Inv, SaveInv, TypeInv, TypeOK, Order
<1>2. CASE Launch
  <2>1. /\ pc = "down" /\ UNCHANGED tracker
        /\ \/ pc' = "broken" /\ UNCHANGED step
           \/ pc' = "train" /\ tracker # Empty /\ step' = ResumeStep
    BY <1>1, <1>2 DEF Launch, Unloadable, local
  <2>2. tracker # Empty => ResumeStep = tracker
    BY <1>1 DEF ResumeStep, Present, LocalResumable
  <2>3. NoneMissed'
    BY <1>1, <2>1, <2>2 DEF NoneMissed
  <2> QED
    BY <1>1, <2>1, <2>2, <2>3 DEF Job!Restart
<1>3. CASE TrainStep
  <2>1. /\ pc = "train" /\ step' = step + 1 /\ UNCHANGED tracker
        /\ pc' = "rotate" \/ (pc' = "train" /\ ~SaveNow(step + 1))
    BY <1>3 DEF TrainStep, local
  <2>2. step - tracker < SaveFreq
    <3>1. SUFFICES ASSUME tracker + SaveFreq <= step PROVE FALSE
      BY <1>1, <2>1
    <3>2. PICK k \in tracker + 1 .. tracker + SaveFreq : SaveNow(k)
      BY <1>1, <2>1, OneIsSaved
    <3>3. k \in tracker + 1 .. step
      BY <1>1, <3>1, <3>2
    <3> QED
      BY <1>1, <2>1, <3>2, <3>3 DEF NoneMissed
  <2>3. NoneMissed'
    <3>1. SUFFICES ASSUME pc' = "train", NEW k \in tracker + 1 .. step + 1 PROVE ~SaveNow(k)
      BY <2>1 DEF NoneMissed, SaveNow
    <3>2. k = step + 1 \/ k \in tracker + 1 .. step
      BY <1>1
    <3> QED
      BY <1>1, <2>1, <3>1, <3>2 DEF NoneMissed
  <2> QED
    BY <1>1, <2>1, <2>2, <2>3 DEF Job!Train
<1>4. CASE Rotate \/ Removed \/ OpenShards \/ WriteShards \/ OpenData \/ WriteData
  <2>1. /\ pc \notin {"down", "broken"} /\ pc' \notin {"down", "broken", "train"}
        /\ UNCHANGED <<step, tracker>>
    BY <1>4 DEF Rotate, Removed, OpenShards, WriteShards, OpenData, WriteData
  <2> QED
    BY <1>1, <2>1 DEF NoneMissed
<1>5. CASE OpenTracker
  <2>1. pc = "tracker" /\ pc' = "tracker_open" /\ tracker' = Empty /\ UNCHANGED step
    BY <1>5 DEF OpenTracker
  <2> QED
    BY <1>1, <2>1 DEF NoneMissed, Job!Save
<1>6. CASE WriteTracker
  <2>1. /\ pc = "tracker_open" /\ pc' \in {"train", "final"} /\ tracker' = step /\ UNCHANGED step
    BY <1>1, <1>6 DEF WriteTracker, Onward
  <2>2. NoneMissed'
    BY <1>1, <2>1 DEF NoneMissed
  <2> QED
    BY <1>1, <2>1, <2>2 DEF Job!Save
<1>7. CASE EnqueueData \/ EnqueueTracker
  BY <1>1, <1>7 DEF EnqueueData, EnqueueTracker, Order
<1>8. CASE Shutdown \/ Exit \/ WorkerFails
  <2>1. /\ pc \notin {"down", "broken"} /\ pc' \notin {"down", "broken", "train"}
        /\ UNCHANGED <<step, tracker>>
    BY <1>8 DEF Shutdown, Exit, WorkerFails, InWorkers, local
  <2> QED
    BY <1>1, <2>1 DEF NoneMissed
<1>9. CASE Crash \/ Fail
  <2>1. pc \notin {"down", "broken"} /\ pc' = "down" /\ UNCHANGED <<step, tracker>>
    BY <1>9 DEF Crash, Fail, Forget
  <2> QED
    BY <1>1, <2>1 DEF NoneMissed, Job!Die
<1>10. CASE UNCHANGED vars \/ \E id \in Uploader!Tasks : Upload(id)
  <2>1. UNCHANGED <<pc, step, tracker>>
    BY <1>10 DEF vars, local, Upload, ReadTracker, UploadedTracker, MakeFolder, UploadedData, UploadFails
  <2> QED
    BY <1>1, <2>1 DEF NoneMissed, SaveNow
<1> QED
  BY <1>2, <1>3, <1>4, <1>5, <1>6, <1>7, <1>8, <1>9, <1>10 DEF Next, Driver

\* A job without HDFS implements ResumableTraining, mapped to one that does nothing
\* when there is HDFS: after any number of restarts it goes on from the step saved
\* last and repeats at most one interval.
THEOREM GoesOnFromLastSave ==
  ASSUME KeepsTwo
  PROVE  Spec => ResumesFromLastSave
<1>1. Init => JobInv /\ Job!Init
  <2>1. ASSUME Init PROVE JobInv /\ Job!Init
    BY <2>1, TypeInit, SaveInit DEF Init, JobInv, Inv, NoneMissed, Job!Init
  <2> QED
    BY <2>1
<1>2. JobInv /\ [Next]_vars => JobInv' /\ [Job!Next]_(Job!jvars)
  <2>1. ASSUME JobInv, [Next]_vars PROVE JobInv' /\ [Job!Next]_(Job!jvars)
    <3>1. Inv' /\ hdfs' = hdfs
      BY <2>1, InvStep, HdfsStays DEF JobInv
    <3>2. CASE hdfs
      BY <3>1, <3>2 DEF JobInv, Job!jvars
    <3>3. CASE ~hdfs
      BY <2>1, <3>1, <3>3, JobSteps DEF JobInv
    <3> QED
      BY <3>2, <3>3
  <2> QED
    BY <2>1
<1> QED
  BY <1>1, <1>2, PTL DEF Spec, ResumesFromLastSave, Job!Spec

-----------------------------------------------------------------------------
(* The last checkpoint of a job that ends is on HDFS.                      *)

\* The data of the step that the tracker names were given to the uploader, in this
\* incarnation, and what the uploader has copied is there.
Handed ==
  /\ pc \in {"enqueue", "enqueue2", "final"} => tracker = step /\ step \in Steps
  /\ pc \in {"enqueue2", "final"} =>
       \E id \in Uploader!Tasks : status[id] # "none" /\ path[id] = DataFile(step)
  /\ \A id \in Uploader!Tasks, s \in Steps :
       status[id] = "ok" /\ path[id] = DataFile(s) => s \in remoteData

HandedInv == TypeInv /\ (hdfs => Handed)

LEMMA DataFilesDiffer ==
  ASSUME NEW s \in Steps, NEW t \in Steps
  PROVE  /\ DataFile(s) = DataFile(t) => s = t
         /\ DataFile(s)[2] = s /\ DataFile(s) # TrackerFile
BY DEF DataFile, TrackerFile

\* The driver, where HDFS is used.
LEMMA HandedDriver ==
  ASSUME HandedInv, hdfs, Driver \/ Fail \/ Exit
  PROVE  Handed'
<1>1. /\ Handed /\ status \in [Uploader!Tasks -> {"none", "pending", "ok", "failed"}]
      /\ path \in [Uploader!Tasks -> SourcePaths \cup {All}]
      /\ step \in 0 .. LastStep
  BY DEF HandedInv, TypeInv, TypeOK
<1>2. CASE /\ UNCHANGED <<status, path, remoteData>>
           /\ pc' \notin {"enqueue", "enqueue2", "final"}
  BY <1>1, <1>2 DEF Handed, DataFile
<1>3. CASE WriteTracker
  <2>1. /\ pc' = "enqueue" /\ tracker' = step /\ step' = step
        /\ UNCHANGED <<status, path, remoteData>> /\ step \in Steps
    BY <1>3 DEF WriteTracker, service, remote, HandedInv, TypeInv, StepFits, Saving
  <2> QED
    BY <1>1, <2>1 DEF Handed, DataFile
<1>4. CASE EnqueueData
  <2>1. /\ pc = "enqueue" /\ pc' = "enqueue2" /\ UNCHANGED <<step, tracker, remoteData>>
        /\ Uploader!Enqueue(0, DataFile(step))
    BY <1>4 DEF EnqueueData, local, remote
  <2>2. PICK new \in Uploader!Tasks :
          /\ status' = [status EXCEPT ![new] = "pending"]
          /\ path' = [path EXCEPT ![new] = DataFile(step)]
    BY <2>1 DEF Uploader!Enqueue
  <2>3. /\ status'[new] = "pending" /\ path'[new] = DataFile(step')
        /\ \A id \in Uploader!Tasks : id # new => status'[id] = status[id] /\ path'[id] = path[id]
    BY <1>1, <2>1, <2>2
  <2>4. tracker' = step' /\ step' \in Steps
    BY <1>1, <2>1 DEF Handed
  <2>5. \A id \in Uploader!Tasks, s \in Steps :
          status'[id] = "ok" /\ path'[id] = DataFile(s) => s \in remoteData'
    BY <1>1, <2>1, <2>3 DEF Handed
  <2> QED
    BY <2>1, <2>3, <2>4, <2>5 DEF Handed, DataFile
<1>5. CASE EnqueueTracker
  <2>1. /\ pc = "enqueue2" /\ pc' \in {"train", "final"} /\ UNCHANGED <<step, tracker, remoteData>>
        /\ Uploader!Enqueue(0, TrackerFile)
    BY <1>5 DEF EnqueueTracker, Onward, local, remote
  <2>2. PICK new \in Uploader!Tasks :
          /\ status[new] = "none"
          /\ status' = [status EXCEPT ![new] = "pending"]
          /\ path' = [path EXCEPT ![new] = TrackerFile]
    BY <2>1 DEF Uploader!Enqueue
  <2>3. /\ status'[new] = "pending"
        /\ \A id \in Uploader!Tasks : id # new => status'[id] = status[id] /\ path'[id] = path[id]
    BY <1>1, <2>2
  <2>4. \E id \in Uploader!Tasks : status'[id] # "none" /\ path'[id] = DataFile(step')
    BY <1>1, <2>1, <2>2, <2>3 DEF Handed
  <2>5. tracker' = step' /\ step' \in Steps
    BY <1>1, <2>1 DEF Handed
  <2>6. \A id \in Uploader!Tasks, s \in Steps :
          status'[id] = "ok" /\ path'[id] = DataFile(s) => s \in remoteData'
    BY <1>1, <2>1, <2>3 DEF Handed
  <2> QED
    BY <2>1, <2>4, <2>5, <2>6 DEF Handed, DataFile
<1>6. CASE Shutdown
  <2>1. UNCHANGED <<pc, step, tracker, status, path, remoteData>>
    BY <1>6 DEF Shutdown, local, remote, Uploader!Wait
  <2> QED
    BY <1>1, <2>1 DEF Handed, DataFile
<1>7. CASE Fail
  <2>1. /\ pc' = "down" /\ UNCHANGED remoteData
        /\ status' = [id \in Uploader!Tasks |-> "none"]
    BY <1>7 DEF Fail, Forget, remote
  <2> QED
    BY <2>1 DEF Handed, DataFile
<1>8. Launch \/ TrainStep \/ Rotate \/ Removed \/ OpenShards \/ WriteShards \/ OpenData \/ WriteData
        \/ OpenTracker \/ Exit => /\ UNCHANGED <<status, path, remoteData>>
                                  /\ pc' \notin {"enqueue", "enqueue2", "final"}
  BY DEF Launch, TrainStep, Rotate, Removed, OpenShards, WriteShards, OpenData, WriteData,
     OpenTracker, Exit, Uploader!Return, service, remote
<1> QED
  BY <1>2, <1>3, <1>4, <1>5, <1>6, <1>7, <1>8 DEF Driver

\* What the driver dies of, and its uploads.
LEMMA HandedOthers ==
  ASSUME HandedInv, hdfs, \/ Crash \/ WorkerFails
                          \/ \E id \in Uploader!Tasks : Upload(id)
                          \/ UNCHANGED vars
  PROVE  Handed'
<1>1. /\ Handed /\ status \in [Uploader!Tasks -> {"none", "pending", "ok", "failed"}]
      /\ path \in [Uploader!Tasks -> SourcePaths \cup {All}]
  BY DEF HandedInv, TypeInv, TypeOK
<1>2. CASE Crash
  <2>1. /\ pc' = "down" /\ UNCHANGED remoteData
        /\ status' = [id \in Uploader!Tasks |-> "none"]
    BY <1>2 DEF Crash, Forget, remote
  <2> QED
    BY <2>1 DEF Handed, DataFile
<1>3. CASE WorkerFails
  <2>1. pc' = "failing" /\ UNCHANGED <<status, path, remoteData>>
    BY <1>3 DEF WorkerFails, Uploader!Wait, remote
  <2> QED
    BY <1>1, <2>1 DEF Handed, DataFile
<1>4. CASE (\E id \in Uploader!Tasks : Upload(id)) \/ UNCHANGED vars
  <2>1. /\ UNCHANGED <<pc, step, tracker, path>> /\ remoteData \subseteq remoteData'
        /\ \A id \in Uploader!Tasks :
             /\ status'[id] = status[id] \/ (status[id] = "pending" /\ status'[id] \in {"ok", "failed"})
             /\ \/ status'[id] = status[id] \/ status'[id] = "failed"
                \/ path[id] = TrackerFile \/ path[id][2] \in remoteData'
    <3>1. CASE UNCHANGED vars
      BY <3>1 DEF vars, local, service, remote
    <3>2. ASSUME NEW id \in Uploader!Tasks, Upload(id)
          PROVE  <2>1
      BY <1>1, <3>2 DEF Upload, ReadTracker, UploadedTracker, MakeFolder, UploadedData, UploadFails,
         Uploader!Settle, local, service, remote
    <3> QED
      BY <1>4, <3>1, <3>2
  <2>2. \A id \in Uploader!Tasks : status[id] # "none" => status'[id] # "none"
    BY <2>1
  <2>3. ASSUME NEW id \in Uploader!Tasks, NEW s \in Steps,
               status'[id] = "ok", path'[id] = DataFile(s)
        PROVE  s \in remoteData'
    <3>1. CASE status[id] = "ok"
      BY <1>1, <2>1, <2>3, <3>1 DEF Handed
    <3>2. CASE status[id] # "ok"
      BY <2>1, <2>3, <3>2, DataFilesDiffer
    <3> QED
      BY <3>1, <3>2
  <2> QED
    BY <1>1, <2>1, <2>2, <2>3 DEF Handed, DataFile
<1> QED
  BY <1>2, <1>3, <1>4

\* A job that ends, none of its uploads having failed, has the data.pt of the step its
\* tracker names on HDFS: for every number of roles, steps, restarts and uploads.
THEOREM LastCheckpointArrives == Spec => LastStepCopied
<1>1. Init => HandedInv
  <2>1. Init => Handed
    BY DEF Init, Uploader!Init, Handed
  <2> QED
    BY <2>1, TypeInit DEF HandedInv
<1>2. HandedInv /\ [Next]_vars => HandedInv'
  BY TypeStep, HdfsStays, HandedDriver, HandedOthers DEF HandedInv, Next
<1>3. HandedInv /\ [Next]_vars =>
        [hdfs /\ pc = "final" /\ pc' = "exit" /\ Failures = {} => tracker \in remoteData]_vars
  <2> SUFFICES ASSUME HandedInv, Next, hdfs, pc = "final", pc' = "exit", Failures = {}
               PROVE  tracker \in remoteData
    OBVIOUS
  <2>1. Exit
    BY DEF Next, Driver, Launch, Fail, Forget, TrainStep, Rotate, Removed, OpenShards, WriteShards,
       OpenData, WriteData, OpenTracker, WriteTracker, Onward, EnqueueData, EnqueueTracker, Shutdown,
       Crash, WorkerFails, Upload, ReadTracker, UploadedTracker, MakeFolder, UploadedData, UploadFails
  <2>2. /\ Handed /\ waiting[0] \in {<<>>, <<All, FALSE>>}
        /\ status \in [Uploader!Tasks -> {"none", "pending", "ok", "failed"}]
    BY DEF HandedInv, TypeInv, TypeOK
  <2>3. waiting[0] # <<>> /\ Uploader!Drained(waiting[0][1])
    BY <2>1 DEF Exit, Uploader!Return
  <2>4. \A id \in Uploader!Tasks : status[id] # "pending"
    <3>1. waiting[0] = <<All, FALSE>>
      BY <2>2, <2>3
    <3>2. waiting[0][1] = All
      BY <3>1
    <3> QED
      BY <2>3, <3>2 DEF Uploader!Drained
  <2>5. \A id \in Uploader!Tasks : status[id] # "failed"
    BY DEF Failures
  <2>6. PICK id \in Uploader!Tasks : status[id] # "none" /\ path[id] = DataFile(step)
    BY <2>2 DEF Handed
  <2>7. status[id] = "ok" /\ step \in Steps /\ tracker = step
    BY <2>2, <2>4, <2>5, <2>6 DEF Handed
  <2> QED
    BY <2>2, <2>6, <2>7 DEF Handed
<1> QED
  BY <1>1, <1>2, <1>3, PTL DEF Spec, LastStepCopied

=============================================================================
