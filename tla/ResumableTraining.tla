-------------------------- MODULE ResumableTraining --------------------------
(***************************************************************************)
(* What checkpointing promises to whoever restarts a dead training job: it *)
(* goes on from the last step saved, and that is never further back than   *)
(* one save interval.                                                      *)
(***************************************************************************)
EXTENDS Integers

CONSTANTS SaveFreq, TotalSteps

VARIABLES
  step,    \* global_step of the running job, or of the one that died
  saved,   \* last step whose checkpoint can be resumed, 0 if there is none
  up       \* the job runs

jvars == <<step, saved, up>>

Init == step = 0 /\ saved = 0 /\ up = FALSE

Restart == ~up /\ up' = TRUE /\ step' = saved /\ UNCHANGED saved

Train ==
  /\ up /\ step < TotalSteps /\ step - saved < SaveFreq
  /\ step' = step + 1
  /\ UNCHANGED <<saved, up>>

Save == up /\ saved' = step /\ UNCHANGED <<step, up>>

Die == up /\ up' = FALSE /\ UNCHANGED <<step, saved>>

Next == Restart \/ Train \/ Save \/ Die

Spec == Init /\ [][Next]_jvars
=============================================================================
