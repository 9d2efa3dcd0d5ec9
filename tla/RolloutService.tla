---------------------------- MODULE RolloutService ----------------------------
(***************************************************************************)
(* What the trainer asks of a rollout: a batch of prompts comes back with  *)
(* as many answered rows as were waited for, or the call raises because    *)
(* one of the calls it makes did.                                          *)
(***************************************************************************)
EXTENDS Naturals, FiniteSets

CONSTANT Batch

VARIABLES
  status,     \* of the call
  needed,     \* answered rows the batch must have
  answered,   \* rows of the batch that came back that are answers
  broken      \* a call that the rollout depends on has failed

Init ==
  /\ status = "idle" /\ answered = {} /\ broken = FALSE
  /\ needed \in 1 .. Cardinality(Batch)

Ask ==
  /\ status \in {"idle", "returned"}
  /\ status' = "generating" /\ answered' = {}
  /\ UNCHANGED <<needed, broken>>

Break ==
  /\ status = "generating" /\ ~broken
  /\ broken' = TRUE
  /\ UNCHANGED <<status, needed, answered>>

Answer ==
  /\ status = "generating"
  /\ status' = "returned"
  /\ answered' \in {rows \in SUBSET Batch : Cardinality(rows) >= needed}
  /\ UNCHANGED <<needed, broken>>

Raise ==
  /\ status = "generating" /\ broken
  /\ status' = "raised" /\ answered' = {}
  /\ UNCHANGED <<needed, broken>>

Next == Ask \/ Break \/ Answer \/ Raise

serviceVars == <<status, needed, answered, broken>>

Spec == Init /\ [][Next]_serviceVars
=============================================================================
