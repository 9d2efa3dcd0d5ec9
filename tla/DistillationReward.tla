------------------------ MODULE DistillationReward ------------------------
(***************************************************************************)
(* What each distillation strategy scores at one position of a response.   *)
(* S and T are the top-k token ids of the student and of a teacher there,  *)
(* N the teacher's nucleus (its most likely tokens that hold top_p of the  *)
(* probability); a slot is a place in the tensors' last dimension.  Of a   *)
(* log-probability the model keeps whether it is finite: the student's are *)
(* all gathered from its full distribution, the teacher's may be -inf.     *)
(***************************************************************************)
EXTENDS Sequences, Integers, Functions

TopP == {"top_p_intersec", "top-p-intersec"}

\* The strategies that score over the student's and the teacher's top-k ids at once.
Unions == {"union", "union-intersection"}

\* The slots of S at which compute_rm_score gives the teacher's log-probability:
\* elsewhere it stays -inf.
FiniteOnStudent(strategy, S, T) ==
  IF strategy \in {"only_stu"} \cup Unions \cup TopP
    THEN DOMAIN S
    ELSE {i \in DOMAIN S : S[i] \in Range(T)}

\* Mutant: the overlap is everything.
OverlapEverywhere(strategy, S, T, N) == DOMAIN S

\* overlap_mask and teacher_in_student_mask.
Overlap(strategy, S, T, N) ==
  {i \in DOMAIN S : S[i] \in (IF strategy \in TopP THEN N ELSE Range(T))}

\* Mutant of TeacherInStudent: compares the slots pairwise.
TeacherAsStudent(S, T) == {j \in DOMAIN T : T[j] = S[j]}

TeacherInStudent(S, T) == {j \in DOMAIN T : T[j] \in Range(S)}

\* The slots of T behind those of S.
Behind(S, slots) == {Len(S) + j : j \in slots}

\* compute_distillation_reward has a branch for these strategies.
Distills(strategy) == strategy \in {"only_stu", "only_tch", "intersection"} \cup Unions

Distilled(strategy, S, T, N) ==
  LET overlap == Overlap(strategy, S, T, N)
      finiteS == FiniteOnStudent(strategy, S, T)
      student == {i \in DOMAIN S : \/ strategy \in {"only_stu", "union"}
                                   \/ strategy = "intersection" /\ i \in overlap
                                   \/ strategy = "union-intersection" /\ i \notin overlap}
      onlyT == IF strategy \in Unions THEN DOMAIN T \ TeacherInStudent(S, T) ELSE {}
  IN  IF strategy = "only_tch"
        THEN [ids |-> T, valid |-> DOMAIN T, finite |-> TRUE]
        ELSE [ids    |-> IF strategy \in Unions THEN S \o T ELSE S,
              valid  |-> student \cup Behind(S, onlyT),
              finite |-> student \subseteq finiteS]

\* compute_delta_opd_reward, for the teacher's and the reference teacher's
\* top-k ids T and R.
DeltaScored(strategy, S, T, R, N) ==
  LET valid == IF strategy \in {"intersection"} \cup TopP
                 THEN Overlap(strategy, S, T, N) ELSE DOMAIN S
  IN  [ids    |-> S,
       valid  |-> valid,
       finite |-> valid \subseteq FiniteOnStudent(strategy, S, T) \cap FiniteOnStudent(strategy, S, R)]

\* The tokens a strategy is to score.
Meant(strategy, S, T, N) ==
  {id \in Range(S) \cup Range(T) :
     \/ strategy = "only_stu" /\ id \in Range(S)
     \/ strategy = "only_tch" /\ id \in Range(T)
     \/ strategy = "intersection" /\ id \in Range(S) /\ id \in Range(T)
     \/ strategy = "union"
     \/ strategy = "union-intersection" /\ ~(id \in Range(S) /\ id \in Range(T))
     \/ strategy \in TopP /\ id \in Range(S) /\ id \in N}

\* The slots of a reward hold the tokens, each of them once.
ScoresOnce(reward, tokens) ==
  /\ {reward.ids[i] : i \in reward.valid} = tokens
  /\ \A i, j \in reward.valid : reward.ids[i] = reward.ids[j] => i = j
=============================================================================
