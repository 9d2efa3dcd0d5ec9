------------------------------ MODULE Advantages ------------------------------
(***************************************************************************)
(* The advantage estimators of core_algos: the pure functions with which   *)
(* compute_advantage turns the token-level rewards of a batch into         *)
(* advantages and returns.                                                 *)
(*                                                                         *)
(* data has the columns token_level_rewards (integers), response_mask (the *)
(* positions of the row that are 1), uid and, for the estimators that read *)
(* them, values and reward_baselines.  A result is a fraction in lowest    *)
(* terms, <<numerator, denominator>>.  Dividing by a standard deviation    *)
(* scales a whole group, or the whole batch, by one positive number and is *)
(* left out: the properties compare only within what is scaled alike.      *)
(***************************************************************************)
EXTENDS Integers, Sequences, Functions, FiniteSetsExt

CONSTANTS Gamma, Lam    \* fractions

Over(n, d) ==
  LET g == Max({k \in 1 .. d : n % k = 0 /\ d % k = 0}) IN <<n \div g, d \div g>>
Whole(n)    == <<n, 1>>
Nought        == Whole(0)
Plus(a, b)  == Over(a[1] * b[2] + b[1] * a[2], a[2] * b[2])
Minus(a, b) == Over(a[1] * b[2] - b[1] * a[2], a[2] * b[2])
Times(a, b) == Over(a[1] * b[1], a[2] * b[2])
Below(a, b) == a[1] * b[2] < b[1] * a[2]
Total(fractions) == FoldFunction(Plus, Nought, fractions)

Sum(f, S) == SumFunctionOnSet(f, S)
PositionsOf(data) == DOMAIN data.token_level_rewards[1]
RowsOf(data)      == DOMAIN data.uid

-----------------------------------------------------------------------------
\* Estimators on outcome rewards: one number for all the tokens of a response.

\* token_level_rewards.sum(dim=-1), which counts masked positions as well.
Scores(data) == [i \in RowsOf(data) |-> Sum(data.token_level_rewards[i], PositionsOf(data))]

\* The responses with the same uid; and those that stood together before balancing, two
\* to a prompt.
Neighbours(data, i) == {j \in RowsOf(data) : (j - 1) \div 2 = (i - 1) \div 2}
GroupOf(data, i)    == {j \in RowsOf(data) : data.uid[j] = data.uid[i]}

Broadcast(data, scalars) ==
  [i \in RowsOf(data) |->
    [t \in PositionsOf(data) |-> IF t \in data.response_mask[i] THEN scalars[i] ELSE Nought]]

\* The score minus the mean of its group, weighted; a group of one has mean 0.
Centred(data, weight) ==
  LET scores == Scores(data)
  IN  [i \in RowsOf(data) |->
        LET group    == GroupOf(data, i)
            weighted == Sum([j \in group |-> weight[j] * scores[j]], group)
        IN  IF group = {i} THEN Whole(scores[i])
            ELSE Over(scores[i] * Sum(weight, group) - weighted, Sum(weight, group))]

Grpo(data) == Centred(data, [i \in RowsOf(data) |-> 1])

\* Weighted by length.
Opo(data) == Centred(data, [i \in RowsOf(data) |-> Cardinality(data.response_mask[i])])

Rloo(data) ==
  LET size(i) == Cardinality(GroupOf(data, i))
  IN  [i \in RowsOf(data) |->
        IF size(i) = 1 THEN Grpo(data)[i]
                       ELSE Times(Grpo(data)[i], Over(size(i), size(i) - 1))]

RlooVectorized(data) ==
  [i \in RowsOf(data) |-> IF GroupOf(data, i) = {i} THEN Nought ELSE Rloo(data)[i]]

Gpg(data) ==
  LET nonzero == Cardinality({i \in RowsOf(data) : Scores(data)[i] # 0})
      alpha   == Over(Cardinality(RowsOf(data)), Max({nonzero, 1}))
  IN  [i \in RowsOf(data) |-> Times(alpha, Grpo(data)[i])]

\* The best response of a group, which needs two, gets its lead over the second best.
CanPassk(data) == \A i \in RowsOf(data) : GroupOf(data, i) # {i}
Passk(data) ==
  LET scores == Scores(data)
  IN  [i \in RowsOf(data) |->
        LET others == {scores[j] : j \in GroupOf(data, i) \ {i}}
        IN  Whole(Max({scores[i] - Max(others), 0}))]

-----------------------------------------------------------------------------
\* Estimators on the tokens.

Direct(data) ==
  [i \in RowsOf(data) |->
    [t \in PositionsOf(data) |->
      IF t \in data.response_mask[i] THEN Whole(data.token_level_rewards[i][t]) ELSE Nought]]

\* flip, cumsum, flip.
SuffixSums(rows) ==
  [i \in DOMAIN rows |->
    [t \in DOMAIN rows[i] |-> Total([u \in t .. Len(rows[i]) |-> rows[i][u]])]]

Remax(data) ==
  LET returns == SuffixSums(Direct(data))
      Baseline(i, t) ==
        IF t \in data.response_mask[i] THEN Whole(data.reward_baselines[i]) ELSE Nought
  IN  [advantages |-> [i \in RowsOf(data) |->
                        [t \in PositionsOf(data) |-> Minus(returns[i][t], Baseline(i, t))]],
       returns    |-> returns]

\* Every valid token of a group is centred before the sums.
TokenGrpo(data) ==
  LET Tokens(i) == {x \in GroupOf(data, i) \X PositionsOf(data) : x[2] \in data.response_mask[x[1]]}
      mean == [i \in RowsOf(data) |->
                LET reward == [x \in Tokens(i) |-> data.token_level_rewards[x[1]][x[2]]]
                    size   == Cardinality(Tokens(i))
                IN  IF size = 1 THEN Nought ELSE Over(Sum(reward, Tokens(i)), size)]
      Normalized(i, t) == IF t \in data.response_mask[i]
                            THEN Minus(Whole(data.token_level_rewards[i][t]), mean[i]) ELSE Nought
      sums == SuffixSums([i \in RowsOf(data) |-> [t \in PositionsOf(data) |-> Normalized(i, t)]])
  IN  [i \in RowsOf(data) |->
        [t \in PositionsOf(data) |-> IF t \in data.response_mask[i] THEN sums[i][t] ELSE Nought]]

\* masked_whiten, which raises when a single token is unmasked.
Unmasked(data) == {x \in RowsOf(data) \X PositionsOf(data) : x[2] \in data.response_mask[x[1]]}
CanWhiten(data) == Cardinality(Unmasked(data)) > 1
Whiten(data, table) ==
  LET all  == [x \in Unmasked(data) |-> table[x[1]][x[2]]]
      mean == Times(Total(all), Over(1, Cardinality(Unmasked(data))))
  IN  [i \in RowsOf(data) |-> [t \in PositionsOf(data) |-> Minus(table[i][t], mean)]]

Masked(data, table) ==
  [i \in RowsOf(data) |->
    [t \in PositionsOf(data) |-> IF t \in data.response_mask[i] THEN table[i][t] ELSE Nought]]

ReinforcePlusPlusBaseline(data) ==
  Masked(data, Whiten(data, Broadcast(data, Grpo(data))))

\* The running return starts again before every masked position, not only after EOS.
ReinforcePlusPlus(data) ==
  LET last == Len(data.token_level_rewards[1])
      Returns(i) ==
        LET running[t \in 1 .. last + 1] ==
              IF t > last THEN Nought
              ELSE Plus(Whole(data.token_level_rewards[i][t]),
                        IF t + 1 \in data.response_mask[i] THEN Times(Gamma, running[t + 1])
                                                           ELSE Nought)
        IN  [t \in 1 .. last |-> running[t]]
      returns == [i \in RowsOf(data) |-> Returns(i)]
  IN  [advantages |-> Masked(data, Whiten(data, returns)), returns |-> returns]

\* At a masked position the next value and the running estimate are carried over unchanged.
Gae(data) ==
  LET last == Len(data.token_level_rewards[1])
      Row(i) ==
        LET v(t) == Whole(data.values[i][t])
            run[t \in 1 .. last + 1] ==
              IF t > last THEN [value |-> Nought, gae |-> Nought]
              ELSE LET next  == run[t + 1]
                       delta == Minus(Plus(Whole(data.token_level_rewards[i][t]),
                                           Times(Gamma, next.value)), v(t))
                       now   == [value |-> v(t),
                                 gae   |-> Plus(delta, Times(Times(Gamma, Lam), next.gae))]
                   IN  IF t \in data.response_mask[i] THEN now ELSE next
        IN  [t \in 1 .. last |-> run[t].gae]
      raw == [i \in RowsOf(data) |-> Row(i)]
  IN  [advantages |-> Whiten(data, raw),
       returns    |-> [i \in RowsOf(data) |->
                        [t \in 1 .. last |-> Plus(raw[i][t], Whole(data.values[i][t]))]]]

-----------------------------------------------------------------------------
\* compute_advantage.

OutcomeEstimators == {"grpo", "grpo_vectorized", "opo", "rloo", "rloo_vectorized", "gpg", "grpo_passk"}
OfResponses(estimator, data) ==
  CASE estimator \in {"grpo", "grpo_vectorized"} -> Grpo(data)
    [] estimator = "opo"                         -> Opo(data)
    [] estimator = "rloo"                        -> Rloo(data)
    [] estimator = "rloo_vectorized"             -> RlooVectorized(data)
    [] estimator = "gpg"                         -> Gpg(data)
    [] estimator = "grpo_passk"                  -> Passk(data)

Estimators == OutcomeEstimators \cup {"reinforce_plus_plus_baseline", "reinforce_plus_plus", "remax",
                                     "token_grpo", "token_reward_direct", "gae"}

Twice(table) == [advantages |-> table, returns |-> table]

CanEstimate(estimator, data) ==
  /\ estimator = "grpo_passk" => CanPassk(data)
  /\ estimator \in {"gae", "reinforce_plus_plus", "reinforce_plus_plus_baseline"} => CanWhiten(data)

Estimate(estimator, data) ==
  CASE estimator \in OutcomeEstimators -> Twice(Broadcast(data, OfResponses(estimator, data)))
    [] estimator = "reinforce_plus_plus_baseline" -> Twice(ReinforcePlusPlusBaseline(data))
    [] estimator = "reinforce_plus_plus"          -> ReinforcePlusPlus(data)
    [] estimator = "remax"                        -> Remax(data)
    [] estimator = "token_grpo"                   -> Twice(TokenGrpo(data))
    [] estimator = "token_reward_direct"          -> Twice(Direct(data))
    [] estimator = "gae"                          -> Gae(data)
=============================================================================
