--------------------------- MODULE TokenSelection ---------------------------
(***************************************************************************)
(* Which response tokens the selective objective trains on: the masks of   *)
(* dp_actor.  Tokens come as a sequence, in the order they have in the     *)
(* flattened tensor, with a divergence for each.  Bounds are percentages.  *)
(***************************************************************************)
EXTENDS SeqlenBalancing, FiniteSetsExt

\* The token at each place of the ranking: a stable argsort of the divergences.
Ranked(tokens, divergence) == Ascending([i \in DOMAIN tokens |-> divergence[tokens[i]]])

\* max(1, ceil(valid * width)).
KeepCount(valid, start, end) == Max({1, (valid * (end - start) + 99) \div 100})

StartIndex(valid, start, end) ==
  Min({(valid * start) \div 100, valid - KeepCount(valid, start, end)})

\* Places in the ranking an interval takes.
Interval(valid, start, end) ==
  StartIndex(valid, start, end) + 1 .. StartIndex(valid, start, end) + KeepCount(valid, start, end)

LadderMask(tokens, divergence, start, end) ==
  IF tokens = <<>> THEN {}
  ELSE LET ranked == Ranked(tokens, divergence)
       IN  {tokens[ranked[i]] : i \in Interval(Len(tokens), start, end)}

\* _build_divergence_percentile_areas_token_mask; one area is a ladder, top or bottom mode.
AreasMask(tokens, divergence, areas) ==
  UNION {LadderMask(tokens, divergence, area[1], area[2]) : area \in areas}

AbsoluteMask(tokens, divergence, threshold) ==
  {t \in ToSet(tokens) : divergence[t] >= threshold}

\* The modes that rank, and the intervals each stands for.
RankingModes == {"relative", "top_js", "bottom_js", "ladder", "percentile_areas"}
AreasOf(mode, fraction, ladder, areas) ==
  CASE mode \in {"relative", "top_js"} -> {<<100 - fraction, 100>>}
    [] mode = "bottom_js"              -> {<<0, fraction>>}
    [] mode = "ladder"                 -> {ladder}
    [] mode = "percentile_areas"       -> areas
=============================================================================
