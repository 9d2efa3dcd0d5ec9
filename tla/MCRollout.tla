------------------------------ MODULE MCRollout ------------------------------
\* Both ways to roll a batch out, on small instances.
EXTENDS Rollout

TwoServers == 1 .. 2

Base == [multiTurn |-> TRUE, tools |-> FALSE, interaction |-> FALSE, tokenIds |-> TRUE,
         logProbs |-> FALSE, validate |-> FALSE, overSample |-> 0, spare |-> 0]

\* Tools, interactions and both; ids taken over and text rendered again; a context that ends with
\* prompt and response or beyond them; all rows waited for, half of them, and less than one.
MCOptions ==
  {[Base EXCEPT !.tools = TRUE],
   [Base EXCEPT !.tools = TRUE, !.overSample = 50, !.spare = 1],
   [Base EXCEPT !.tools = TRUE, !.validate = TRUE, !.logProbs = TRUE],
   [Base EXCEPT !.tools = TRUE, !.interaction = TRUE, !.tokenIds = FALSE, !.overSample = 50],
   [Base EXCEPT !.tools = TRUE, !.interaction = TRUE, !.spare = 2],
   [Base EXCEPT !.interaction = TRUE, !.spare = 2, !.logProbs = TRUE],
   [Base EXCEPT !.interaction = TRUE, !.tokenIds = FALSE],
   [Base EXCEPT !.interaction = TRUE, !.overSample = 60, !.logProbs = TRUE],
   [Base EXCEPT !.multiTurn = FALSE]}
=============================================================================
