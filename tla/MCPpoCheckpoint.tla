--------------------------- MODULE MCPpoCheckpoint ---------------------------
\* Instances of PpoCheckpoint for TLC.
EXTENDS PpoCheckpoint, TLC

ActorAndCritic == <<"actor", "critic">>
KeepSome == [actor |-> 2, critic |-> 3]
=============================================================================
