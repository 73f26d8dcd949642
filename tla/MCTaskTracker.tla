--------------------------- MODULE MCTaskTracker ---------------------------
(* Instances of TaskTracker for TLC.                                       *)
EXTENDS TaskTracker

CONSTANTS s1, s2, w1, w2, p1, p2, f1

AnyBehavior == [Sequences -> ShutdownBehaviors]
BlockOnly == {[s \in Sequences |-> "BLOCK_SHUTDOWN"]}
=============================================================================
