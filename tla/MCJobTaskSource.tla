-------------------------- MODULE MCJobTaskSource --------------------------
(* Instances of JobTaskSource for TLC.                                      *)
EXTENDS JobTaskSource

\* One optional event of each kind.
OneOfEach ==
    [raise |-> 1, poolYield |-> 1, spuriousWakeup |-> 1, shutdown |-> 1]

\* No shutdown, no spurious wakeup: the races of threads alone.
QuietBudget ==
    [raise |-> 1, poolYield |-> 0, spuriousWakeup |-> 0, shutdown |-> 0]
=============================================================================
