---------------------------- MODULE OperationsGate ----------------------------
(***************************************************************************)
(* What an OperationsController promises (task/common/                     *)
(* operations_controller.h): an operation begins only after                *)
(* StartAcceptingOperations and before ShutdownAndWaitForZeroOperations,   *)
(* and every operation has ended when the latter returns.                  *)
(***************************************************************************)
CONSTANT Threads

VARIABLES
    phase,    \* "closed", "open", "closing" or "over"
    running   \* the threads that perform an operation

vars == <<phase, running>>

Init == phase = "closed" /\ running = {}

Open == phase = "closed" /\ phase' = "open" /\ UNCHANGED running

BeginOperation(t) ==
    /\ phase = "open"
    /\ t \notin running
    /\ running' = running \cup {t}
    /\ UNCHANGED phase

EndOperation(t) ==
    /\ t \in running
    /\ running' = running \ {t}
    /\ UNCHANGED phase

Close == phase \in {"closed", "open"} /\ phase' = "closing" /\ UNCHANGED running

\* Shutdown returns, from its first step on when nothing was going on.
Finish ==
    /\ phase # "over"
    /\ running = {}
    /\ phase' = "over"
    /\ UNCHANGED running

Next ==
    \/ Open \/ Close \/ Finish
    \/ \E t \in Threads : BeginOperation(t) \/ EndOperation(t)

Spec == Init /\ [][Next]_vars
=============================================================================
