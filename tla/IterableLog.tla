----------------------------- MODULE IterableLog -----------------------------
(***************************************************************************)
(* What the iterable records of a persistent memory segment promise (the   *)
(* comments of PersistentMemoryAllocator::Iterator and ::MakeIterable): a  *)
(* log that only grows at its end, of which every iterator delivers the    *)
(* records in order, each of them once, whoever shares it.                 *)
(***************************************************************************)
EXTENDS Naturals, Sequences

CONSTANTS
    Records,   \* the records there can be
    Processes  \* the processes, each with one iterator

VARIABLES
    log,       \* the records in the order they were made iterable
    delivered  \* for each process what its iterator has delivered

Init ==
    /\ log = <<>>
    /\ delivered = [p \in Processes |-> <<>>]

AppendRecord(r) ==
    /\ r \notin {log[i] : i \in DOMAIN log}
    /\ log' = Append(log, r)
    /\ UNCHANGED delivered

Deliver(p) ==
    /\ Len(delivered[p]) < Len(log)
    /\ delivered' = [delivered EXCEPT ![p] = Append(@, log[Len(@) + 1])]
    /\ UNCHANGED log

\* A process that starts again iterates from the beginning.
Restart(p) ==
    /\ delivered' = [delivered EXCEPT ![p] = <<>>]
    /\ UNCHANGED log

Next ==
    \/ \E r \in Records : AppendRecord(r)
    \/ \E p \in Processes : Deliver(p) \/ Restart(p)

Spec == Init /\ [][Next]_<<log, delivered>>
=============================================================================
