----------------------------- MODULE Settlement -----------------------------
(***************************************************************************)
(* What the list of a promise's dependents promises (the comments of       *)
(* DependentList): the dependents hear how the promise was settled in the  *)
(* order in which they came, each of them once, and one that comes after   *)
(* the list was closed hears it only after all others.                     *)
(***************************************************************************)
EXTENDS Naturals, Sequences

CONSTANTS Prerequisites, Dependents

VARIABLES
    outcome,   \* how each prerequisite was settled
    closed,    \* whether its list has been closed
    accepted,  \* the dependents in its list, in the order they were inserted
    told       \* those that have heard the outcome, in the order they did

vars == <<outcome, closed, accepted, told>>

Init ==
    /\ outcome = [p \in Prerequisites |-> "unresolved"]
    /\ closed = [p \in Prerequisites |-> FALSE]
    /\ accepted = [p \in Prerequisites |-> <<>>]
    /\ told = [p \in Prerequisites |-> <<>>]

Insert(p, d) ==
    /\ ~closed[p]
    /\ accepted' = [accepted EXCEPT ![p] = Append(@, d)]
    /\ UNCHANGED <<outcome, closed, told>>

\* The first settlement counts; an empty list is closed by it.
Settle(p, o) ==
    /\ outcome[p] = "unresolved"
    /\ outcome' = [outcome EXCEPT ![p] = o]
    /\ closed' = [closed EXCEPT ![p] = (accepted[p] = <<>>)]
    /\ UNCHANGED <<accepted, told>>

Tell(p) ==
    /\ outcome[p] # "unresolved"
    /\ Len(told[p]) < Len(accepted[p])
    /\ told' = [told EXCEPT ![p] = Append(@, accepted[p][Len(@) + 1])]
    /\ UNCHANGED <<outcome, closed, accepted>>

Close(p) ==
    /\ outcome[p] # "unresolved"
    /\ told[p] = accepted[p]
    /\ closed' = [closed EXCEPT ![p] = TRUE]
    /\ UNCHANGED <<outcome, accepted, told>>

TellLate(p, d) ==
    /\ closed[p]
    /\ \A i \in DOMAIN accepted[p] : accepted[p][i] # d
    /\ told' = [told EXCEPT ![p] = Append(@, d)]
    /\ UNCHANGED <<outcome, closed, accepted>>

Next ==
    \E p \in Prerequisites :
        \/ \E o \in {"resolved", "rejected", "canceled"} : Settle(p, o)
        \/ \E d \in Dependents : Insert(p, d) \/ TellLate(p, d)
        \/ Tell(p) \/ Close(p)

Spec == Init /\ [][Next]_vars
=============================================================================
