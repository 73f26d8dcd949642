--------------------------- MODULE AbstractPromise ---------------------------
(***************************************************************************)
(* Promises that depend on other promises: prerequisites that threads      *)
(* resolve, reject or cancel while other threads create dependents of      *)
(* them.  A prerequisite's DependentList is one atomic word; a dependent   *)
(* learns how each of its prerequisites was settled and is executed,       *)
(* inline or by a posted task, or canceled.  A step is one access to       *)
(* shared memory.  Dependents have no dependents of their own here, and    *)
(* executors resolve or reject with values (no curried promises).          *)
(***************************************************************************)
EXTENDS Integers, Sequences, FiniteSets

CONSTANTS
    Prerequisites,
    Dependents,
    Needs,      \* the prerequisites of each dependent, in order
    Cancelable, \* the prerequisites that may be canceled while they execute
    None

ASSUME NeedsAssumption ==
    /\ \A d \in Dependents :
        /\ Needs[d] \in Seq(Prerequisites) /\ Needs[d] # <<>>
        /\ \A i, j \in DOMAIN Needs[d] : Needs[d][i] = Needs[d][j] => i = j
    /\ Cancelable \subseteq Prerequisites /\ None \notin Prerequisites

\* A program creates finitely many promises.
ASSUME FinitenessAssumption == IsFiniteSet(Prerequisites) /\ IsFiniteSet(Dependents)

NeededBy(d) == {Needs[d][i] : i \in DOMAIN Needs[d]}

\* One thread executes each prerequisite and settles it, another one may want
\* to cancel it; one creates each dependent, and one runs its task if it is
\* posted.
Settlers == ({"settle"} \X Prerequisites) \cup ({"cancel"} \X Cancelable)
Creators == {"create"} \X Dependents
Runners == {"run"} \X Dependents
Threads == Settlers \cup Creators \cup Runners

VARIABLES
    kind,       \* of each dependent: Promises::All, Then, or kAny of several
    list,       \* dependents_.data_ of each prerequisite
    word,       \* Node::prerequisite_ of each dependent for each prerequisite
    held,       \* the references to each prerequisite that nodes have added
    count,      \* action_prerequisite_count_
    first,      \* first_settled_prerequisite_
    value,      \* value_ of each dependent
    status,     \* the state of its own list of dependents, which is empty
    tasks,      \* the dependents posted to their task runners
    pc, loc,    \* where each thread is, and its local variables
    crash,      \* the first access that has no defined outcome
    accepted, told, runs  \* history: see Settlement; executions

lists == <<list, accepted, told>>
nodes == <<word, held>>
settling == <<count, first, value, status, tasks, runs>>
vars == <<kind, lists, nodes, settling, pc, loc, crash>>

Outcomes == {"resolved", "rejected", "canceled"}
States == Outcomes \cup {"unresolved"}
Lists == [nodes : Seq(Dependents), state : States, open : BOOLEAN]
PCs == {"start", "dispatch", "insert", "link", "retain", "addref", "tell", "count",
        "remove", "mark", "execute", "run", "finish", "cancel", "reset", "clear", "done"}

TypeOK ==
    /\ kind \in [Dependents -> {"all", "then", "any"}]
    /\ list \in [Prerequisites -> Lists]
    /\ word \in [Dependents -> [Prerequisites -> {"null", "raw", "retained"}]]
    /\ held \in [Prerequisites -> Int]
    /\ count \in [Dependents -> Int]
    /\ first \in [Dependents -> Prerequisites \cup {None}]
    /\ value \in [Dependents -> {"executor", "resolved", "rejected", "none"}]
    /\ status \in [Dependents -> States]
    /\ tasks \subseteq Dependents
    /\ pc \in [Threads -> PCs]
    /\ loc \in [Threads -> [batch : Seq(Dependents), i : Nat \ {0}, k : Nat \ {0}]]
    /\ crash \in {"none", "null", "executor", "freed"}
    /\ accepted \in [Prerequisites -> Seq(Dependents)]
    /\ told \in [Prerequisites -> Seq(Dependents)]
    /\ runs \in [Dependents -> Nat]

\* The dependent and the prerequisite a thread is concerned with: a settling
\* thread visits the dependents of its batch, a creating one inserts its
\* dependent for one prerequisite after the other.
Dep(t) == IF t \in Settlers THEN Head(loc[t].batch) ELSE t[2]
Pre(t) == IF t \in Settlers THEN t[2] ELSE Needs[t[2]][loc[t].i]
Told(t) == list[Pre(t)].state

\* The references to a prerequisite: the threads that settle it and those that
\* create its dependents have one each until their calls return.
Users(p) == {t \in Settlers : t[2] = p} \cup {t \in Creators : p \in NeededBy(t[2])}
References(p) == Cardinality({t \in Users(p) : pc[t] # "done"}) + held[p]

Init ==
    /\ kind \in {k \in [Dependents -> {"all", "then", "any"}] :
                    \A d \in Dependents : (k[d] = "then") <=> (Len(Needs[d]) = 1)}
    /\ list = [p \in Prerequisites |-> [nodes |-> <<>>, state |-> "unresolved", open |-> TRUE]]
    /\ word = [d \in Dependents |->
                 [p \in Prerequisites |-> IF p \in NeededBy(d) THEN "raw" ELSE "null"]]
    /\ held = [p \in Prerequisites |-> 0]
    /\ count = [d \in Dependents |-> Len(Needs[d])]
    /\ first = [d \in Dependents |-> None]
    /\ value = [d \in Dependents |-> "executor"]
    /\ status = [d \in Dependents |-> "unresolved"]
    /\ tasks = {}
    /\ pc = [t \in Threads |-> "start"]
    /\ loc = [t \in Threads |-> [batch |-> <<>>, i |-> 1, k |-> 1]]
    /\ crash = "none"
    /\ accepted = [p \in Prerequisites |-> <<>>]
    /\ told = [p \in Prerequisites |-> <<>>]
    /\ runs = [d \in Dependents |-> 0]

-----------------------------------------------------------------------------
At(t, place) == crash = "none" /\ pc[t] = place

Goto(t, place) == pc' = [pc EXCEPT ![t] = place]

\* The end of a visit: the settling thread goes on with the next dependent,
\* the creating one with the next prerequisite, unless it was told that the
\* dependent has been canceled.
Resume(t, more) ==
    IF t \in Settlers
    THEN /\ Goto(t, "dispatch")
         /\ loc' = [loc EXCEPT ![t].batch = Tail(@), ![t].k = 1]
    ELSE IF t \in Creators /\ more /\ loc[t].i < Len(Needs[t[2]])
    THEN /\ Goto(t, "insert")
         /\ loc' = [loc EXCEPT ![t].i = @ + 1, ![t].k = 1]
    ELSE Goto(t, "done") /\ loc' = [loc EXCEPT ![t].k = 1]

-----------------------------------------------------------------------------
(* DependentList::SettleAndDispatchAllDependents.  An exchange that fails    *)
(* has changed nothing and is tried again with the word it found, so the     *)
(* load and the exchange that succeeds are one step.                         *)

\* Mutation of Round: the list is closed as its dependents are taken.
RoundClosing(t, o) ==
    LET p == t[2] IN
    /\ list' = [list EXCEPT ![p] = [nodes |-> <<>>, state |-> o, open |-> FALSE]]
    /\ IF list[p].nodes = <<>>
       THEN Goto(t, "done") /\ UNCHANGED loc
       ELSE /\ Goto(t, "dispatch")
            /\ loc' = [loc EXCEPT ![t].batch = list[p].nodes]

\* One round: take the dependents there are, leaving the list open so that
\* those that come meanwhile are told after them, or close the empty list.
Round(t, o) ==
    LET p == t[2] IN
    /\ list' = [list EXCEPT ![p] =
                  [nodes |-> <<>>, state |-> o, open |-> list[p].nodes # <<>>]]
    /\ IF list[p].nodes = <<>>
       THEN Goto(t, "done") /\ UNCHANGED loc
       ELSE /\ Goto(t, "dispatch")
            /\ loc' = [loc EXCEPT ![t].batch = list[p].nodes]

\* A prerequisite's executor has run, or it is canceled.  The first to settle
\* it wins.
Settle(t) ==
    /\ At(t, "start") /\ t \in Settlers
    /\ IF list[t[2]].state # "unresolved"
       THEN Goto(t, "done") /\ UNCHANGED <<list, loc>>
       ELSE \E o \in IF t[1] = "cancel" THEN {"canceled"} ELSE Outcomes : Round(t, o)
    /\ UNCHANGED <<kind, accepted, told, nodes, settling, crash>>

\* Mutation of SettleRest: dependents that came meanwhile are not taken.
SettleWithoutRest(t) ==
    /\ At(t, "dispatch") /\ loc[t].batch = <<>>
    /\ list' = [list EXCEPT ![t[2]].open = FALSE]
    /\ Goto(t, "done")
    /\ UNCHANGED <<kind, accepted, told, nodes, settling, loc, crash>>

\* All of a batch have been told.
SettleRest(t) ==
    /\ At(t, "dispatch") /\ loc[t].batch = <<>>
    /\ Round(t, list[t[2]].state)
    /\ UNCHANGED <<kind, accepted, told, nodes, settling, crash>>

-----------------------------------------------------------------------------
(* AddAsDependentForAllPrerequisites and DependentList::Insert.              *)

\* Nothing can have cleared the first node yet.
StartCreating(t) ==
    /\ At(t, "start") /\ t \in Creators
    /\ Goto(t, "link")
    /\ UNCHANGED <<kind, lists, nodes, settling, loc, crash>>

\* The next node; its prerequisite must not have been cleared.
InsertDependent(t) ==
    /\ At(t, "insert")
    /\ IF word[Dep(t)][Pre(t)] = "null"
       THEN crash' = "null" /\ UNCHANGED pc
       ELSE Goto(t, "link") /\ UNCHANGED crash
    /\ UNCHANGED <<kind, lists, nodes, settling, loc>>

\* Insert: the node is linked, or the list was closed and says how the
\* prerequisite was settled.
LinkNode(t) ==
    LET p == Pre(t) IN
    /\ At(t, "link")
    /\ IF list[p].open
       THEN /\ list' = [list EXCEPT ![p].nodes = Append(@, t[2])]
            /\ accepted' = [accepted EXCEPT ![p] = Append(@, t[2])]
            /\ Resume(t, TRUE)
       ELSE /\ Goto(t, IF Told(t) = "canceled" THEN "tell" ELSE "retain")
            /\ UNCHANGED <<list, accepted, loc>>
    /\ UNCHANGED <<kind, told, nodes, settling, crash>>

-----------------------------------------------------------------------------
(* Node: references to settled prerequisites.                                *)

\* Mutation of RetainSettledPrerequisite: only DispatchAll retains.
RetainWhenListed(t) ==
    /\ At(t, "retain") \/ (At(t, "dispatch") /\ loc[t].batch # <<>>)
    /\ IF t \in Settlers /\ Told(t) # "canceled" /\ word[Dep(t)][Pre(t)] = "raw"
       THEN word' = [word EXCEPT ![Dep(t)][Pre(t)] = "retained"] /\ Goto(t, "addref")
       ELSE UNCHANGED word /\ Goto(t, "tell")
    /\ UNCHANGED <<kind, lists, held, settling, loc, crash>>

\* RetainSettledPrerequisite, up to the exchange, which fails if the node has
\* been cleared.  DispatchAll calls it for the next dependent of the batch, in
\* the order of insertion, unless the prerequisite was canceled.
RetainSettledPrerequisite(t) ==
    /\ At(t, "retain") \/ (At(t, "dispatch") /\ loc[t].batch # <<>>)
    /\ IF Told(t) # "canceled" /\ word[Dep(t)][Pre(t)] = "raw"
       THEN word' = [word EXCEPT ![Dep(t)][Pre(t)] = "retained"] /\ Goto(t, "addref")
       ELSE UNCHANGED word /\ Goto(t, "tell")
    /\ UNCHANGED <<kind, lists, held, settling, loc, crash>>

\* AddRef after the exchange; the prerequisite may already be gone.
AddRef(t) ==
    LET p == Pre(t) IN
    /\ At(t, "addref")
    /\ IF References(p) = 0 THEN crash' = "freed" /\ UNCHANGED <<held, pc>>
       ELSE /\ held' = [held EXCEPT ![p] = @ + 1]
            /\ Goto(t, "tell")
            /\ UNCHANGED crash
    /\ UNCHANGED <<kind, lists, word, settling, loc>>

\* ClearPrerequisite.
Cleared(d, p) ==
    /\ word' = [word EXCEPT ![d][p] = "null"]
    /\ held' = [held EXCEPT ![p] = IF word[d][p] = "retained" THEN @ - 1 ELSE @]

-----------------------------------------------------------------------------
(* A dependent hears of a prerequisite.                                      *)

\* DispatchPromise: only Promises::All has no task runner.
Dispatch(t) ==
    IF kind[Dep(t)] = "all"
    THEN Goto(t, "execute") /\ UNCHANGED <<tasks, loc>>
    ELSE tasks' = tasks \cup {Dep(t)} /\ Resume(t, TRUE)

\* Mutation of PrerequisitePolicy: kAny is taken for kAll.
PolicyAll(d) == IF value[d] # "executor" THEN "never" ELSE "all"

PrerequisitePolicy(d) ==
    IF value[d] # "executor" THEN "never" ELSE IF kind[d] = "any" THEN "any" ELSE "all"

\* OnPrerequisiteResolved, ...Rejected and ...Cancelled up to the policy; the
\* last one returns false unless it is kAny that goes on.
Tell(t) ==
    LET policy == PrerequisitePolicy(Dep(t)) IN
    /\ At(t, "tell")
    /\ told' = [told EXCEPT ![Pre(t)] = Append(@, Dep(t))]
    /\ IF Told(t) = "rejected" \/ (Told(t) = "resolved" /\ policy = "any")
       THEN Goto(t, "mark") /\ UNCHANGED loc
       ELSE IF policy = "never"
       THEN Resume(t, Told(t) # "canceled")
       ELSE /\ Goto(t, IF Told(t) = "canceled" /\ policy = "all" THEN "cancel" ELSE "count")
            /\ UNCHANGED loc
    /\ UNCHANGED <<kind, list, accepted, nodes, settling, crash>>

\* DecrementPrerequisiteCountAndCheckIfZero: the last resolved prerequisite
\* dispatches a kAll promise, the last canceled one cancels a kAny promise.
CountDown(t) ==
    LET d == Dep(t) IN
    /\ At(t, "count")
    /\ count' = [count EXCEPT ![d] = @ - 1]
    /\ IF Told(t) = "resolved"
       THEN IF count[d] = 1 THEN Dispatch(t) ELSE Resume(t, TRUE) /\ UNCHANGED tasks
       ELSE Goto(t, IF count[d] = 1 THEN "cancel" ELSE "remove") /\ UNCHANGED <<tasks, loc>>
    /\ UNCHANGED <<kind, lists, nodes, first, value, status, runs, crash>>

\* RemoveCanceledPrerequisite.
RemoveCanceled(t) ==
    /\ At(t, "remove")
    /\ Cleared(Dep(t), Pre(t))
    /\ Resume(t, TRUE)
    /\ UNCHANGED <<kind, lists, settling, crash>>

\* MarkPrerequisiteAsSettling: the first to settle dispatches the promise.
MarkFirst(t) ==
    LET d == Dep(t) IN
    /\ At(t, "mark")
    /\ IF first[d] = None
       THEN first' = [first EXCEPT ![d] = Pre(t)] /\ Dispatch(t)
       ELSE Resume(t, TRUE) /\ UNCHANGED <<first, tasks>>
    /\ UNCHANGED <<kind, lists, nodes, count, value, status, runs, crash>>

-----------------------------------------------------------------------------
(* Execution and cancellation of a dependent.                                *)

\* A promise without an executor has been canceled.
Executing(t) == Goto(t, IF value[Dep(t)] = "executor" THEN "run" ELSE "cancel")

\* Execute, in the thread that told the promise ...
Execute(t) ==
    /\ At(t, "execute")
    /\ Executing(t)
    /\ UNCHANGED <<kind, lists, nodes, settling, loc, crash>>

\* ... or in its task.
RunTask(t) ==
    /\ At(t, "start") /\ t \in Runners /\ t[2] \in tasks
    /\ tasks' = tasks \ {t[2]}
    /\ Executing(t)
    /\ UNCHANGED <<kind, lists, nodes, count, first, value, status, runs, loc, crash>>

\* How the executor settles: Promises::All rejects if the first settled
\* prerequisite was rejected; others do as they like.
Results(d) ==
    IF kind[d] # "all" THEN {"resolved", "rejected"}
    ELSE IF first[d] # None /\ list[first[d]].state = "rejected" THEN {"rejected"}
    ELSE {"resolved"}

\* The executor runs, if it has not been reset meanwhile.
RunExecutor(t) ==
    LET d == Dep(t) IN
    /\ At(t, "run")
    /\ IF value[d] # "executor"
       THEN crash' = "executor" /\ UNCHANGED <<value, runs, pc>>
       ELSE /\ \E r \in Results(d) : value' = [value EXCEPT ![d] = r]
            /\ runs' = [runs EXCEPT ![d] = @ + 1]
            /\ Goto(t, "finish")
            /\ UNCHANGED crash
    /\ UNCHANGED <<kind, lists, nodes, count, first, status, tasks, loc>>

\* OnResolved or OnRejected, unless the value has been reset; the settlement
\* fails if the promise was canceled meanwhile.
Finish(t) ==
    LET d == Dep(t) IN
    /\ At(t, "finish")
    /\ IF value[d] \in {"resolved", "rejected"}
       THEN /\ status' = [status EXCEPT ![d] = IF @ = "unresolved" THEN value[d] ELSE @]
            /\ Goto(t, "clear") /\ UNCHANGED loc
       ELSE Resume(t, TRUE) /\ UNCHANGED status
    /\ UNCHANGED <<kind, lists, nodes, count, first, value, tasks, runs, crash>>

\* OnCanceled does nothing if the promise is settled.
OnCanceled(t) ==
    LET d == Dep(t) IN
    /\ At(t, "cancel")
    /\ IF status[d] = "unresolved"
       THEN status' = [status EXCEPT ![d] = "canceled"] /\ Goto(t, "reset") /\ UNCHANGED loc
       ELSE Resume(t, Told(t) # "canceled") /\ UNCHANGED status
    /\ UNCHANGED <<kind, lists, nodes, count, first, value, tasks, runs, crash>>

ResetValue(t) ==
    /\ At(t, "reset")
    /\ value' = [value EXCEPT ![Dep(t)] = "none"]
    /\ Goto(t, "clear")
    /\ UNCHANGED <<kind, lists, nodes, count, first, status, tasks, runs, loc, crash>>

\* AdjacencyList::Clear, node by node.
Clear(t) ==
    LET d == Dep(t)
        k == loc[t].k
    IN
    /\ At(t, "clear")
    /\ Cleared(d, Needs[d][k])
    /\ IF k = Len(Needs[d]) THEN Resume(t, Told(t) # "canceled")
       ELSE loc' = [loc EXCEPT ![t].k = k + 1] /\ UNCHANGED pc
    /\ UNCHANGED <<kind, lists, settling, crash>>

-----------------------------------------------------------------------------
\* A step of a thread that is in a call, or whose task has been posted.
Step(t) ==
    \/ SettleRest(t)
    \/ InsertDependent(t) \/ LinkNode(t) \/ RetainSettledPrerequisite(t) \/ AddRef(t)
    \/ Tell(t) \/ CountDown(t) \/ RemoveCanceled(t) \/ MarkFirst(t)
    \/ Execute(t) \/ RunTask(t) \/ RunExecutor(t) \/ Finish(t)
    \/ OnCanceled(t) \/ ResetValue(t) \/ Clear(t)

Next == \E t \in Threads : Settle(t) \/ StartCreating(t) \/ Step(t)

Spec == Init /\ [][Next]_vars

\* As long as a thread is in a call or a task is posted, one of them goes on (a
\* call has no more than so many steps, so that is enough); whether anything is
\* settled or created is up to the users.
Fairness == WF_vars(\E t \in Threads : Step(t))

LiveSpec == Spec /\ Fairness

-----------------------------------------------------------------------------
\* Each list keeps what DependentList promises, however insertions race with
\* the rounds of a settlement: the dependents hear the outcome in the order of
\* their insertion, once, and an insertion that fails comes after all of them
\* (dependent_list.h: "It is guaranteed that Insert() failures will
\* happen-after all nodes have been consumed").
Queue == INSTANCE Settlement WITH
            outcome <- [p \in Prerequisites |-> list[p].state],
            closed <- [p \in Prerequisites |-> ~list[p].open]
ImplementsSettlement == Queue!Spec

Settled(p, o) == list[p].state = o

\* A dependent is executed once at most and ends as its prerequisites did,
\* whatever the order in which threads settle them and insert it:
\* Promises::All resolves if all do, rejects if one does and is canceled if
\* one is; kAny settles with one of them and is canceled if all are
\* (abstract_promise.cpp:371).
OutcomeJustified ==
    \A d \in Dependents :
        /\ runs[d] <= 1
        /\ status[d] = "canceled" =>
             IF kind[d] = "any" THEN \A p \in NeededBy(d) : Settled(p, "canceled")
             ELSE \E p \in NeededBy(d) : Settled(p, "canceled")
        /\ status[d] = "resolved" /\ kind[d] = "all" =>
             \A p \in NeededBy(d) : Settled(p, "resolved")
        /\ status[d] = "rejected" /\ kind[d] = "all" =>
             \E p \in NeededBy(d) : Settled(p, "rejected")
        /\ runs[d] = 1 =>
             \E p \in NeededBy(d) : Settled(p, "resolved") \/ Settled(p, "rejected")

\* The prerequisites whose values an executor reads.
ReadBy(d) == IF first[d] = None THEN NeededBy(d) ELSE {first[d]}

\* When an executor runs, the prerequisites whose values it reads are retained
\* by the dependent and have not been destroyed, although the threads that
\* settled them and those that created the dependent may have dropped their
\* references (abstract_promise.h:64, "to ensure P1's |value_| is available
\* when P2's executor runs").
ValuesKept ==
    \A t \in Threads :
        (pc[t] = "run" /\ value[Dep(t)] = "executor") =>
            \A p \in ReadBy(Dep(t)) : word[Dep(t)][p] = "retained" /\ References(p) > 0

\* Once all prerequisites of a dependent are settled and its creation has
\* begun, the dependent is settled, unless the program crashed.
DependentsSettle ==
    \A d \in Dependents :
        (/\ \A p \in NeededBy(d) : ~Settled(p, "unresolved")
         /\ pc[<<"create", d>>] # "start")
          ~> status[d] # "unresolved" \/ crash # "none"

\* The assertion in AddAsDependentForAllPrerequisites that the next node still
\* has its prerequisite (abstract_promise.cpp:95).
NodesStayWhileInserting == crash # "null"
=============================================================================
