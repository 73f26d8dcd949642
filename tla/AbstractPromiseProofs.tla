------------------------ MODULE AbstractPromiseProofs ------------------------
(***************************************************************************)
(* Theorems about AbstractPromise.                                         *)
(*   TypesHold: the types, with the places threads may be at (PromiseInv). *)
(*   ListsImplementSettlement: the lists of dependents implement           *)
(*     Settlement, from the order that lists, batches and places keep      *)
(*     (ListInv).                                                          *)
(*   OutcomesFollow: a dependent ends as its prerequisites did, from who   *)
(*     has heard of what (VisitInv), what is counted and who is first      *)
(*     (CountInv, FirstInv), when a dependent is launched (LaunchInv), and *)
(*     why it has its result (ResultInv).                                  *)
(*   ValuesAreKept: executors read prerequisites that are alive, from      *)
(*     which nodes have been retained or cleared (WordInv) and how many    *)
(*     references nodes have (HeldInv).                                    *)
(***************************************************************************)
EXTENDS AbstractPromise, FiniteSetTheorems, TLAPS

\* A settling thread that visits a dependent has it at the head of its batch,
\* and never inserts anything.
VisitsItsBatch ==
    \A t \in Settlers :
        /\ pc[t] \notin {"start", "dispatch", "done"} => loc[t].batch # <<>>
        /\ pc[t] \notin {"insert", "link"}

\* The others are at one of the prerequisites of their dependent and dispatch
\* no batch, and a task inserts nothing.
AtAPrerequisite ==
    /\ \A t \in Creators \cup Runners :
          loc[t].i \in DOMAIN Needs[t[2]] /\ pc[t] # "dispatch"
    /\ \A t \in Runners : pc[t] \notin {"insert", "link"}

PromiseInv == TypeOK /\ VisitsItsBatch /\ AtAPrerequisite

-----------------------------------------------------------------------------
LEMMA KindsOfThreads ==
    /\ \A t \in Settlers : t[2] \in Prerequisites /\ t \notin Creators \cup Runners
    /\ \A t \in Creators : t[2] \in Dependents /\ t \notin Runners
    /\ \A t \in Runners : t[2] \in Dependents
BY NeedsAssumption DEF Settlers, Creators, Runners

LEMMA Initially == Init => PromiseInv
<1> SUFFICES ASSUME Init PROVE PromiseInv
  OBVIOUS
<1> USE DEF Init
<1>1. \A d \in Dependents : Needs[d] \in Seq(Prerequisites) /\ Len(Needs[d]) \in Nat \ {0}
                              /\ 1 \in DOMAIN Needs[d]
  BY NeedsAssumption
<1>2. TypeOK
  BY <1>1 DEF TypeOK, Lists, States, Outcomes, PCs
<1>3. VisitsItsBatch /\ AtAPrerequisite
  BY <1>1, KindsOfThreads DEF VisitsItsBatch, AtAPrerequisite, Threads
<1> QED
  BY <1>2, <1>3 DEF PromiseInv

\* The dependent and the prerequisite of a thread in a visit.
LEMMA PlaceOfVisit ==
    ASSUME PromiseInv, NEW t \in Threads, pc[t] \notin {"start", "dispatch", "done"}
    PROVE  Dep(t) \in Dependents /\ Pre(t) \in Prerequisites
<1>1. CASE t \in Settlers
  BY <1>1, KindsOfThreads DEF PromiseInv, TypeOK, VisitsItsBatch, Dep, Pre, Threads
<1>2. CASE t \in Creators \cup Runners
  <2>1. Needs[t[2]] \in Seq(Prerequisites) /\ loc[t].i \in DOMAIN Needs[t[2]]
    BY <1>2, KindsOfThreads, NeedsAssumption DEF PromiseInv, AtAPrerequisite
  <2> QED
    BY <1>2, <2>1, KindsOfThreads DEF Dep, Pre, Threads
<1> QED
  BY <1>1, <1>2 DEF Threads

\* The local variables of threads.
Places == [batch : Seq(Dependents), i : Nat \ {0}, k : Nat \ {0}]

\* What a step of a thread does to its place; the rest of the invariant is
\* about the other threads or variables.
Moves(t) ==
    /\ pc' \in [Threads -> PCs]
    /\ loc' \in [Threads -> Places]
    /\ \A u \in Threads \ {t} : pc'[u] = pc[u] /\ loc'[u] = loc[u]
    /\ t \in Settlers =>
         /\ pc'[t] \notin {"start", "dispatch", "done"} => loc'[t].batch # <<>>
         /\ pc'[t] \notin {"insert", "link"}
    /\ t \in Creators \cup Runners =>
          loc'[t].i \in DOMAIN Needs[t[2]] /\ pc'[t] # "dispatch"
    /\ t \in Runners => pc'[t] \notin {"insert", "link"}

LEMMA MovesKeepPlaces ==
    ASSUME PromiseInv, NEW t \in Threads, Moves(t)
    PROVE  VisitsItsBatch' /\ AtAPrerequisite'
BY DEF PromiseInv, VisitsItsBatch, AtAPrerequisite, Moves, Threads

LEMMA StayMoves ==
    ASSUME PromiseInv, NEW t \in Threads, UNCHANGED <<pc, loc>>
    PROVE  Moves(t)
BY DEF PromiseInv, TypeOK, VisitsItsBatch, AtAPrerequisite, Moves, Threads, Places

\* To go elsewhere within a visit.
LEMMA GotoMoves ==
    ASSUME PromiseInv, NEW t \in Threads, NEW place \in PCs,
           pc[t] \notin {"start", "dispatch", "done"} \/ t \notin Settlers
             \/ place = "done" \/ loc[t].batch # <<>>,
           place \notin {"insert", "link"} \/ t \in Creators, place # "dispatch",
           Goto(t, place), UNCHANGED loc
    PROVE  Moves(t)
<1>1. t \in Creators => t \notin Settlers /\ t \notin Runners
  BY KindsOfThreads
<1> QED
  BY <1>1 DEF PromiseInv, TypeOK, VisitsItsBatch, AtAPrerequisite, Moves, Goto, Threads, Places

LEMMA ResumeMoves ==
    ASSUME PromiseInv, NEW t \in Threads, NEW more,
           pc[t] \notin {"start", "dispatch", "done"},
           Resume(t, more)
    PROVE  Moves(t)
<1>1. pc \in [Threads -> PCs] /\ loc \in [Threads -> Places]
  BY DEF PromiseInv, TypeOK, Places
<1>2. 1 \in Nat \ {0} /\ {"dispatch", "insert", "done"} \subseteq PCs
  BY DEF PCs
<1>3. CASE t \in Settlers
  <2>1. Tail(loc[t].batch) \in Seq(Dependents)
    BY <1>1, <1>3 DEF PromiseInv, VisitsItsBatch, Places
  <2>2. /\ pc' = [pc EXCEPT ![t] = "dispatch"]
        /\ loc' = [loc EXCEPT ![t].batch = Tail(loc[t].batch), ![t].k = 1]
    BY <1>3 DEF Resume, Goto
  <2>3. /\ loc' \in [Threads -> Places] /\ \A u \in Threads \ {t} : loc'[u] = loc[u]
    BY <1>1, <1>2, <2>1, <2>2 DEF Places
  <2> QED
    BY <1>1, <1>2, <1>3, <2>2, <2>3, KindsOfThreads DEF Moves
<1>4. CASE t \notin Settlers
  <2>1. t \in Creators \cup Runners /\ loc[t].i \in DOMAIN Needs[t[2]]
    BY <1>4 DEF Threads, PromiseInv, AtAPrerequisite
  <2>2. Needs[t[2]] \in Seq(Prerequisites) /\ Len(Needs[t[2]]) \in Nat
    BY <2>1, KindsOfThreads, NeedsAssumption
  <2>3. CASE t \in Creators /\ more /\ loc[t].i < Len(Needs[t[2]])
    <3>1. loc[t].i + 1 \in DOMAIN Needs[t[2]] /\ loc[t].i + 1 \in Nat \ {0}
      BY <2>1, <2>2, <2>3
    <3>2. /\ pc' = [pc EXCEPT ![t] = "insert"]
          /\ loc' = [loc EXCEPT ![t].i = loc[t].i + 1, ![t].k = 1]
      BY <1>4, <2>3 DEF Resume, Goto
    <3>3. /\ loc' \in [Threads -> Places] /\ \A u \in Threads \ {t} : loc'[u] = loc[u]
          /\ loc'[t].i = loc[t].i + 1
      BY <1>1, <1>2, <3>1, <3>2 DEF Places
    <3> QED
      BY <1>1, <1>2, <1>4, <2>3, <3>1, <3>2, <3>3, KindsOfThreads DEF Moves
  <2>4. CASE ~(t \in Creators /\ more /\ loc[t].i < Len(Needs[t[2]]))
    <3>1. /\ pc' = [pc EXCEPT ![t] = "done"]
          /\ loc' = [loc EXCEPT ![t].k = 1]
      BY <1>4, <2>4 DEF Resume, Goto
    <3>2. /\ loc' \in [Threads -> Places] /\ \A u \in Threads \ {t} : loc'[u] = loc[u]
          /\ loc'[t].i = loc[t].i
      BY <1>1, <1>2, <3>1 DEF Places
    <3> QED
      BY <1>1, <1>2, <1>4, <2>1, <3>1, <3>2 DEF Moves
  <2> QED
    BY <2>3, <2>4
<1> QED
  BY <1>3, <1>4

-----------------------------------------------------------------------------
\* A round of a settlement.
LEMMA RoundTypes ==
    ASSUME PromiseInv, NEW t \in Settlers, NEW o \in States,
           pc[t] \in {"start", "dispatch"}, Round(t, o)
    PROVE  Moves(t) /\ list' \in [Prerequisites -> Lists]
<1> USE DEF PromiseInv, TypeOK
<1>1. t[2] \in Prerequisites /\ t \in Threads /\ t \notin Creators \cup Runners
  BY KindsOfThreads DEF Threads
<1>2. list' \in [Prerequisites -> Lists]
  BY <1>1 DEF Round, Lists, States
<1>3. CASE list[t[2]].nodes = <<>>
  <2>1. Goto(t, "done") /\ UNCHANGED loc
    BY <1>3 DEF Round
  <2> QED
    BY <1>1, <1>2, <2>1, GotoMoves DEF PCs
<1>4. CASE list[t[2]].nodes # <<>>
  <2>1. pc' = [pc EXCEPT ![t] = "dispatch"]
          /\ loc' = [loc EXCEPT ![t].batch = list[t[2]].nodes]
    BY <1>4 DEF Round, Goto
  <2>2. list[t[2]].nodes \in Seq(Dependents) /\ loc \in [Threads -> Places]
    BY <1>1 DEF Lists, Places
  <2>3. loc' \in [Threads -> Places] /\ \A u \in Threads \ {t} : loc'[u] = loc[u]
    BY <1>1, <2>1, <2>2 DEF Places
  <2> QED
    BY <1>1, <1>2, <2>1, <2>3 DEF Moves, PCs
<1> QED
  BY <1>2, <1>3, <1>4

\* Thread and visit of an action that goes elsewhere within the visit.
LEMMA VisitGoes ==
    ASSUME PromiseInv, NEW t \in Threads, NEW from \in PCs \ {"start", "dispatch", "done"},
           NEW to \in PCs \ {"dispatch", "insert", "link"}, At(t, from), Goto(t, to), UNCHANGED loc
    PROVE  Moves(t)
<1>1. pc[t] \notin {"start", "dispatch", "done"}
  BY DEF At
<1> QED
  BY <1>1, GotoMoves

LEMMA DispatchTypes ==
    ASSUME PromiseInv, NEW t \in Threads, pc[t] \notin {"start", "dispatch", "done"},
           Dispatch(t)
    PROVE  Moves(t) /\ tasks' \subseteq Dependents
<1>1. CASE kind[Dep(t)] = "all"
  <2>1. Goto(t, "execute") /\ UNCHANGED <<tasks, loc>>
    BY <1>1 DEF Dispatch
  <2>2. tasks' \subseteq Dependents
    BY <2>1 DEF PromiseInv, TypeOK
  <2> QED
    BY <2>1, <2>2, GotoMoves DEF PCs
<1>2. CASE kind[Dep(t)] # "all"
  <2>1. tasks' = tasks \cup {Dep(t)} /\ Resume(t, TRUE)
    BY <1>2 DEF Dispatch
  <2>2. tasks' \subseteq Dependents
    BY <2>1, PlaceOfVisit DEF PromiseInv, TypeOK
  <2> QED
    BY <2>1, <2>2, ResumeMoves
<1> QED
  BY <1>1, <1>2

\* The types of all variables but the places of threads.
DataOK ==
    /\ kind \in [Dependents -> {"all", "then", "any"}]
    /\ list \in [Prerequisites -> Lists]
    /\ word \in [Dependents -> [Prerequisites -> {"null", "raw", "retained"}]]
    /\ held \in [Prerequisites -> Int]
    /\ count \in [Dependents -> Int]
    /\ first \in [Dependents -> Prerequisites \cup {None}]
    /\ value \in [Dependents -> {"executor", "resolved", "rejected", "none"}]
    /\ status \in [Dependents -> States]
    /\ tasks \subseteq Dependents
    /\ crash \in {"none", "null", "executor", "freed"}
    /\ accepted \in [Prerequisites -> Seq(Dependents)]
    /\ told \in [Prerequisites -> Seq(Dependents)]
    /\ runs \in [Dependents -> Nat]

LEMMA TypesOfParts ==
    /\ PromiseInv => DataOK
    /\ \A t \in Threads : PromiseInv /\ Moves(t) /\ DataOK' => PromiseInv'
<1>1. PromiseInv => DataOK
  BY DEF PromiseInv, TypeOK, DataOK
<1>2. ASSUME NEW t \in Threads, PromiseInv, Moves(t), DataOK'
      PROVE  PromiseInv'
  <2>1. TypeOK'
    BY <1>2 DEF TypeOK, DataOK, Moves, Places
  <2> QED
    BY <1>2, <2>1, MovesKeepPlaces DEF PromiseInv
<1> QED
  BY <1>1, <1>2

-----------------------------------------------------------------------------
LEMMA SettlementKeepsInv ==
    ASSUME PromiseInv, NEW t \in Threads, Settle(t) \/ SettleRest(t)
    PROVE  PromiseInv'
<1>1. DataOK
  BY TypesOfParts
<1>2. CASE Settle(t)
  <2>1. t \in Settlers /\ pc[t] = "start"
    BY <1>2 DEF Settle, At
  <2>2. CASE list[t[2]].state # "unresolved"
    <3>1. Goto(t, "done") /\ UNCHANGED <<list, loc>>
      BY <1>2, <2>2 DEF Settle
    <3>2. Moves(t)
      BY <3>1, GotoMoves DEF PCs
    <3>3. DataOK'
      BY <1>1, <1>2, <3>1 DEF DataOK, Settle, nodes, settling
    <3> QED
      BY <3>2, <3>3, TypesOfParts
  <2>3. CASE list[t[2]].state = "unresolved"
    <3>1. PICK o \in Outcomes : Round(t, o)
      BY <1>2, <2>3 DEF Settle, Outcomes
    <3>2. Moves(t) /\ list' \in [Prerequisites -> Lists]
      BY <2>1, <3>1, RoundTypes DEF States
    <3>3. DataOK'
      BY <1>1, <1>2, <3>2 DEF DataOK, Settle, nodes, settling
    <3> QED
      BY <3>2, <3>3, TypesOfParts
  <2> QED
    BY <2>2, <2>3
<1>3. CASE SettleRest(t)
  <2>1. pc[t] = "dispatch" /\ Round(t, list[t[2]].state)
    BY <1>3 DEF SettleRest, At
  <2>2. t \in Settlers /\ t[2] \in Prerequisites
    BY <2>1, KindsOfThreads DEF Threads, PromiseInv, AtAPrerequisite
  <2>3. list[t[2]].state \in States
    BY <1>1, <2>2 DEF DataOK, Lists
  <2>4. Moves(t) /\ list' \in [Prerequisites -> Lists]
    BY <2>1, <2>2, <2>3, RoundTypes
  <2>5. DataOK'
    BY <1>1, <1>3, <2>4 DEF DataOK, SettleRest, nodes, settling
  <2> QED
    BY <2>4, <2>5, TypesOfParts
<1> QED
  BY <1>2, <1>3

LEMMA CreationKeepsInv ==
    ASSUME PromiseInv, NEW t \in Threads,
           StartCreating(t) \/ InsertDependent(t) \/ LinkNode(t)
    PROVE  PromiseInv'
<1>1. DataOK
  BY TypesOfParts
<1>2. CASE StartCreating(t)
  <2>1. t \in Creators /\ t \notin Settlers /\ Goto(t, "link") /\ UNCHANGED loc
    BY <1>2, KindsOfThreads DEF StartCreating
  <2>2. Moves(t)
    BY <2>1, GotoMoves DEF PCs
  <2>3. DataOK'
    BY <1>1, <1>2 DEF DataOK, StartCreating, lists, nodes, settling
  <2> QED
    BY <2>2, <2>3, TypesOfParts
<1>3. CASE InsertDependent(t)
  <2>1. t \in Creators /\ t \notin Settlers
    BY <1>3, KindsOfThreads DEF InsertDependent, At, Threads, PromiseInv, VisitsItsBatch,
                                AtAPrerequisite
  <2>2. Moves(t)
    <3>1. CASE word[Dep(t)][Pre(t)] = "null"
      BY <1>3, <3>1, StayMoves DEF InsertDependent
    <3>2. CASE word[Dep(t)][Pre(t)] # "null"
      <4>1. Goto(t, "link") /\ UNCHANGED loc
        BY <1>3, <3>2 DEF InsertDependent
      <4> QED
        BY <2>1, <4>1, GotoMoves DEF PCs
    <3> QED
      BY <3>1, <3>2
  <2>3. DataOK'
    BY <1>1, <1>3 DEF DataOK, InsertDependent, lists, nodes, settling
  <2> QED
    BY <2>2, <2>3, TypesOfParts
<1>4. CASE LinkNode(t)
  <2>1. t \in Creators /\ t \notin Settlers /\ pc[t] \notin {"start", "dispatch", "done"}
    BY <1>4, KindsOfThreads DEF LinkNode, At, Threads, PromiseInv, VisitsItsBatch,
                                AtAPrerequisite
  <2>2. t[2] \in Dependents /\ Pre(t) \in Prerequisites
    BY <2>1, PlaceOfVisit, KindsOfThreads
  <2>3. CASE list[Pre(t)].open
    <3>1. /\ list' = [list EXCEPT ![Pre(t)].nodes = Append(@, t[2])]
          /\ accepted' = [accepted EXCEPT ![Pre(t)] = Append(@, t[2])]
          /\ Resume(t, TRUE)
      BY <1>4, <2>3 DEF LinkNode
    <3>2. Moves(t)
      BY <2>1, <3>1, ResumeMoves
    <3>3. list' \in [Prerequisites -> Lists] /\ accepted' \in [Prerequisites -> Seq(Dependents)]
      <4>1. /\ Append(list[Pre(t)].nodes, t[2]) \in Seq(Dependents)
            /\ Append(accepted[Pre(t)], t[2]) \in Seq(Dependents)
        BY <1>1, <2>2 DEF DataOK, Lists
      <4>2. list' = [list EXCEPT ![Pre(t)].nodes = Append(list[Pre(t)].nodes, t[2])]
        BY <3>1
      <4>3. list' \in [Prerequisites -> Lists]
        BY <1>1, <2>2, <4>1, <4>2 DEF DataOK, Lists
      <4> QED
        BY <1>1, <3>1, <4>1, <4>3 DEF DataOK
    <3>4. DataOK'
      BY <1>1, <1>4, <3>3 DEF DataOK, LinkNode, nodes, settling
    <3> QED
      BY <3>2, <3>4, TypesOfParts
  <2>4. CASE ~list[Pre(t)].open
    <3>1. /\ Goto(t, IF Told(t) = "canceled" THEN "tell" ELSE "retain")
          /\ UNCHANGED <<list, accepted, loc>>
      BY <1>4, <2>4 DEF LinkNode
    <3>2. Moves(t)
      BY <2>1, <3>1, GotoMoves DEF PCs
    <3>3. DataOK'
      BY <1>1, <1>4, <3>1 DEF DataOK, LinkNode, nodes, settling
    <3> QED
      BY <3>2, <3>3, TypesOfParts
  <2> QED
    BY <2>3, <2>4
<1> QED
  BY <1>2, <1>3, <1>4

Words == [Dependents -> [Prerequisites -> {"null", "raw", "retained"}]]

LEMMA WordsChange ==
    ASSUME word \in Words, NEW d, NEW p, NEW x \in {"null", "raw", "retained"},
           word' = [word EXCEPT ![d][p] = x]
    PROVE  word' \in Words
<1>1. word' = [word EXCEPT ![d] = [word[d] EXCEPT ![p] = x]]
  OBVIOUS
<1>2. ASSUME d \in Dependents
      PROVE  [word[d] EXCEPT ![p] = x] \in [Prerequisites -> {"null", "raw", "retained"}]
  BY <1>2 DEF Words
<1> QED
  BY <1>1, <1>2 DEF Words

LEMMA ReferencesKeepInv ==
    ASSUME PromiseInv, NEW t \in Threads,
           RetainSettledPrerequisite(t) \/ AddRef(t) \/ RemoveCanceled(t) \/ Clear(t)
    PROVE  PromiseInv'
<1>1. DataOK
  BY TypesOfParts
<1>2. CASE RetainSettledPrerequisite(t)
  <2>1. word' \in [Dependents -> [Prerequisites -> {"null", "raw", "retained"}]]
    BY <1>1, <1>2, WordsChange DEF DataOK, Words, RetainSettledPrerequisite
  <2>2. DataOK'
    BY <1>1, <1>2, <2>1 DEF DataOK, RetainSettledPrerequisite, lists, settling
  <2>3. (Goto(t, "addref") \/ Goto(t, "tell")) /\ UNCHANGED loc
    BY <1>2 DEF RetainSettledPrerequisite
  <2>4. pc[t] \notin {"start", "dispatch", "done"} \/ loc[t].batch # <<>>
    BY <1>2 DEF RetainSettledPrerequisite, At
  <2>5. Moves(t)
    BY <2>3, <2>4, GotoMoves DEF PCs
  <2> QED
    BY <2>2, <2>5, TypesOfParts
<1>3. CASE AddRef(t)
  <2>1. Pre(t) \in Prerequisites
    BY <1>3, PlaceOfVisit DEF AddRef, At
  <2>2. DataOK'
    BY <1>1, <1>3, <2>1 DEF DataOK, AddRef, lists, settling
  <2>3. Moves(t)
    <3>1. CASE References(Pre(t)) = 0
      BY <1>3, <3>1, StayMoves DEF AddRef
    <3>2. CASE References(Pre(t)) # 0
      <4>1. At(t, "addref") /\ Goto(t, "tell") /\ UNCHANGED loc
        BY <1>3, <3>2 DEF AddRef
      <4> QED
        BY <4>1, VisitGoes DEF PCs
    <3> QED
      BY <3>1, <3>2
  <2> QED
    BY <2>2, <2>3, TypesOfParts
<1>4. ASSUME NEW d, NEW p, Cleared(d, p)
      PROVE  /\ word' \in [Dependents -> [Prerequisites -> {"null", "raw", "retained"}]]
             /\ held' \in [Prerequisites -> Int]
  <2>1. word' \in Words
    BY <1>1, <1>4, WordsChange DEF DataOK, Words, Cleared
  <2>2. held' = [held EXCEPT ![p] = held[p] - 1] \/ UNCHANGED held
    BY <1>1, <1>4 DEF DataOK, Cleared
  <2>3. held' \in [Prerequisites -> Int]
    BY <1>1, <2>2 DEF DataOK
  <2> QED
    BY <2>1, <2>3 DEF Words
<1>5. CASE RemoveCanceled(t)
  <2>1. DataOK'
    BY <1>1, <1>4, <1>5 DEF DataOK, RemoveCanceled, lists, settling
  <2>2. Moves(t)
    BY <1>5, ResumeMoves DEF RemoveCanceled, At
  <2> QED
    BY <2>1, <2>2, TypesOfParts
<1>6. CASE Clear(t)
  <2>1. DataOK'
    BY <1>1, <1>4, <1>6 DEF DataOK, Clear, lists, settling
  <2>2. pc[t] \notin {"start", "dispatch", "done"}
    BY <1>6 DEF Clear, At
  <2>3. ASSUME loc[t].k = Len(Needs[Dep(t)])
        PROVE  Moves(t)
    <3>1. Resume(t, Told(t) # "canceled")
      BY <1>6, <2>3 DEF Clear
    <3> QED
      BY <2>2, <3>1, ResumeMoves
  <2>4. ASSUME loc[t].k # Len(Needs[Dep(t)])
        PROVE  Moves(t)
    <3>1. loc' = [loc EXCEPT ![t].k = loc[t].k + 1] /\ UNCHANGED pc
      BY <1>6, <2>4 DEF Clear
    <3>2. loc \in [Threads -> Places] /\ loc[t].k + 1 \in Nat \ {0}
      BY DEF PromiseInv, TypeOK, Places
    <3>3. /\ loc' \in [Threads -> Places] /\ \A u \in Threads \ {t} : loc'[u] = loc[u]
          /\ loc'[t].i = loc[t].i /\ loc'[t].batch = loc[t].batch
      BY <3>1, <3>2 DEF Places
    <3> QED
      <4>1. /\ pc' \in [Threads -> PCs] /\ \A u \in Threads \ {t} : pc'[u] = pc[u]
            /\ pc'[t] = pc[t]
        BY <3>1 DEF PromiseInv, TypeOK
      <4> QED
        BY <3>3, <4>1 DEF Moves, PromiseInv, VisitsItsBatch, AtAPrerequisite
  <2> QED
    BY <2>1, <2>3, <2>4, TypesOfParts
<1> QED
  BY <1>2, <1>3, <1>5, <1>6

LEMMA TellingKeepsInv ==
    ASSUME PromiseInv, NEW t \in Threads, Tell(t) \/ CountDown(t) \/ MarkFirst(t)
    PROVE  PromiseInv'
<1>1. DataOK
  BY TypesOfParts
<1>2. pc[t] \notin {"start", "dispatch", "done"}
  BY DEF Tell, CountDown, MarkFirst, At
<1>3. Dep(t) \in Dependents /\ Pre(t) \in Prerequisites
  BY <1>2, PlaceOfVisit
<1>4. CASE Tell(t)
  <2>1. told' \in [Prerequisites -> Seq(Dependents)]
    BY <1>1, <1>3, <1>4 DEF DataOK, Tell
  <2>2. DataOK'
    BY <1>1, <1>4, <2>1 DEF DataOK, Tell, nodes, settling
  <2>3. \/ Resume(t, Told(t) # "canceled")
        \/ (Goto(t, "mark") \/ Goto(t, "cancel") \/ Goto(t, "count")) /\ UNCHANGED loc
    BY <1>4 DEF Tell
  <2>4. Moves(t)
    BY <1>2, <2>3, ResumeMoves, GotoMoves DEF PCs
  <2> QED
    BY <2>2, <2>4, TypesOfParts
<1>5. CASE CountDown(t)
  <2>1. \/ Dispatch(t)
        \/ Resume(t, TRUE) /\ UNCHANGED tasks
        \/ (Goto(t, "cancel") \/ Goto(t, "remove")) /\ UNCHANGED <<tasks, loc>>
    BY <1>5 DEF CountDown
  <2>2. Moves(t) /\ tasks' \subseteq Dependents
    BY <1>1, <1>2, <2>1, DispatchTypes, ResumeMoves, GotoMoves DEF PCs, DataOK
  <2>3. DataOK'
    BY <1>1, <1>3, <1>5, <2>2 DEF DataOK, CountDown, lists, nodes
  <2> QED
    BY <2>2, <2>3, TypesOfParts
<1>6. CASE MarkFirst(t)
  <2>1. \/ first' = [first EXCEPT ![Dep(t)] = Pre(t)] /\ Dispatch(t)
        \/ Resume(t, TRUE) /\ UNCHANGED <<first, tasks>>
    BY <1>6 DEF MarkFirst
  <2>2. Moves(t) /\ tasks' \subseteq Dependents
    BY <1>1, <1>2, <2>1, DispatchTypes, ResumeMoves DEF DataOK
  <2>3. first' \in [Dependents -> Prerequisites \cup {None}]
    BY <1>1, <1>3, <2>1 DEF DataOK
  <2>4. DataOK'
    BY <1>1, <1>6, <2>2, <2>3 DEF DataOK, MarkFirst, lists, nodes
  <2> QED
    BY <2>2, <2>4, TypesOfParts
<1> QED
  BY <1>4, <1>5, <1>6

LEMMA ExecutionKeepsInv ==
    ASSUME PromiseInv, NEW t \in Threads,
           \/ Execute(t) \/ RunTask(t) \/ RunExecutor(t)
           \/ Finish(t) \/ OnCanceled(t) \/ ResetValue(t)
    PROVE  PromiseInv'
<1>1. DataOK
  BY TypesOfParts
<1>2. CASE Execute(t)
  <2>1. DataOK'
    BY <1>1, <1>2 DEF DataOK, Execute, lists, nodes, settling
  <2>2. At(t, "execute") /\ (Goto(t, "run") \/ Goto(t, "cancel")) /\ UNCHANGED loc
    BY <1>2 DEF Execute, Executing
  <2>3. Moves(t)
    BY <2>2, VisitGoes DEF PCs
  <2> QED
    BY <2>1, <2>3, TypesOfParts
<1>3. CASE RunTask(t)
  <2>1. DataOK'
    BY <1>1, <1>3 DEF DataOK, RunTask, lists, nodes
  <2>2. t \in Runners /\ (Goto(t, "run") \/ Goto(t, "cancel")) /\ UNCHANGED loc
    BY <1>3 DEF RunTask, Executing
  <2>3. Moves(t)
    BY <2>2, KindsOfThreads, GotoMoves DEF PCs
  <2> QED
    BY <2>1, <2>3, TypesOfParts
<1>4. CASE RunExecutor(t)
  <2>1. \/ UNCHANGED <<value, runs, pc>>
        \/ /\ \E r \in Results(Dep(t)) : value' = [value EXCEPT ![Dep(t)] = r]
           /\ runs' = [runs EXCEPT ![Dep(t)] = @ + 1] /\ Goto(t, "finish")
    BY <1>4 DEF RunExecutor
  <2>2. Results(Dep(t)) \subseteq {"resolved", "rejected"}
    BY DEF Results
  <2>3. /\ value' \in [Dependents -> {"executor", "resolved", "rejected", "none"}]
        /\ runs' \in [Dependents -> Nat]
    <3>1. CASE UNCHANGED <<value, runs, pc>>
      BY <1>1, <3>1 DEF DataOK
    <3>2. CASE ~UNCHANGED <<value, runs, pc>>
      <4>1. PICK r \in Results(Dep(t)) : value' = [value EXCEPT ![Dep(t)] = r]
        BY <2>1, <3>2
      <4>2. runs' = [runs EXCEPT ![Dep(t)] = runs[Dep(t)] + 1]
        BY <2>1, <3>2
      <4> QED
        <5>1. value' \in [Dependents -> {"executor", "resolved", "rejected", "none"}]
          BY <1>1, <2>2, <4>1 DEF DataOK
        <5>2. runs' \in [Dependents -> Nat]
          <6>1. pc[t] = "run"
            BY <1>4 DEF RunExecutor, At
          <6>2. Dep(t) \in Dependents
            BY <6>1, PlaceOfVisit
          <6>3. runs \in [Dependents -> Nat] /\ runs[Dep(t)] + 1 \in Nat
            BY <1>1, <6>2 DEF DataOK
          <6> QED
            BY <4>2, <6>3
        <5> QED
          BY <5>1, <5>2
    <3> QED
      BY <3>1, <3>2
  <2>4. DataOK'
    BY <1>1, <1>4, <2>3 DEF DataOK, RunExecutor, lists, nodes
  <2>5. At(t, "run") /\ UNCHANGED loc
    BY <1>4 DEF RunExecutor
  <2>6. Moves(t)
    BY <2>1, <2>5, VisitGoes, StayMoves DEF PCs
  <2> QED
    BY <2>4, <2>6, TypesOfParts
<1>5. CASE Finish(t)
  <2>1. status' \in [Dependents -> States]
    BY <1>1, <1>5 DEF DataOK, Finish, States, Outcomes
  <2>2. DataOK'
    BY <1>1, <1>5, <2>1 DEF DataOK, Finish, lists, nodes
  <2>3. (Goto(t, "clear") /\ UNCHANGED loc) \/ Resume(t, TRUE)
    BY <1>5 DEF Finish
  <2>4. Moves(t)
    BY <1>5, <2>3, VisitGoes, ResumeMoves DEF Finish, At, PCs
  <2> QED
    BY <2>2, <2>4, TypesOfParts
<1>6. CASE OnCanceled(t)
  <2>. status \in [Dependents -> States] /\ "canceled" \in States
    BY <1>1 DEF DataOK, States, Outcomes
  <2>1. status' = [status EXCEPT ![Dep(t)] = "canceled"] \/ UNCHANGED status
    BY <1>6 DEF OnCanceled
  <2>2. status' \in [Dependents -> States]
    BY <2>1
  <2>3. DataOK'
    BY <1>1, <1>6, <2>2 DEF DataOK, OnCanceled, lists, nodes
  <2>4. (Goto(t, "reset") /\ UNCHANGED loc) \/ Resume(t, Told(t) # "canceled")
    BY <1>6 DEF OnCanceled
  <2>5. Moves(t)
    BY <1>6, <2>4, VisitGoes, ResumeMoves DEF OnCanceled, At, PCs
  <2> QED
    BY <2>3, <2>5, TypesOfParts
<1>7. CASE ResetValue(t)
  <2>1. DataOK'
    BY <1>1, <1>7 DEF DataOK, ResetValue, lists, nodes
  <2>2. Moves(t)
    BY <1>7, VisitGoes DEF ResetValue, PCs
  <2> QED
    BY <2>1, <2>2, TypesOfParts
<1> QED
  BY <1>2, <1>3, <1>4, <1>5, <1>6, <1>7

LEMMA StepsPreservePromiseInv == PromiseInv /\ [Next]_vars => PromiseInv'
<1> SUFFICES ASSUME PromiseInv, [Next]_vars PROVE PromiseInv'
  OBVIOUS
<1>1. CASE UNCHANGED vars
  BY <1>1 DEF PromiseInv, TypeOK, VisitsItsBatch, AtAPrerequisite,
              vars, lists, nodes, settling
<1>2. CASE Next
  BY <1>2, SettlementKeepsInv, CreationKeepsInv, ReferencesKeepInv, TellingKeepsInv,
     ExecutionKeepsInv DEF Next, Step
<1> QED
  BY <1>1, <1>2

\* Every variable keeps its type, for any dependents and prerequisites: in
\* particular a thread that visits a dependent has one, so that the next node
\* of a batch and the next prerequisite always exist.
THEOREM TypesHold == Spec => []TypeOK
<1>1. PromiseInv => TypeOK
  BY DEF PromiseInv
<1> QED
  BY <1>1, Initially, StepsPreservePromiseInv, PTL DEF Spec

-----------------------------------------------------------------------------
(* How threads go through a list, and what a list keeps.                     *)

\* Places of a visit before and after the dependent is told.
Before == {"retain", "addref", "tell"}
After == {"count", "remove", "mark", "execute", "run", "finish", "cancel", "reset", "clear"}

Active(t) == pc[t] \notin {"start", "done"}

\* The dependents a settling thread has done with.
Base(t) == IF pc[t] \in After THEN Len(told[t[2]]) - 1 ELSE Len(told[t[2]])

\* Nothing has happened to a prerequisite that is not settled.
UnsettledList(p) ==
    list[p].state = "unresolved" =>
        /\ list[p].open /\ told[p] = <<>> /\ list[p].nodes = accepted[p]
        /\ \A t \in Settlers : t[2] = p => pc[t] = "start"

ClosedList(p) == ~list[p].open => \A t \in Settlers : t[2] = p => ~Active(t)

\* What was accepted is what has been told (but for the dependent that is being
\* told), then the rest of the batch, then what the list has collected since.
InOrder(all, heard, done, batch, new) ==
    /\ done \in Nat /\ Len(heard) <= Len(all)
    /\ Len(all) = done + Len(batch) + Len(new)
    /\ \A i \in 1..Len(heard) : heard[i] = all[i]
    /\ \A i \in 1..Len(batch) : batch[i] = all[done + i]
    /\ \A i \in 1..Len(new) : new[i] = all[done + Len(batch) + i]

\* A settlement has one thread, which keeps the order.
ActiveSettler(t) ==
    LET p == t[2] IN
    Active(t) =>
        /\ list[p].state # "unresolved" /\ list[p].open
        /\ \A u \in Settlers : u[2] = p /\ Active(u) => u = t
        /\ InOrder(accepted[p], told[p], Base(t), loc[t].batch, list[p].nodes)

OrderInv ==
    /\ \A p \in Prerequisites : UnsettledList(p) /\ ClosedList(p)
    /\ \A t \in Settlers : ActiveSettler(t)

-----------------------------------------------------------------------------
(* The order of dependents as a settlement goes on.                          *)

\* One is told ...
LEMMA OrderAsOneHears ==
    ASSUME NEW D, NEW all \in Seq(D), NEW heard \in Seq(D), NEW batch \in Seq(D),
           NEW new \in Seq(D), batch # <<>>, InOrder(all, heard, Len(heard), batch, new)
    PROVE  /\ all[Len(heard) + 1] = Head(batch) /\ Len(heard) < Len(all)
           /\ InOrder(all, Append(heard, Head(batch)), Len(heard), batch, new)
<1>1. /\ Len(all) \in Nat /\ Len(heard) \in Nat /\ Len(batch) \in Nat /\ Len(new) \in Nat
      /\ 1 \in 1..Len(batch) /\ Head(batch) = batch[1]
      /\ Len(all) = Len(heard) + Len(batch) + Len(new)
  BY DEF InOrder
<1>2. batch[1] = all[Len(heard) + 1]
  BY <1>1 DEF InOrder
<1>3. /\ Len(Append(heard, Head(batch))) = Len(heard) + 1
      /\ Append(heard, Head(batch))[Len(heard) + 1] = Head(batch)
      /\ \A i \in 1..Len(heard) : Append(heard, Head(batch))[i] = heard[i]
  BY <1>1
<1>4. \A i \in 1..(Len(heard) + 1) : Append(heard, Head(batch))[i] = all[i]
  BY <1>1, <1>2, <1>3 DEF InOrder
<1> QED
  BY <1>1, <1>2, <1>3, <1>4 DEF InOrder

\* ... and left behind.
LEMMA OrderAsOneIsLeft ==
    ASSUME NEW D, NEW all \in Seq(D), NEW heard \in Seq(D), NEW batch \in Seq(D),
           NEW new \in Seq(D), NEW done, batch # <<>>, InOrder(all, heard, done, batch, new)
    PROVE  InOrder(all, heard, done + 1, Tail(batch), new)
<1>1. /\ done \in Nat /\ Len(batch) \in Nat /\ Len(new) \in Nat
      /\ Len(all) = done + Len(batch) + Len(new)
      /\ Len(Tail(batch)) = Len(batch) - 1
      /\ \A i \in 1..Len(Tail(batch)) : Tail(batch)[i] = batch[i + 1]
      /\ (done + 1) + Len(Tail(batch)) = done + Len(batch)
  BY DEF InOrder
<1>2. ASSUME NEW i \in 1..Len(Tail(batch))
      PROVE  Tail(batch)[i] = all[done + 1 + i]
  <2>1. i + 1 \in 1..Len(batch) /\ done + 1 + i = done + (i + 1)
    BY <1>1
  <2> QED
    BY <1>1, <2>1 DEF InOrder
<1>3. \A i \in 1..Len(new) : new[i] = all[done + 1 + Len(Tail(batch)) + i]
  BY <1>1 DEF InOrder
<1>4. Len(all) = done + 1 + Len(Tail(batch)) + Len(new) /\ done + 1 \in Nat
  BY <1>1
<1> QED
  BY <1>2, <1>3, <1>4 DEF InOrder

\* Another one is inserted.
LEMMA OrderAsOneComes ==
    ASSUME NEW D, NEW all \in Seq(D), NEW heard \in Seq(D), NEW batch \in Seq(D),
           NEW new \in Seq(D), NEW done, NEW d \in D,
           InOrder(all, heard, done, batch, new)
    PROVE  InOrder(Append(all, d), heard, done, batch, Append(new, d))
<1>1. /\ done \in Nat /\ Len(batch) \in Nat /\ Len(new) \in Nat /\ Len(all) \in Nat
      /\ Len(heard) \in Nat /\ Len(all) = done + Len(batch) + Len(new)
      /\ Len(Append(all, d)) = Len(all) + 1 /\ Len(Append(new, d)) = Len(new) + 1
  BY DEF InOrder
<1>2. /\ \A i \in 1..Len(all) : Append(all, d)[i] = all[i]
      /\ \A i \in 1..Len(new) : Append(new, d)[i] = new[i]
      /\ Append(all, d)[Len(all) + 1] = d /\ Append(new, d)[Len(new) + 1] = d
  BY <1>1
<1>3. \A i \in 1..Len(heard) : heard[i] = Append(all, d)[i]
  BY <1>1, <1>2 DEF InOrder
<1>4. \A i \in 1..Len(batch) : batch[i] = Append(all, d)[done + i]
  <2> SUFFICES ASSUME NEW i \in 1..Len(batch) PROVE batch[i] = Append(all, d)[done + i]
    OBVIOUS
  <2>1. done + i \in 1..Len(all) /\ batch[i] = all[done + i]
    BY <1>1 DEF InOrder
  <2> QED
    BY <1>2, <2>1
<1>5. \A i \in 1..Len(Append(new, d)) :
          Append(new, d)[i] = Append(all, d)[done + Len(batch) + i]
  <2> SUFFICES ASSUME NEW i \in 1..(Len(new) + 1)
               PROVE  Append(new, d)[i] = Append(all, d)[done + Len(batch) + i]
    BY <1>1
  <2>1. CASE i \in 1..Len(new)
    <3>1. done + Len(batch) + i \in 1..Len(all) /\ new[i] = all[done + Len(batch) + i]
      BY <1>1, <2>1 DEF InOrder
    <3> QED
      BY <1>2, <2>1, <3>1
  <2>2. CASE i = Len(new) + 1
    <3>1. done + Len(batch) + i = Len(all) + 1
      BY <1>1, <2>2
    <3> QED
      BY <1>2, <2>2, <3>1
  <2> QED
    BY <1>1, <2>1, <2>2
<1> QED
  BY <1>1, <1>3, <1>4, <1>5 DEF InOrder

\* A new round takes all that have come.
LEMMA OrderAsRoundBegins ==
    ASSUME NEW D, NEW all \in Seq(D), NEW heard \in Seq(D),
           NEW new \in Seq(D), NEW done, InOrder(all, heard, done, <<>>, new)
    PROVE  InOrder(all, heard, done, new, <<>>)
<1> DEFINE none == Len(<<>>)
<1>1. /\ done \in Nat /\ none = 0 /\ Len(new) \in Nat /\ Len(heard) <= Len(all)
      /\ Len(all) = done + none + Len(new)
      /\ \A i \in 1..Len(heard) : heard[i] = all[i]
      /\ \A i \in 1..Len(new) : new[i] = all[done + none + i]
  BY DEF InOrder
<1> HIDE DEF none
<1>2. Len(all) = done + Len(new) + none /\ \A i \in 1..Len(new) : new[i] = all[done + i]
  BY <1>1
<1>3. \A i \in 1..none : <<>>[i] = all[done + Len(new) + i]
  BY <1>1
<1> QED
  BY <1>1, <1>2, <1>3 DEF InOrder, none

-----------------------------------------------------------------------------
\* Where a step takes a thread.
Alone(t) == \A u \in Threads \ {t} : pc'[u] = pc[u] /\ loc'[u] = loc[u]

\* It stays in its visit, before or after the telling, or a task starts.
Within(t) ==
    /\ Alone(t) /\ loc'[t].batch = loc[t].batch /\ loc'[t].i = loc[t].i
    /\ \/ pc[t] \in Before \cup {"dispatch"} /\ pc'[t] \in Before
       \/ pc[t] \in After /\ pc'[t] \in After
       \/ t \in Runners /\ pc[t] = "start" /\ pc'[t] \in After

\* It ends its visit.
Departs(t) ==
    /\ Alone(t)
    /\ \/ t \in Settlers /\ pc'[t] = "dispatch" /\ loc'[t].batch = Tail(loc[t].batch)
       \/ t \in Creators /\ pc'[t] = "insert" /\ loc'[t].i = loc[t].i + 1
       \/ t \notin Settlers /\ pc'[t] = "done" /\ loc'[t].i = loc[t].i

Leaves(t) == pc[t] \in After /\ Departs(t)

LEMMA ResumeDeparts ==
    ASSUME PromiseInv, NEW t \in Threads, NEW more, Resume(t, more)
    PROVE  Departs(t)
<1>1. pc \in [Threads -> PCs] /\ loc \in [Threads -> Places]
  BY DEF PromiseInv, TypeOK, Places
<1>2. Alone(t)
  BY <1>1 DEF Alone, Resume, Goto, Places
<1>3. CASE t \in Settlers
  BY <1>1, <1>2, <1>3 DEF Departs, Resume, Goto, Places
<1>4. CASE t \notin Settlers /\ t \in Creators /\ more /\ loc[t].i < Len(Needs[t[2]])
  BY <1>1, <1>2, <1>4 DEF Departs, Resume, Goto, Places
<1>5. CASE t \notin Settlers /\ ~(t \in Creators /\ more /\ loc[t].i < Len(Needs[t[2]]))
  BY <1>1, <1>2, <1>5 DEF Departs, Resume, Goto, Places
<1> QED
  BY <1>3, <1>4, <1>5

LEMMA GotoWithin ==
    ASSUME PromiseInv, NEW t \in Threads, NEW to, Goto(t, to), UNCHANGED loc,
           \/ pc[t] \in Before \cup {"dispatch"} /\ to \in Before
           \/ pc[t] \in After /\ to \in After
           \/ t \in Runners /\ pc[t] = "start" /\ to \in After
    PROVE  Within(t)
BY DEF PromiseInv, TypeOK, Goto, Within, Alone

\* The steps of a visit that leave the lists alone.
QuietStep(t) ==
    \/ RetainSettledPrerequisite(t) \/ AddRef(t)
    \/ CountDown(t) \/ RemoveCanceled(t) \/ MarkFirst(t)
    \/ Execute(t) \/ RunTask(t) \/ RunExecutor(t) \/ Finish(t)
    \/ OnCanceled(t) \/ ResetValue(t) \/ Clear(t)

LEMMA QuietSteps ==
    ASSUME PromiseInv, NEW t \in Threads, QuietStep(t)
    PROVE  UNCHANGED lists /\ (UNCHANGED <<pc, loc>> \/ Within(t) \/ Leaves(t))
<1>1. CASE RetainSettledPrerequisite(t)
  BY <1>1, GotoWithin DEF RetainSettledPrerequisite, At, Before
<1>2. CASE AddRef(t)
  BY <1>2, GotoWithin DEF AddRef, At, Before
<1>3. CASE CountDown(t)
  <2>1. pc[t] = "count" /\ UNCHANGED lists
    BY <1>3 DEF CountDown, At
  <2>2. \/ Resume(t, TRUE)
        \/ (Goto(t, "execute") \/ Goto(t, "cancel") \/ Goto(t, "remove")) /\ UNCHANGED loc
    BY <1>3 DEF CountDown, Dispatch
  <2> QED
    BY <2>1, <2>2, GotoWithin, ResumeDeparts DEF After, Leaves
<1>4. CASE RemoveCanceled(t)
  BY <1>4, ResumeDeparts DEF RemoveCanceled, At, After, Leaves
<1>5. CASE MarkFirst(t)
  <2>1. pc[t] = "mark" /\ UNCHANGED lists
    BY <1>5 DEF MarkFirst, At
  <2>2. Resume(t, TRUE) \/ (Goto(t, "execute") /\ UNCHANGED loc)
    BY <1>5 DEF MarkFirst, Dispatch
  <2> QED
    BY <2>1, <2>2, GotoWithin, ResumeDeparts DEF After, Leaves
<1>6. CASE Execute(t)
  BY <1>6, GotoWithin DEF Execute, Executing, At, After
<1>7. CASE RunTask(t)
  BY <1>7, GotoWithin DEF RunTask, Executing, At, After
<1>8. CASE RunExecutor(t)
  BY <1>8, GotoWithin DEF RunExecutor, At, After
<1>9. CASE Finish(t)
  <2>1. pc[t] = "finish" /\ UNCHANGED lists
    BY <1>9 DEF Finish, At
  <2>2. Resume(t, TRUE) \/ (Goto(t, "clear") /\ UNCHANGED loc)
    BY <1>9 DEF Finish
  <2> QED
    BY <2>1, <2>2, GotoWithin, ResumeDeparts DEF After, Leaves
<1>10. CASE OnCanceled(t)
  <2>1. pc[t] = "cancel" /\ UNCHANGED lists
    BY <1>10 DEF OnCanceled, At
  <2>2. Resume(t, Told(t) # "canceled") \/ (Goto(t, "reset") /\ UNCHANGED loc)
    BY <1>10 DEF OnCanceled
  <2> QED
    BY <2>1, <2>2, GotoWithin, ResumeDeparts DEF After, Leaves
<1>11. CASE ResetValue(t)
  BY <1>11, GotoWithin DEF ResetValue, At, After
<1>12. CASE Clear(t)
  <2>1. pc[t] = "clear" /\ UNCHANGED lists
    BY <1>12 DEF Clear, At
  <2>2. \/ Resume(t, Told(t) # "canceled")
        \/ loc' = [loc EXCEPT ![t].k = loc[t].k + 1] /\ UNCHANGED pc
    BY <1>12 DEF Clear
  <2>3. ASSUME loc' = [loc EXCEPT ![t].k = loc[t].k + 1], UNCHANGED pc
        PROVE  Within(t)
    <3>1. loc \in [Threads -> Places] /\ pc[t] \in After
      BY <2>1 DEF PromiseInv, TypeOK, Places, After
    <3> QED
      BY <2>3, <3>1 DEF Within, Alone, Places
  <2> QED
    BY <2>1, <2>2, <2>3, ResumeDeparts DEF After, Leaves
<1> QED
  BY <1>1, <1>2, <1>3, <1>4, <1>5, <1>6, <1>7, <1>8, <1>9, <1>10, <1>11, <1>12 DEF QuietStep

\* What telling a dependent does.
LEMMA TellSteps ==
    ASSUME PromiseInv, NEW t \in Threads, Tell(t)
    PROVE  /\ pc[t] = "tell"
           /\ told' = [told EXCEPT ![Pre(t)] = Append(told[Pre(t)], Dep(t))]
           /\ UNCHANGED <<list, accepted>>
           /\ \/ /\ Alone(t) /\ UNCHANGED loc
                 /\ pc'[t] \in {"mark", "cancel", "count"}
              \/ Departs(t)
<1>1. \/ Resume(t, Told(t) # "canceled")
      \/ (Goto(t, "mark") \/ Goto(t, "cancel") \/ Goto(t, "count")) /\ UNCHANGED loc
  BY DEF Tell
<1>2. pc \in [Threads -> PCs]
  BY DEF PromiseInv, TypeOK
<1> QED
  BY <1>1, <1>2, ResumeDeparts DEF Tell, At, Goto, Alone

-----------------------------------------------------------------------------
(* Who has been inserted, and what leaves the order as it is.                *)

Creator(d) == <<"create", d>>

\* The creation of a dependent is past a prerequisite.
Passed(d, p) ==
    \A j \in DOMAIN Needs[d] :
        Needs[d][j] = p =>
          \/ j < loc[Creator(d)].i
          \/ j = loc[Creator(d)].i /\ pc[Creator(d)] = "done"

Accepted(d, p) == \E k \in 1..Len(accepted[p]) : accepted[p][k] = d

InsertedOnce ==
    /\ \A p \in Prerequisites :
         /\ \A d \in Dependents : Accepted(d, p) => Passed(d, p) /\ p \in NeededBy(d)
         /\ \A k, l \in 1..Len(accepted[p]) : accepted[p][k] = accepted[p][l] => k = l
    /\ \A t \in Creators : pc[t] \in Before \cup After => ~list[Pre(t)].open

RunnerPlaces == \A t \in Runners : pc[t] \in After \cup {"start", "done"}

ListInv == PromiseInv /\ OrderInv /\ InsertedOnce /\ RunnerPlaces

-----------------------------------------------------------------------------
LEMMA ListTypes ==
    ASSUME PromiseInv, NEW p \in Prerequisites
    PROVE  /\ accepted[p] \in Seq(Dependents) /\ told[p] \in Seq(Dependents)
           /\ list[p].nodes \in Seq(Dependents)
           /\ Len(accepted[p]) \in Nat /\ Len(told[p]) \in Nat /\ Len(list[p].nodes) \in Nat
           /\ list[p].state \in States /\ list[p].open \in BOOLEAN
BY DEF PromiseInv, TypeOK, Lists

LEMMA BatchTypes ==
    ASSUME PromiseInv, NEW t \in Threads
    PROVE  /\ loc[t].batch \in Seq(Dependents) /\ Len(loc[t].batch) \in Nat
           /\ loc[t].i \in Nat \ {0} /\ pc[t] \in PCs
BY DEF PromiseInv, TypeOK

\* Settling threads and their prerequisites are only affected by their own steps.
LEMMA OthersKeepOrder ==
    ASSUME OrderInv, NEW t \in Threads, t \notin Settlers, Alone(t), UNCHANGED lists
    PROVE  OrderInv'
<1>1. \A u \in Settlers : pc'[u] = pc[u] /\ loc'[u] = loc[u]
  BY DEF Alone, Threads
<1> QED
  BY <1>1 DEF OrderInv, UnsettledList, ClosedList, ActiveSettler, Active, Base, lists

LEMMA QuietKeepsOrder ==
    ASSUME PromiseInv, OrderInv, NEW t \in Threads, UNCHANGED lists,
           UNCHANGED <<pc, loc>> \/ Within(t) \/ Leaves(t)
    PROVE  OrderInv'
<1>1. CASE UNCHANGED <<pc, loc>>
  BY <1>1 DEF OrderInv, UnsettledList, ClosedList, ActiveSettler, Active, Base, lists
<1>2. CASE t \notin Settlers /\ (Within(t) \/ Leaves(t))
  BY <1>2, OthersKeepOrder DEF Within, Leaves, Departs
<1>3. CASE t \in Settlers /\ (Within(t) \/ Leaves(t))
  <2>1. /\ \A u \in Settlers \ {t} : pc'[u] = pc[u] /\ loc'[u] = loc[u]
        /\ Active(t) /\ Active(t)' /\ pc[t] # "start" /\ pc'[t] # "start"
    BY <1>3, KindsOfThreads DEF Within, Leaves, Departs, Alone, Active, Before, After, Threads
  <2>2. \A u \in Settlers : Active(u)' <=> Active(u)
    BY <2>1 DEF Active
  <2>3. \A p \in Prerequisites : UnsettledList(p)' /\ ClosedList(p)'
    BY <2>1, <2>2 DEF OrderInv, UnsettledList, ClosedList, lists
  <2>4. \A u \in Settlers \ {t} : ActiveSettler(u)'
    BY <2>1, <2>2 DEF OrderInv, ActiveSettler, Base, lists
  <2> DEFINE p == t[2]
  <2>5. p \in Prerequisites /\ ActiveSettler(t)
    BY <1>3, KindsOfThreads DEF OrderInv
  <2>6. /\ loc[t].batch \in Seq(Dependents) /\ Len(loc[t].batch) \in Nat
        /\ Len(told[p]) \in Nat /\ Len(accepted[p]) \in Nat /\ Len(list[p].nodes) \in Nat
    BY <2>5, ListTypes, BatchTypes
  <2>7. CASE Within(t)
    <3>1. Base(t)' = Base(t) /\ loc'[t].batch = loc[t].batch
      BY <1>3, <2>7, KindsOfThreads DEF Within, Base, Before, After, lists
    <3> QED
      BY <2>1, <2>2, <2>3, <2>4, <2>5, <3>1 DEF OrderInv, ActiveSettler, lists
  <2>8. CASE Leaves(t)
    <3>1. /\ Base(t) = Len(told[p]) - 1 /\ Base(t)' = Len(told[p])
          /\ loc'[t].batch = Tail(loc[t].batch) /\ loc[t].batch # <<>>
      BY <1>3, <2>8, KindsOfThreads
      DEF Leaves, Departs, Base, Before, After, lists, PromiseInv, VisitsItsBatch
    <3>2. InOrder(accepted[p], told[p], Base(t) + 1, Tail(loc[t].batch), list[p].nodes)
      BY <2>1, <2>5, <2>6, <3>1, ListTypes, OrderAsOneIsLeft DEF ActiveSettler
    <3>3. Base(t) + 1 = Base(t)'
      BY <2>6, <3>1
    <3>5. ActiveSettler(t)'
      BY <2>1, <2>2, <2>5, <3>1, <3>2, <3>3 DEF ActiveSettler, lists
    <3> QED
      BY <2>3, <2>4, <3>5 DEF OrderInv
  <2> QED
    BY <1>3, <2>7, <2>8
<1> QED
  BY <1>1, <1>2, <1>3

\* Other settlements, while a step only affects the lists of one prerequisite.
LEMMA ElsewhereKeepsOrder ==
    ASSUME OrderInv, NEW q, NEW t \in Threads, Alone(t), t \in Settlers => t[2] = q,
           \A p \in Prerequisites \ {q} :
              list'[p] = list[p] /\ accepted'[p] = accepted[p] /\ told'[p] = told[p]
    PROVE  /\ \A p \in Prerequisites \ {q} : UnsettledList(p)' /\ ClosedList(p)'
           /\ \A u \in Settlers : u[2] # q => ActiveSettler(u)'
<1>1. /\ \A u \in Settlers : u[2] # q => pc'[u] = pc[u] /\ loc'[u] = loc[u]
      /\ \A u \in Settlers : u[2] \in Prerequisites
  BY KindsOfThreads DEF Alone, Threads
<1>2. \A u \in Settlers : u[2] # q => (Active(u)' <=> Active(u))
  BY <1>1 DEF Active
<1>3. \A p \in Prerequisites \ {q} : UnsettledList(p)' /\ ClosedList(p)'
  BY <1>1, <1>2 DEF OrderInv, UnsettledList, ClosedList
<1>4. \A u \in Settlers : u[2] # q => ActiveSettler(u)'
  <2> SUFFICES ASSUME NEW u \in Settlers, u[2] # q, Active(u)' PROVE ActiveSettler(u)'
    BY DEF ActiveSettler
  <2>1. ActiveSettler(u) /\ Active(u) /\ u[2] \in Prerequisites /\ Base(u)' = Base(u)
    BY <1>1, <1>2 DEF OrderInv, Base
  <2> QED
    BY <1>1, <1>2, <2>1 DEF ActiveSettler
<1> QED
  BY <1>3, <1>4

\* A dependent is told: the next of the batch, or one that came too late.
LEMMA TellKeepsOrder ==
    ASSUME ListInv, NEW t \in Threads, Tell(t)
    PROVE  /\ OrderInv'
           /\ t \in Settlers => /\ list[Pre(t)].state # "unresolved"
                                /\ Len(told[Pre(t)]) < Len(accepted[Pre(t)])
                                /\ Dep(t) = accepted[Pre(t)][Len(told[Pre(t)]) + 1]
           /\ t \notin Settlers => t \in Creators /\ ~list[Pre(t)].open
<1>1. /\ pc[t] = "tell" /\ UNCHANGED <<list, accepted>>
      /\ told' = [told EXCEPT ![Pre(t)] = Append(told[Pre(t)], Dep(t))]
      /\ \/ Alone(t) /\ UNCHANGED loc /\ pc'[t] \in {"mark", "cancel", "count"}
         \/ Departs(t)
  BY TellSteps DEF ListInv
<1>2. Alone(t) /\ Pre(t) \in Prerequisites /\ Dep(t) \in Dependents /\ PromiseInv /\ OrderInv
  BY <1>1, PlaceOfVisit DEF Departs, ListInv
<1>0. PICK p : p = Pre(t)
  OBVIOUS
<1>3. /\ \A q \in Prerequisites \ {p} :
            list'[q] = list[q] /\ accepted'[q] = accepted[q] /\ told'[q] = told[q]
      /\ list'[p] = list[p] /\ accepted'[p] = accepted[p]
      /\ told'[p] = Append(told[p], Dep(t)) /\ (t \in Settlers => t[2] = p)
  BY <1>0, <1>1, <1>2 DEF PromiseInv, TypeOK, Pre
<1>4. /\ \A q \in Prerequisites \ {p} : UnsettledList(q)' /\ ClosedList(q)'
      /\ \A u \in Settlers : u[2] # p => ActiveSettler(u)'
  BY <1>2, <1>3, ElsewhereKeepsOrder
<1>5. CASE t \notin Settlers
  <2>1. t \in Creators /\ ~list[p].open
    BY <1>0, <1>1, <1>5 DEF ListInv, RunnerPlaces, InsertedOnce, Threads, Before, After
  <2>2. \A u \in Settlers : u[2] = p => ~Active(u) /\ pc'[u] = pc[u]
    BY <1>0, <1>2, <1>5, <2>1 DEF OrderInv, ClosedList, Alone, Threads
  <2>3. ClosedList(p)' /\ UnsettledList(p)' /\ \A u \in Settlers : u[2] = p => ActiveSettler(u)'
    BY <1>0, <1>2, <1>3, <2>1, <2>2 DEF OrderInv, UnsettledList, ClosedList, ActiveSettler, Active
  <2> QED
    BY <1>0, <1>4, <1>5, <2>1, <2>3 DEF OrderInv
<1>6. CASE t \in Settlers
  <2>1. /\ Active(t) /\ Active(t)' /\ ActiveSettler(t) /\ p = t[2] /\ pc[t] \notin After
        /\ loc[t].batch # <<>> /\ Dep(t) = Head(loc[t].batch) /\ pc'[t] # "start"
    BY <1>0, <1>1, <1>2, <1>6, KindsOfThreads
    DEF Active, Departs, OrderInv, Pre, Dep, After, PromiseInv, VisitsItsBatch
  <2>2. /\ told[p] \in Seq(Dependents) /\ accepted[p] \in Seq(Dependents)
        /\ loc[t].batch \in Seq(Dependents) /\ list[p].nodes \in Seq(Dependents)
        /\ Len(told[p]) \in Nat
    BY <1>0, <1>2, ListTypes, BatchTypes
  <2>3. InOrder(accepted[p], told[p], Len(told[p]), loc[t].batch, list[p].nodes)
    BY <2>1 DEF ActiveSettler, Base
  <2>4. /\ accepted[p][Len(told[p]) + 1] = Dep(t) /\ Len(told[p]) < Len(accepted[p])
        /\ InOrder(accepted[p], told'[p], Len(told[p]), loc[t].batch, list[p].nodes)
    BY <1>3, <2>1, <2>2, <2>3, OrderAsOneHears
  <2>5. InOrder(accepted[p], told'[p], Base(t)', loc'[t].batch, list[p].nodes)
    <3>1. told'[p] \in Seq(Dependents) /\ Len(told'[p]) = Len(told[p]) + 1
      BY <1>0, <1>2, <1>3, <2>2
    <3>2. CASE UNCHANGED loc /\ pc'[t] \in {"mark", "cancel", "count"}
      <4>1. Base(t)' = Len(told[p])
        BY <2>1, <2>2, <3>1, <3>2 DEF Base, After
      <4> QED
        BY <2>4, <3>2, <4>1
    <3>3. CASE Departs(t)
      <4>1. loc'[t].batch = Tail(loc[t].batch) /\ Base(t)' = Len(told[p]) + 1
        BY <1>6, <2>1, <3>1, <3>3, KindsOfThreads DEF Departs, Base, After
      <4> QED
        BY <2>1, <2>2, <2>4, <3>1, <4>1, OrderAsOneIsLeft
    <3> QED
      BY <1>1, <3>2, <3>3
  <2>6. \A u \in Settlers : u[2] = p => (Active(u)' <=> Active(u)) /\ (Active(u) => u = t)
    BY <1>2, <2>1 DEF ActiveSettler, Alone, Active, Threads
  <2>7. ActiveSettler(t)' /\ \A u \in Settlers : u[2] = p => ActiveSettler(u)'
    BY <1>3, <2>1, <2>5, <2>6 DEF ActiveSettler
  <2>8. UnsettledList(p)' /\ ClosedList(p)' /\ list[p].state # "unresolved"
    BY <1>3, <2>1 DEF ActiveSettler, UnsettledList, ClosedList
  <2> QED
    BY <1>0, <1>4, <1>6, <2>4, <2>7, <2>8 DEF OrderInv
<1> QED
  BY <1>5, <1>6

-----------------------------------------------------------------------------
(* Insertions and rounds keep the order.                                     *)

\* A dependent is inserted, or finds the list closed.
LEMMA LinkSteps ==
    ASSUME PromiseInv, NEW t \in Threads, LinkNode(t)
    PROVE  /\ t \in Creators /\ t \notin Settlers /\ pc[t] = "link" /\ UNCHANGED told
           /\ Pre(t) \in Prerequisites /\ t[2] \in Dependents
           /\ \/ /\ list[Pre(t)].open /\ Departs(t)
                 /\ list' = [list EXCEPT ![Pre(t)].nodes = Append(list[Pre(t)].nodes, t[2])]
                 /\ accepted' = [accepted EXCEPT ![Pre(t)] = Append(accepted[Pre(t)], t[2])]
              \/ /\ ~list[Pre(t)].open /\ UNCHANGED <<list, accepted, loc>>
                 /\ Alone(t) /\ pc'[t] \in Before
<1>1. t \in Creators /\ t \notin Settlers /\ pc[t] = "link" /\ UNCHANGED told
  BY KindsOfThreads DEF LinkNode, At, Threads, PromiseInv, VisitsItsBatch, AtAPrerequisite
<1>2. Pre(t) \in Prerequisites /\ t[2] \in Dependents
  BY <1>1, PlaceOfVisit, KindsOfThreads
<1>3. CASE list[Pre(t)].open
  BY <1>1, <1>2, <1>3, ResumeDeparts DEF LinkNode
<1>4. CASE ~list[Pre(t)].open
  <2>1. (Goto(t, "tell") \/ Goto(t, "retain")) /\ UNCHANGED <<list, accepted, loc>>
    BY <1>4 DEF LinkNode
  <2>2. Alone(t) /\ pc'[t] \in Before
    BY <2>1 DEF Goto, Alone, Before, PromiseInv, TypeOK
  <2> QED
    BY <1>1, <1>2, <1>4, <2>1, <2>2
<1> QED
  BY <1>3, <1>4

LEMMA LinkKeepsOrder ==
    ASSUME ListInv, NEW t \in Threads, LinkNode(t)
    PROVE  OrderInv'
<1>0. PICK p : p = Pre(t)
  OBVIOUS
<1>1. /\ t \notin Settlers /\ PromiseInv /\ OrderInv /\ UNCHANGED told
      /\ p \in Prerequisites /\ t[2] \in Dependents
  BY <1>0, LinkSteps DEF ListInv
<1>2. CASE ~list[p].open
  <2>1. UNCHANGED lists /\ Alone(t)
    BY <1>0, <1>1, <1>2, LinkSteps DEF lists
  <2> QED
    BY <1>1, <2>1, OthersKeepOrder
<1>3. CASE list[p].open
  <2>1. /\ Alone(t)
        /\ list' = [list EXCEPT ![p].nodes = Append(list[p].nodes, t[2])]
        /\ accepted' = [accepted EXCEPT ![p] = Append(accepted[p], t[2])]
    BY <1>0, <1>1, <1>3, LinkSteps DEF Departs
  <2>2. /\ \A q \in Prerequisites \ {p} :
              list'[q] = list[q] /\ accepted'[q] = accepted[q] /\ told'[q] = told[q]
        /\ list'[p].nodes = Append(list[p].nodes, t[2]) /\ list'[p].open = list[p].open
        /\ list'[p].state = list[p].state /\ told'[p] = told[p]
        /\ accepted'[p] = Append(accepted[p], t[2])
    BY <1>1, <2>1 DEF PromiseInv, TypeOK, Lists
  <2>3. /\ \A q \in Prerequisites \ {p} : UnsettledList(q)' /\ ClosedList(q)'
        /\ \A u \in Settlers : u[2] # p => ActiveSettler(u)'
    BY <1>1, <2>1, <2>2, ElsewhereKeepsOrder
  <2>4. \A u \in Settlers : pc'[u] = pc[u] /\ loc'[u] = loc[u]
    BY <1>1, <2>1 DEF Alone, Threads
  <2>5. UnsettledList(p)' /\ ClosedList(p)'
    BY <1>1, <1>3, <2>2, <2>4 DEF OrderInv, UnsettledList, ClosedList
  <2>6. ASSUME NEW u \in Settlers, u[2] = p, Active(u)'
        PROVE  ActiveSettler(u)'
    <3>1. Active(u) /\ ActiveSettler(u) /\ Base(u)' = Base(u)
      BY <1>1, <2>4, <2>6 DEF Active, OrderInv, Base
    <3>2. /\ told[p] \in Seq(Dependents) /\ accepted[p] \in Seq(Dependents)
          /\ loc[u].batch \in Seq(Dependents) /\ list[p].nodes \in Seq(Dependents)
      BY <1>1, ListTypes, BatchTypes DEF Threads
    <3>3. InOrder(accepted'[p], told'[p], Base(u)', loc'[u].batch, list'[p].nodes)
      BY <1>1, <2>2, <2>4, <2>6, <3>1, <3>2, OrderAsOneComes DEF ActiveSettler
    <3>4. \A v \in Settlers : v[2] = p /\ Active(v)' => v = u
      BY <2>4, <2>6, <3>1 DEF ActiveSettler, Active
    <3> QED
      BY <2>2, <2>6, <3>1, <3>3, <3>4 DEF ActiveSettler
  <2> QED
    BY <2>3, <2>5, <2>6 DEF OrderInv, ActiveSettler
<1> QED
  BY <1>2, <1>3

\* A round of a settlement that has to be made.
LEMMA RoundKeepsOrder ==
    ASSUME ListInv, NEW t \in Settlers, NEW o \in Outcomes, NEW p, p = t[2],
           Round(t, o), UNCHANGED <<accepted, told>>,
           \/ pc[t] = "start" /\ list[p].state = "unresolved"
           \/ pc[t] = "dispatch" /\ loc[t].batch = <<>>
    PROVE  /\ OrderInv'
           /\ pc[t] = "start" => told[p] = <<>> /\ list[p].nodes = accepted[p] /\ list[p].open
           /\ pc[t] = "dispatch" => list[p].state # "unresolved" /\ list[p].open
           /\ pc[t] = "dispatch" /\ list[p].nodes = <<>> => told[p] = accepted[p]
<1>1. p \in Prerequisites /\ t \in Threads /\ t[2] = p /\ PromiseInv /\ OrderInv
  BY KindsOfThreads DEF ListInv, Threads
<1>2. list' = [list EXCEPT ![p] = [nodes |-> <<>>, state |-> o, open |-> list[p].nodes # <<>>]]
  BY DEF Round
<1>3. /\ told[p] \in Seq(Dependents) /\ accepted[p] \in Seq(Dependents)
      /\ list[p].nodes \in Seq(Dependents) /\ Len(told[p]) \in Nat /\ Len(accepted[p]) \in Nat
      /\ pc \in [Threads -> PCs] /\ loc \in [Threads -> Places] /\ list \in [Prerequisites -> Lists]
  BY <1>1, ListTypes DEF PromiseInv, TypeOK, Places
<1>4. /\ Alone(t)
      /\ IF list[p].nodes = <<>> THEN pc'[t] = "done"
         ELSE pc'[t] = "dispatch" /\ loc'[t].batch = list[p].nodes
  BY <1>1, <1>3 DEF Round, Goto, Alone, Places
<1>5. /\ \A q \in Prerequisites \ {p} :
            list'[q] = list[q] /\ accepted'[q] = accepted[q] /\ told'[q] = told[q]
      /\ list'[p].nodes = <<>> /\ list'[p].open = (list[p].nodes # <<>>) /\ list'[p].state = o
      /\ accepted'[p] = accepted[p] /\ told'[p] = told[p] /\ o # "unresolved"
  BY <1>1, <1>2, <1>3 DEF Outcomes
<1>6. /\ \A q \in Prerequisites \ {p} : UnsettledList(q)' /\ ClosedList(q)'
      /\ \A u \in Settlers : u[2] # p => ActiveSettler(u)'
  BY <1>1, <1>4, <1>5, ElsewhereKeepsOrder
<1>7. /\ \A u \in Settlers : u[2] = p /\ Active(u) => u = t
      /\ InOrder(accepted[p], told[p], Len(told[p]), <<>>, list[p].nodes)
      /\ list[p].open
  <2>1. CASE pc[t] = "start"
    <3>1. /\ told[p] = <<>> /\ list[p].nodes = accepted[p] /\ list[p].open
          /\ \A u \in Settlers : u[2] = p => pc[u] = "start"
      BY <1>1, <2>1 DEF OrderInv, UnsettledList
    <3>2. InOrder(accepted[p], <<>>, 0, <<>>, accepted[p])
      BY <1>3 DEF InOrder
    <3> QED
      BY <3>1, <3>2 DEF Active
  <2>2. CASE pc[t] = "dispatch"
    <3>1. Active(t) /\ ActiveSettler(t) /\ loc[t].batch = <<>> /\ Base(t) = Len(told[p])
      BY <1>1, <2>2 DEF OrderInv, Active, Base, After
    <3> QED
      BY <1>1, <3>1 DEF ActiveSettler
  <2> QED
    BY <2>1, <2>2
<1>8. \A u \in Settlers \ {t} : u[2] = p => ~Active(u)'
  BY <1>4, <1>7 DEF Active, Alone, Threads
<1>9. UnsettledList(p)' /\ ClosedList(p)'
  BY <1>4, <1>5, <1>8 DEF UnsettledList, ClosedList, Active
<1>10. ActiveSettler(t)'
  <2> SUFFICES ASSUME Active(t)' PROVE ActiveSettler(t)'
    BY DEF ActiveSettler
  <2>1. pc'[t] = "dispatch" /\ loc'[t].batch = list[p].nodes /\ list[p].nodes # <<>>
    BY <1>4 DEF Active
  <2>2. Base(t)' = Len(told[p])
    BY <1>1, <1>5, <2>1 DEF Base, After
  <2>3. InOrder(accepted[p], told[p], Len(told[p]), list[p].nodes, <<>>)
    BY <1>3, <1>7, OrderAsRoundBegins
  <2> QED
    BY <1>1, <1>5, <1>8, <2>1, <2>2, <2>3 DEF ActiveSettler
<1>11. pc[t] = "start" => told[p] = <<>> /\ list[p].nodes = accepted[p]
  BY <1>1 DEF OrderInv, UnsettledList
<1>12. pc[t] = "dispatch" => list[p].state # "unresolved"
  BY <1>1 DEF OrderInv, ActiveSettler, Active
<1>13. list[p].nodes = <<>> => told[p] = accepted[p]
  BY <1>3, <1>7 DEF InOrder
<1> QED
  BY <1>6, <1>7, <1>8, <1>9, <1>10, <1>11, <1>12, <1>13 DEF OrderInv, ActiveSettler

-----------------------------------------------------------------------------
(* How a step takes the creation of a dependent on.                          *)

\* How a step takes the creation of a dependent on.
CreatorStep(t) ==
    \/ UNCHANGED <<pc, loc>>
    \/ pc[t] \in {"start", "insert"} /\ pc'[t] = "link" /\ loc'[t].i = loc[t].i
    \/ pc[t] = "link" /\ pc'[t] \in Before /\ UNCHANGED loc /\ ~list[Pre(t)].open
    \/ Within(t)
    \/ pc[t] = "tell" /\ pc'[t] \in After /\ UNCHANGED loc
    \/ Departs(t) /\ pc[t] \in After \cup {"tell", "link"}

Steps(t) == Settle(t) \/ StartCreating(t) \/ Step(t)

LEMMA StartSteps ==
    ASSUME PromiseInv, NEW t \in Threads, StartCreating(t) \/ InsertDependent(t)
    PROVE  /\ t \in Creators /\ t \notin Settlers /\ pc[t] \in {"start", "insert"}
           /\ UNCHANGED <<lists, loc>> /\ Alone(t) /\ (UNCHANGED pc \/ pc'[t] = "link")
<1>1. t \in Creators /\ t \notin Settlers
  BY KindsOfThreads DEF StartCreating, InsertDependent, At, Threads, PromiseInv, VisitsItsBatch,
                        AtAPrerequisite
<1>2. UNCHANGED <<lists, loc>> /\ (UNCHANGED pc \/ Goto(t, "link"))
  BY DEF StartCreating, InsertDependent
<1>3. pc[t] \in {"start", "insert"}
  BY DEF StartCreating, InsertDependent, At
<1>4. Goto(t, "link") => pc'[t] = "link" /\ \A u \in Threads \ {t} : pc'[u] = pc[u]
  BY DEF Goto, PromiseInv, TypeOK
<1> QED
  BY <1>1, <1>2, <1>3, <1>4 DEF Alone

\* What a settlement does to the lists: nothing, or one round that has to be made.
LEMMA SettleSteps ==
    ASSUME ListInv, NEW t \in Threads, Settle(t) \/ SettleRest(t)
    PROVE  /\ t \in Settlers /\ t[2] \in Prerequisites /\ UNCHANGED <<accepted, told>> /\ Alone(t)
           /\ \/ UNCHANGED <<list, loc>> /\ pc[t] = "start" /\ pc'[t] = "done"
                   /\ list[t[2]].state # "unresolved"
              \/ \E o \in Outcomes :
                   /\ Round(t, o)
                   /\ \/ pc[t] = "start" /\ list[t[2]].state = "unresolved"
                      \/ /\ pc[t] = "dispatch" /\ loc[t].batch = <<>>
                         /\ o = list[t[2]].state
<1>1. t \in Settlers /\ t[2] \in Prerequisites /\ UNCHANGED <<accepted, told>>
  BY KindsOfThreads DEF Settle, SettleRest, At, ListInv, PromiseInv, AtAPrerequisite,
                        Threads
<1>2. pc \in [Threads -> PCs] /\ loc \in [Threads -> Places]
  BY DEF ListInv, PromiseInv, TypeOK, Places
<1>3. \A o : Round(t, o) => Alone(t)
  BY <1>2 DEF Round, Goto, Alone
<1>4. CASE Settle(t) /\ list[t[2]].state # "unresolved"
  <2>1. Goto(t, "done") /\ UNCHANGED <<list, loc>> /\ pc[t] = "start"
    BY <1>4 DEF Settle, At
  <2> QED
    BY <1>1, <1>2, <1>4, <2>1 DEF Goto, Alone
<1>5. CASE Settle(t) /\ list[t[2]].state = "unresolved"
  <2>1. pc[t] = "start" /\ \E o \in Outcomes : Round(t, o)
    BY <1>5 DEF Settle, At, Outcomes
  <2> QED
    BY <1>1, <1>3, <1>5, <2>1
<1>6. CASE SettleRest(t)
  <2>1. pc[t] = "dispatch" /\ loc[t].batch = <<>> /\ Round(t, list[t[2]].state)
    BY <1>6 DEF SettleRest, At
  <2>2. list[t[2]].state \in States /\ list[t[2]].state # "unresolved"
    BY <1>1, <2>1, ListTypes DEF ListInv, OrderInv, ActiveSettler, Active
  <2> QED
    BY <1>1, <1>3, <2>1, <2>2 DEF States
<1> QED
  BY <1>4, <1>5, <1>6

LEMMA StepsMove ==
    ASSUME ListInv, NEW t \in Threads, Steps(t)
    PROVE  /\ Alone(t) \/ UNCHANGED <<pc, loc>>
           /\ t \in Creators => pc[t] # "done" /\ CreatorStep(t)
           /\ t \in Runners => pc'[t] \in After \cup {"start", "done"}
<1>1. PromiseInv /\ \A u \in Runners : pc[u] \in After \cup {"start", "done"}
  BY DEF ListInv, RunnerPlaces
<1>2. CASE Settle(t) \/ SettleRest(t)
  BY <1>2, SettleSteps, KindsOfThreads
<1>3. CASE StartCreating(t) \/ InsertDependent(t)
  BY <1>1, <1>3, StartSteps, KindsOfThreads DEF CreatorStep
<1>4. CASE LinkNode(t)
  BY <1>1, <1>4, LinkSteps, KindsOfThreads DEF CreatorStep, Departs
<1>5. CASE QuietStep(t)
  <2>1. pc[t] # "done"
    BY <1>5 DEF QuietStep, RetainSettledPrerequisite, AddRef, CountDown, RemoveCanceled, MarkFirst,
                Execute, RunTask, RunExecutor, Finish, OnCanceled, ResetValue, Clear, At
  <2>2. t \in Runners => t \notin Creators /\ t \notin Settlers
    BY KindsOfThreads
  <2>3. CASE UNCHANGED <<pc, loc>>
    BY <1>1, <2>1, <2>3 DEF CreatorStep
  <2>4. CASE Within(t)
    BY <1>1, <2>1, <2>2, <2>4 DEF CreatorStep, Within, Before, After
  <2>5. CASE Leaves(t)
    BY <1>1, <2>1, <2>2, <2>5 DEF CreatorStep, Leaves, Departs
  <2> QED
    BY <1>1, <1>5, <2>3, <2>4, <2>5, QuietSteps
<1>6. CASE Tell(t)
  <2>1. t \notin Runners
    BY <1>1, <1>6, TellSteps DEF After
  <2> QED
    BY <1>1, <1>6, <2>1, TellSteps DEF CreatorStep, Departs, After
<1> QED
  BY <1>2, <1>3, <1>4, <1>5, <1>6 DEF Steps, Step, QuietStep

LEMMA StepsKeepTypes ==
    ASSUME PromiseInv, NEW t \in Threads, Steps(t)
    PROVE  PromiseInv'
BY StepsPreservePromiseInv DEF Next, Steps

LEMMA CreationGoesOn ==
    ASSUME ListInv, NEW t \in Threads, Steps(t), NEW u \in Creators
    PROVE  /\ loc'[u].i >= loc[u].i
           /\ pc[u] = "done" => pc'[u] = "done" /\ loc'[u].i = loc[u].i
<1>1. loc[u].i \in Nat /\ u \in Threads /\ u \notin Settlers
  BY BatchTypes, KindsOfThreads DEF ListInv, Threads
<1>2. CASE t # u
  BY <1>1, <1>2, StepsMove DEF Alone
<1>3. CASE t = u
  BY <1>1, <1>3, StepsMove DEF CreatorStep, Within, Departs
<1> QED
  BY <1>2, <1>3

LEMMA PassedStays ==
    ASSUME ListInv, NEW t \in Threads, Steps(t), NEW d \in Dependents, NEW p, Passed(d, p)
    PROVE  Passed(d, p)'
<1>1. Creator(d) \in Creators /\ loc[Creator(d)].i \in Nat
  BY BatchTypes DEF Creator, Creators, ListInv, Threads
<1>2. loc'[Creator(d)].i \in Nat
  BY <1>1, StepsKeepTypes DEF ListInv, PromiseInv, TypeOK, Threads
<1>3. Needs[d] \in Seq(Prerequisites)
  BY NeedsAssumption
<1> QED
  BY <1>1, <1>2, <1>3, CreationGoesOn DEF Passed, Creator

-----------------------------------------------------------------------------
(* ListInv is inductive.                                                     *)

LEMMA StepsKeepOrder ==
    ASSUME ListInv, NEW t \in Threads, Steps(t)
    PROVE  /\ OrderInv'
           /\ \A p \in Prerequisites : list'[p].open => list[p].open
<1>1. PromiseInv /\ OrderInv
  BY DEF ListInv
<1>2. CASE Settle(t) \/ SettleRest(t)
  <2>1. CASE /\ UNCHANGED <<list, loc>> /\ pc[t] = "start" /\ pc'[t] = "done"
             /\ list[t[2]].state # "unresolved"
    <3>1. UNCHANGED lists /\ t \in Settlers
      BY <1>2, <2>1, SettleSteps DEF lists
    <3>0. \A u \in Settlers \ {t} : pc'[u] = pc[u] /\ loc'[u] = loc[u]
      BY <1>2, SettleSteps DEF Alone, Threads
    <3>2. \A u \in Settlers : Active(u)' <=> Active(u)
      BY <2>1, <3>0 DEF Active
    <3>3. \A u \in Settlers : Active(u) => pc'[u] = pc[u] /\ loc'[u] = loc[u]
      BY <2>1, <3>0 DEF Active
    <3>4. \A u \in Settlers : ActiveSettler(u)'
      BY <1>1, <2>1, <3>1, <3>2, <3>3 DEF OrderInv, ActiveSettler, Base, lists
    <3>5. \A p \in Prerequisites : UnsettledList(p)' /\ ClosedList(p)'
      <4> SUFFICES ASSUME NEW p \in Prerequisites PROVE UnsettledList(p)' /\ ClosedList(p)'
        OBVIOUS
      <4>1. p = t[2] => list[p].state # "unresolved"
        BY <2>1
      <4>2. p # t[2] => \A u \in Settlers : u[2] = p => pc'[u] = pc[u]
        BY <3>0
      <4> QED
        BY <1>1, <3>1, <3>2, <4>1, <4>2 DEF OrderInv, UnsettledList, ClosedList, lists
    <3> QED
      BY <3>1, <3>4, <3>5 DEF OrderInv, lists
  <2>2. ASSUME NEW o \in Outcomes, Round(t, o),
               \/ pc[t] = "start" /\ list[t[2]].state = "unresolved"
               \/ pc[t] = "dispatch" /\ loc[t].batch = <<>>
        PROVE  OrderInv' /\ \A p \in Prerequisites : list'[p].open => list[p].open
    <3>1. PICK p : p = t[2]
      OBVIOUS
    <3>2. /\ t \in Settlers /\ UNCHANGED <<accepted, told>> /\ p \in Prerequisites
      BY <1>2, <3>1, SettleSteps
    <3>3. OrderInv' /\ list[p].open
      BY <2>2, <3>1, <3>2, RoundKeepsOrder
    <3>4. \A q \in Prerequisites \ {p} : list'[q] = list[q]
      BY <1>1, <2>2, <3>1, <3>2 DEF Round, PromiseInv, TypeOK
    <3> QED
      BY <3>3, <3>4
  <2> QED
    BY <1>2, <2>1, <2>2, SettleSteps
<1>3. CASE StartCreating(t) \/ InsertDependent(t)
  BY <1>1, <1>3, StartSteps, OthersKeepOrder DEF lists
<1>4. CASE LinkNode(t)
  <2>1. \A p \in Prerequisites : list'[p].open = list[p].open
    <3>1. list \in [Prerequisites -> Lists]
      BY <1>1 DEF PromiseInv, TypeOK
    <3>2. CASE UNCHANGED list
      BY <3>2
    <3>3. CASE list' = [list EXCEPT ![Pre(t)].nodes = Append(list[Pre(t)].nodes, t[2])]
      BY <3>1, <3>3 DEF Lists
    <3> QED
      BY <1>1, <1>4, <3>2, <3>3, LinkSteps
  <2> QED
    BY <1>4, <2>1, LinkKeepsOrder
<1>5. CASE QuietStep(t)
  BY <1>1, <1>5, QuietSteps, QuietKeepsOrder DEF lists
<1>6. CASE Tell(t)
  BY <1>1, <1>6, TellSteps, TellKeepsOrder
<1> QED
  BY <1>2, <1>3, <1>4, <1>5, <1>6 DEF Steps, Step, QuietStep

\* Only linking a node changes what was accepted.
LEMMA AcceptedSteps ==
    ASSUME ListInv, NEW t \in Threads, Steps(t), ~LinkNode(t)
    PROVE  UNCHANGED accepted
<1>1. PromiseInv
  BY DEF ListInv
<1> QED
  BY <1>1, SettleSteps, StartSteps, QuietSteps, TellSteps DEF Steps, Step, QuietStep, lists

LEMMA StepsInsertOnce ==
    ASSUME ListInv, NEW t \in Threads, Steps(t)
    PROVE  InsertedOnce'
<1>1. /\ PromiseInv /\ PromiseInv' /\ InsertedOnce
  BY StepsKeepTypes DEF ListInv
<1>2. ASSUME NEW p \in Prerequisites
      PROVE  /\ \A d \in Dependents : Accepted(d, p)' => Passed(d, p)' /\ p \in NeededBy(d)
             /\ \A k, l \in 1..Len(accepted'[p]) : accepted'[p][k] = accepted'[p][l] => k = l
  <2>1. /\ accepted[p] \in Seq(Dependents) /\ Len(accepted[p]) \in Nat
        /\ \A k \in 1..Len(accepted[p]) : accepted[p][k] \in Dependents
    BY <1>1, ListTypes
  <2>2. /\ \A d \in Dependents :
              Accepted(d, p) => Passed(d, p) /\ Passed(d, p)' /\ p \in NeededBy(d)
        /\ \A k, l \in 1..Len(accepted[p]) : accepted[p][k] = accepted[p][l] => k = l
    BY <1>1, <2>1, PassedStays DEF InsertedOnce
  <2>3. CASE accepted'[p] = accepted[p]
    BY <2>2, <2>3 DEF Accepted
  <2>4. CASE accepted'[p] # accepted[p]
    <3>1. LinkNode(t)
      BY <2>4, AcceptedSteps
    <3>2. /\ t \in Creators /\ pc[t] = "link" /\ Pre(t) = p /\ t[2] \in Dependents /\ Departs(t)
          /\ accepted'[p] = Append(accepted[p], t[2])
      <4>1. accepted \in [Prerequisites -> Seq(Dependents)]
        BY <1>1 DEF PromiseInv, TypeOK
      <4> QED
        BY <1>1, <2>4, <3>1, <4>1, LinkSteps
    <3>3. PICK d \in Dependents : d = t[2] /\ t = Creator(d)
      BY <3>2 DEF Creators, Creator
    <3>4. /\ Needs[d] \in Seq(Prerequisites) /\ loc[t].i \in DOMAIN Needs[d]
          /\ Needs[d][loc[t].i] = p /\ loc[t].i \in Nat
          /\ \A j \in DOMAIN Needs[d] : Needs[d][j] = p => j = loc[t].i
      BY <1>1, <3>2, <3>3, NeedsAssumption, KindsOfThreads, BatchTypes
      DEF Pre, PromiseInv, AtAPrerequisite
    <3>5. Passed(d, p)'
      <4>1. /\ t \notin Settlers
            /\ \/ pc'[t] = "insert" /\ loc'[t].i = loc[t].i + 1
               \/ pc'[t] = "done" /\ loc'[t].i = loc[t].i
        BY <3>2, KindsOfThreads DEF Departs
      <4>2. \A j \in DOMAIN Needs[d] :
              Needs[d][j] = p => j < loc'[t].i \/ (j = loc'[t].i /\ pc'[t] = "done")
        BY <3>4, <4>1
      <4> QED
        BY <3>3, <4>2 DEF Passed, Creator
    <3>6. ~Passed(d, p)
      BY <3>2, <3>3, <3>4 DEF Passed
    <3>7. p \in NeededBy(d)
      BY <3>4 DEF NeededBy
    <3>8. /\ Len(accepted'[p]) = Len(accepted[p]) + 1 /\ accepted'[p][Len(accepted[p]) + 1] = d
          /\ \A k \in 1..Len(accepted[p]) : accepted'[p][k] = accepted[p][k]
      BY <2>1, <3>2, <3>3
    <3>9. \A k \in 1..Len(accepted[p]) : accepted[p][k] # d
      BY <2>2, <3>6 DEF Accepted
    <3>10. \A k \in 1..Len(accepted'[p]) : k \in 1..Len(accepted[p]) \/ k = Len(accepted[p]) + 1
      BY <2>1, <3>8
    <3> QED
      <4>1. \A e \in Dependents : Accepted(e, p)' => Accepted(e, p) \/ e = d
        BY <3>8, <3>10 DEF Accepted
      <4>2. \A k, l \in 1..Len(accepted'[p]) : accepted'[p][k] = accepted'[p][l] => k = l
        BY <2>2, <3>8, <3>9, <3>10
      <4> QED
        BY <2>2, <3>5, <3>7, <4>1, <4>2
  <2> QED
    BY <2>3, <2>4
<1>3. ASSUME NEW u \in Creators, pc'[u] \in Before \cup After
      PROVE  ~list'[Pre(u)'].open
  <2>1. u \in Threads /\ u \notin Settlers
    BY <1>3, KindsOfThreads DEF Threads
  <2>2. pc'[u] \notin {"start", "dispatch", "done", "link", "insert"}
    BY <1>3 DEF Before, After
  <2>3. ~list[Pre(u)].open /\ loc'[u].i = loc[u].i
    <3>1. CASE t # u \/ UNCHANGED <<pc, loc>>
      BY <1>1, <1>3, <2>1, <3>1, StepsMove DEF Alone, InsertedOnce
    <3>2. CASE t = u /\ ~UNCHANGED <<pc, loc>>
      <4>1. CreatorStep(t) /\ t = u /\ t \in Creators /\ t \notin Settlers
        BY <1>3, <2>1, <3>2, StepsMove
      <4>2. ~Departs(t) /\ pc'[t] # "link"
        BY <2>2, <4>1 DEF Departs
      <4>3. CASE pc[t] = "link" /\ pc'[t] \in Before /\ UNCHANGED loc /\ ~list[Pre(t)].open
        BY <4>1, <4>3
      <4>4. CASE Within(t)
        <5>1. pc[t] \in Before \cup After \cup {"dispatch"} /\ loc'[t].i = loc[t].i
          BY <4>1, <4>4, KindsOfThreads DEF Within
        <5>2. pc[t] # "dispatch"
          BY <1>1, <4>1 DEF PromiseInv, AtAPrerequisite
        <5> QED
          BY <1>1, <4>1, <5>1, <5>2 DEF InsertedOnce
      <4>5. CASE pc[t] = "tell" /\ pc'[t] \in After /\ UNCHANGED loc
        BY <1>1, <4>1, <4>5 DEF InsertedOnce, Before
      <4> QED
        BY <3>2, <4>1, <4>2, <4>3, <4>4, <4>5 DEF CreatorStep
    <3> QED
      BY <3>1, <3>2
  <2>4. Pre(u)' = Pre(u) /\ Pre(u) \in Prerequisites
    <3>1. Pre(u)' = Pre(u)
      BY <2>1, <2>3 DEF Pre
    <3>2. Pre(u)' \in Prerequisites
      <4>1. Needs[u[2]] \in Seq(Prerequisites) /\ loc[u].i \in DOMAIN Needs[u[2]]
        BY <1>1, <1>3, KindsOfThreads, NeedsAssumption DEF PromiseInv, AtAPrerequisite
      <4> QED
        BY <2>1, <3>1, <4>1 DEF Pre
    <3> QED
      BY <3>1, <3>2
  <2> QED
    BY <2>3, <2>4, StepsKeepOrder
<1> QED
  BY <1>2, <1>3 DEF InsertedOnce

LEMMA StepsKeepListInv == ListInv /\ [Next]_vars => ListInv'
<1>1. ASSUME ListInv, UNCHANGED vars
      PROVE  ListInv'
  <2>1. PromiseInv'
    BY <1>1, StepsPreservePromiseInv DEF ListInv
  <2>2. OrderInv'
    BY <1>1, QuietKeepsOrder
    DEF ListInv, vars, lists, OrderInv, UnsettledList, ClosedList, ActiveSettler, Active, Base
  <2>3. InsertedOnce' /\ RunnerPlaces'
    BY <1>1 DEF ListInv, vars, lists, InsertedOnce, Accepted, Passed, RunnerPlaces, Pre
  <2> QED
    BY <2>1, <2>2, <2>3 DEF ListInv
<1>2. ASSUME ListInv, NEW t \in Threads, Steps(t)
      PROVE  ListInv'
  <2>1. RunnerPlaces'
    BY <1>2, StepsMove DEF ListInv, RunnerPlaces, Alone, Threads
  <2> QED
    BY <1>2, <2>1, StepsKeepTypes, StepsKeepOrder, StepsInsertOnce DEF ListInv
<1> QED
  BY <1>1, <1>2 DEF Next, Steps

LEMMA ListInvInitially == Init => ListInv
<1> SUFFICES ASSUME Init PROVE ListInv
  OBVIOUS
<1>1. PromiseInv /\ \A t \in Threads : pc[t] = "start"
  BY Initially DEF Init
<1>2. \A p \in Prerequisites :
        /\ list[p] = [nodes |-> <<>>, state |-> "unresolved", open |-> TRUE]
        /\ accepted[p] = <<>> /\ told[p] = <<>>
  BY DEF Init
<1>3. OrderInv
  BY <1>1, <1>2 DEF OrderInv, UnsettledList, ClosedList, ActiveSettler, Active, Threads
<1>4. InsertedOnce /\ RunnerPlaces
  BY <1>1, <1>2 DEF InsertedOnce, Accepted, RunnerPlaces, Threads, Before, After
<1> QED
  BY <1>1, <1>3, <1>4 DEF ListInv

-----------------------------------------------------------------------------
(* The lists implement Settlement.                                           *)

\* The state of a list as Settlement sees it.
SettledAs == [p \in Prerequisites |-> list[p].state]
ClosedNow == [p \in Prerequisites |-> ~list[p].open]

LEMMA RoundImplements ==
    ASSUME ListInv, NEW t \in Settlers, NEW o \in Outcomes, NEW p, p = t[2],
           Round(t, o), UNCHANGED <<accepted, told>>,
           \/ pc[t] = "start" /\ list[p].state = "unresolved"
           \/ pc[t] = "dispatch" /\ loc[t].batch = <<>> /\ o = list[p].state
    PROVE  Queue!Settle(p, o) \/ Queue!Close(p) \/ UNCHANGED Queue!vars
<1>1. /\ p \in Prerequisites /\ list \in [Prerequisites -> Lists]
      /\ list' = [list EXCEPT ![p] = [nodes |-> <<>>, state |-> o, open |-> list[p].nodes # <<>>]]
  BY KindsOfThreads DEF Round, ListInv, PromiseInv, TypeOK
<1>2. /\ SettledAs' = [SettledAs EXCEPT ![p] = o]
      /\ ClosedNow' = [ClosedNow EXCEPT ![p] = (list[p].nodes = <<>>)]
      /\ SettledAs[p] = list[p].state /\ ClosedNow[p] = ~list[p].open
  BY <1>1 DEF SettledAs, ClosedNow
<1>3. /\ pc[t] = "start" => told[p] = <<>> /\ list[p].nodes = accepted[p] /\ list[p].open
      /\ pc[t] = "dispatch" => list[p].state # "unresolved" /\ list[p].open
      /\ pc[t] = "dispatch" /\ list[p].nodes = <<>> => told[p] = accepted[p]
  BY RoundKeepsOrder
<1>4. CASE pc[t] = "start" /\ list[p].state = "unresolved"
  <2>1. Queue!Settle(p, o)
    BY <1>2, <1>3, <1>4 DEF Queue!Settle, SettledAs, ClosedNow
  <2> QED
    BY <2>1
<1>5. CASE pc[t] = "dispatch" /\ o = list[p].state /\ list[p].nodes = <<>>
  <2>1. SettledAs' = SettledAs /\ ClosedNow' = [ClosedNow EXCEPT ![p] = TRUE]
    BY <1>2, <1>5 DEF SettledAs
  <2>2. Queue!Close(p)
    BY <1>1, <1>3, <1>5, <2>1 DEF Queue!Close, SettledAs, ClosedNow
  <2> QED
    BY <2>2
<1>6. CASE pc[t] = "dispatch" /\ o = list[p].state /\ list[p].nodes # <<>>
  <2>1. SettledAs' = SettledAs /\ ClosedNow' = ClosedNow
    BY <1>2, <1>3, <1>6 DEF SettledAs, ClosedNow
  <2>2. UNCHANGED Queue!vars
    BY <2>1 DEF Queue!vars, SettledAs, ClosedNow
  <2> QED
    BY <2>2
<1> QED
  BY <1>4, <1>5, <1>6

LEMMA LinkImplements ==
    ASSUME ListInv, NEW t \in Threads, LinkNode(t)
    PROVE  (\E p \in Prerequisites, d \in Dependents : Queue!Insert(p, d)) \/ UNCHANGED Queue!vars
<1>0. PICK p : p = Pre(t)
  OBVIOUS
<1>1. /\ p \in Prerequisites /\ t[2] \in Dependents /\ UNCHANGED told
      /\ list \in [Prerequisites -> Lists]
  BY <1>0, LinkSteps DEF ListInv, PromiseInv, TypeOK
<1>2. CASE ~list[p].open
  BY <1>0, <1>1, <1>2, LinkSteps DEF ListInv, Queue!vars
<1>3. CASE list[p].open
  <2>1. /\ list' = [list EXCEPT ![p].nodes = Append(list[p].nodes, t[2])]
        /\ accepted' = [accepted EXCEPT ![p] = Append(@, t[2])]
    BY <1>0, <1>1, <1>3, LinkSteps DEF ListInv
  <2>2. \A q \in Prerequisites : list'[q].state = list[q].state /\ list'[q].open = list[q].open
    BY <1>1, <2>1 DEF Lists
  <2>3. Queue!Insert(p, t[2])
    BY <1>1, <1>3, <2>1, <2>2 DEF Queue!Insert
  <2> QED
    BY <1>1, <2>3
<1> QED
  BY <1>2, <1>3

LEMMA TellImplements ==
    ASSUME ListInv, NEW t \in Threads, Tell(t)
    PROVE  \E p \in Prerequisites, d \in Dependents : Queue!Tell(p) \/ Queue!TellLate(p, d)
<1>0. PICK p, d : p = Pre(t) /\ d = Dep(t)
  OBVIOUS
<1>1. /\ p \in Prerequisites /\ d \in Dependents /\ pc[t] = "tell" /\ UNCHANGED <<list, accepted>>
      /\ told' = [told EXCEPT ![p] = Append(@, d)]
  BY <1>0, TellSteps, PlaceOfVisit DEF ListInv
<1>2. CASE t \in Settlers
  <2>1. /\ list[p].state # "unresolved" /\ Len(told[p]) < Len(accepted[p])
        /\ d = accepted[p][Len(told[p]) + 1]
    BY <1>0, <1>2, TellKeepsOrder
  <2>2. told' = [told EXCEPT ![p] = Append(@, accepted[p][Len(@) + 1])]
    BY <1>1, <2>1
  <2>3. Queue!Tell(p)
    BY <1>1, <2>1, <2>2 DEF Queue!Tell
  <2> QED
    BY <1>1, <2>3
<1>3. CASE t \notin Settlers
  <2>1. t \in Creators /\ ~list[p].open
    BY <1>0, <1>3, TellKeepsOrder
  <2>2. \A k \in DOMAIN accepted[p] : accepted[p][k] # d
    <3>1. t = Creator(d) /\ d = t[2]
      BY <1>0, <1>3, <2>1 DEF Dep, Creators, Creator
    <3>2. /\ loc[t].i \in DOMAIN Needs[d] /\ Needs[d][loc[t].i] = p
          /\ Needs[d] \in Seq(Prerequisites)
      BY <1>0, <1>3, <2>1, <3>1, KindsOfThreads, NeedsAssumption
      DEF Pre, ListInv, PromiseInv, AtAPrerequisite
    <3>3. ~Passed(d, p)
      BY <1>1, <3>1, <3>2 DEF Passed
    <3>4. ~Accepted(d, p)
      BY <1>1, <3>3 DEF ListInv, InsertedOnce
    <3>5. accepted[p] \in Seq(Dependents)
      BY <1>1, ListTypes DEF ListInv
    <3> QED
      BY <3>4, <3>5 DEF Accepted
  <2>3. Queue!TellLate(p, d)
    BY <1>1, <2>1, <2>2 DEF Queue!TellLate
  <2> QED
    BY <1>1, <2>3
<1> QED
  BY <1>2, <1>3

LEMMA StepsImplement == ListInv /\ [Next]_vars => [Queue!Next]_(Queue!vars)
<1> SUFFICES ASSUME ListInv, [Next]_vars PROVE Queue!Next \/ UNCHANGED Queue!vars
  OBVIOUS
<1>0. PromiseInv
  BY DEF ListInv
<1>1. CASE UNCHANGED vars
  BY <1>1 DEF vars, lists, Queue!vars
<1>2. ASSUME NEW t \in Threads, Steps(t)
      PROVE  Queue!Next \/ UNCHANGED Queue!vars
  <2>1. CASE Settle(t) \/ SettleRest(t)
    <3>0. PICK p \in Prerequisites : p = t[2]
      BY <2>1, SettleSteps
    <3>1. CASE UNCHANGED list
      BY <2>1, <3>1, SettleSteps DEF Queue!vars
    <3>2. CASE ~UNCHANGED list
      <4>1. t \in Settlers /\ UNCHANGED <<accepted, told>>
        BY <2>1, SettleSteps
      <4>2. PICK o \in Outcomes :
                   /\ Round(t, o)
                   /\ \/ pc[t] = "start" /\ list[p].state = "unresolved"
                      \/ pc[t] = "dispatch" /\ loc[t].batch = <<>> /\ o = list[p].state
        BY <2>1, <3>0, <3>2, SettleSteps
      <4>3. Queue!Settle(p, o) \/ Queue!Close(p) \/ UNCHANGED Queue!vars
        BY <3>0, <4>1, <4>2, RoundImplements
      <4> QED
        BY <4>3 DEF Queue!Next, Outcomes
    <3> QED
      BY <3>1, <3>2
  <2>2. CASE StartCreating(t) \/ InsertDependent(t)
    BY <1>0, <2>2, StartSteps DEF Queue!vars, lists
  <2>3. CASE LinkNode(t)
    BY <2>3, LinkImplements DEF Queue!Next
  <2>4. CASE QuietStep(t)
    BY <1>0, <2>4, QuietSteps DEF Queue!vars, lists
  <2>5. CASE Tell(t)
    BY <2>5, TellImplements DEF Queue!Next
  <2> QED
    BY <1>2, <2>1, <2>2, <2>3, <2>4, <2>5 DEF Steps, Step, QuietStep
<1> QED
  BY <1>1, <1>2 DEF Next, Steps

\* However insertions race with the rounds of a settlement, dependents hear
\* the outcome of a prerequisite in the order of their insertion, once, and an
\* insertion fails after all of them: DependentList keeps its promise for any
\* number of prerequisites, dependents and threads.
THEOREM ListsImplementSettlement == Spec => ImplementsSettlement
<1>1. Init => Queue!Init
  <2> SUFFICES ASSUME Init PROVE Queue!Init
    OBVIOUS
  <2>1. \A p \in Prerequisites : list[p].state = "unresolved" /\ list[p].open = TRUE
    BY DEF Init
  <2>2. /\ accepted = [p \in Prerequisites |-> <<>>]
        /\ told = [p \in Prerequisites |-> <<>>]
    BY DEF Init
  <2>3. /\ [p \in Prerequisites |-> list[p].state] = [p \in Prerequisites |-> "unresolved"]
        /\ [p \in Prerequisites |-> ~list[p].open] = [p \in Prerequisites |-> FALSE]
    BY <2>1
  <2> QED
    BY <2>2, <2>3 DEF Queue!Init
<1> QED
  BY <1>1, ListInvInitially, StepsKeepListInv, StepsImplement, PTL
  DEF Spec, ImplementsSettlement, Queue!Spec

-----------------------------------------------------------------------------
(* Who has heard of a prerequisite.                                          *)

Visitors == Settlers \cup Creators

Heard(d, p) == \E k \in 1..Len(told[p]) : told[p][k] = d

\* The creation of a dependent has nothing left to tell it about a prerequisite.
PastTelling(d, p) ==
    \A j \in DOMAIN Needs[d] :
        Needs[d][j] = p =>
          \/ j < loc[Creator(d)].i
          \/ j = loc[Creator(d)].i /\ pc[Creator(d)] \in After \cup {"done"}

HeardOnce ==
    /\ \A d \in Dependents, p \in Prerequisites : Heard(d, p) => PastTelling(d, p)
    /\ \A t \in Creators : pc[t] \in After => Heard(t[2], Pre(t))

TaskPlaces == \A t \in Runners :
                pc[t] \in {"start", "run", "finish", "cancel", "reset", "clear", "done"}

VisitInv == ListInv /\ HeardOnce /\ TaskPlaces

Visiting(t) == t \in Visitors /\ pc[t] \in Before \cup After

-----------------------------------------------------------------------------
LEMMA PlaceOfCreator ==
    ASSUME PromiseInv, NEW t \in Creators
    PROVE  /\ t[2] \in Dependents /\ t = Creator(t[2]) /\ Dep(t) = t[2]
           /\ Needs[t[2]] \in Seq(Prerequisites) /\ loc[t].i \in DOMAIN Needs[t[2]]
           /\ Pre(t) = Needs[t[2]][loc[t].i] /\ loc[t].i \in Nat
           /\ Pre(t) \in NeededBy(t[2]) /\ Pre(t) \in Prerequisites
<1>1. t \notin Settlers /\ t[2] \in Dependents /\ t \in Threads
  BY KindsOfThreads DEF Threads
<1>2. Needs[t[2]] \in Seq(Prerequisites) /\ loc[t].i \in DOMAIN Needs[t[2]] /\ loc[t].i \in Nat
  BY <1>1, NeedsAssumption, BatchTypes DEF PromiseInv, AtAPrerequisite
<1>3. t = Creator(t[2])
  BY DEF Creators, Creator
<1> QED
  BY <1>1, <1>2, <1>3 DEF Dep, Pre, NeededBy

\* A settlement visits a dependent that was accepted: the next to be told or
\* the last that was told.
LEMMA PlaceOfSettler ==
    ASSUME ListInv, NEW t \in Settlers, pc[t] \in Before \cup After \cup {"dispatch"},
           pc[t] = "dispatch" => loc[t].batch # <<>>
    PROVE  /\ t[2] \in Prerequisites /\ Pre(t) = t[2] /\ Dep(t) \in Dependents
           /\ Base(t) + 1 \in 1..Len(accepted[t[2]]) /\ Dep(t) = accepted[t[2]][Base(t) + 1]
           /\ list[t[2]].state # "unresolved"
           /\ pc[t] \in After => Heard(Dep(t), t[2])
           /\ pc[t] \notin After => ~Heard(Dep(t), t[2])
<1>0. PICK p : p = t[2]
  OBVIOUS
<1>1. p \in Prerequisites /\ t \in Threads /\ PromiseInv
  BY <1>0, KindsOfThreads DEF ListInv, Threads
<1>2. /\ Active(t) /\ list[p].state # "unresolved"
      /\ InOrder(accepted[p], told[p], Base(t), loc[t].batch, list[p].nodes)
  BY <1>0 DEF ListInv, OrderInv, ActiveSettler, Active, Before, After
<1>3. loc[t].batch # <<>>
  BY <1>1 DEF PromiseInv, VisitsItsBatch, Before, After
<1>4. /\ accepted[p] \in Seq(Dependents) /\ told[p] \in Seq(Dependents)
      /\ list[p].nodes \in Seq(Dependents) /\ loc[t].batch \in Seq(Dependents)
      /\ Len(accepted[p]) \in Nat /\ Len(told[p]) \in Nat /\ Len(list[p].nodes) \in Nat
      /\ Len(loc[t].batch) \in Nat
  BY <1>1, ListTypes, BatchTypes
<1>5. /\ Dep(t) = Head(loc[t].batch) /\ Pre(t) = p /\ Head(loc[t].batch) = loc[t].batch[1]
      /\ 1 \in 1..Len(loc[t].batch)
  BY <1>0, <1>3, <1>4 DEF Dep, Pre
<1>6. /\ Base(t) \in Nat /\ Len(accepted[p]) = Base(t) + Len(loc[t].batch) + Len(list[p].nodes)
      /\ loc[t].batch[1] = accepted[p][Base(t) + 1] /\ Len(told[p]) <= Len(accepted[p])
      /\ \A k \in 1..Len(told[p]) : told[p][k] = accepted[p][k]
  BY <1>2, <1>5 DEF InOrder
<1>7. Base(t) + 1 \in 1..Len(accepted[p])
  <2>1. Len(loc[t].batch) >= 1
    BY <1>4, <1>5
  <2>2. Base(t) \in Nat /\ Len(accepted[p]) = Base(t) + Len(loc[t].batch) + Len(list[p].nodes)
    BY <1>6
  <2>3. /\ Len(accepted[p]) \in Nat /\ Len(list[p].nodes) \in Nat /\ Len(loc[t].batch) \in Nat
    BY <1>4
  <2> QED
    BY <2>1, <2>2, <2>3
<1>8. CASE pc[t] \in After
  <2>1. Base(t) + 1 = Len(told[p]) /\ Len(told[p]) \in 1..Len(told[p])
    BY <1>0, <1>4, <1>6, <1>8 DEF Base
  <2>2. told[p][Len(told[p])] = Dep(t)
    BY <1>5, <1>6, <2>1
  <2>3. Heard(Dep(t), p)
    BY <2>1, <2>2 DEF Heard
  <2>4. Dep(t) \in Dependents /\ Dep(t) = accepted[p][Base(t) + 1]
    BY <1>4, <1>5, <1>6
  <2> QED
    BY <1>0, <1>1, <1>2, <1>5, <1>7, <1>8, <2>3, <2>4
<1>9. CASE pc[t] \notin After
  <2>1. Base(t) = Len(told[p])
    BY <1>0, <1>9 DEF Base
  <2>2. \A k, l \in 1..Len(accepted[p]) : accepted[p][k] = accepted[p][l] => k = l
    BY <1>1 DEF ListInv, InsertedOnce
  <2>3. \A k \in 1..Len(told[p]) : told[p][k] # Dep(t)
    <3> SUFFICES ASSUME NEW k \in 1..Len(told[p]), told[p][k] = Dep(t) PROVE FALSE
      OBVIOUS
    <3>1. k \in 1..Len(accepted[p]) /\ accepted[p][k] = accepted[p][Base(t) + 1]
      BY <1>4, <1>5, <1>6
    <3>2. k = Base(t) + 1
      BY <1>7, <2>2, <3>1
    <3> QED
      BY <1>4, <2>1, <3>2
  <2>4. ~Heard(Dep(t), p)
    BY <2>3 DEF Heard
  <2>5. Dep(t) \in Dependents /\ Dep(t) = accepted[p][Base(t) + 1]
    BY <1>4, <1>5, <1>6
  <2> QED
    BY <1>0, <1>1, <1>2, <1>5, <1>7, <1>9, <2>4, <2>5
<1> QED
  BY <1>8, <1>9

\* Each dependent hears of each prerequisite in one visit.
LEMMA VisitFacts ==
    ASSUME VisitInv, NEW t, Visiting(t)
    PROVE  /\ Dep(t) \in Dependents /\ Pre(t) \in Prerequisites /\ Pre(t) \in NeededBy(Dep(t))
           /\ list[Pre(t)].state \in Outcomes
           /\ pc[t] \in After => Heard(Dep(t), Pre(t))
           /\ pc[t] \notin After => ~Heard(Dep(t), Pre(t))
<1>0. ListInv /\ HeardOnce /\ PromiseInv /\ t \in Threads
  BY DEF VisitInv, ListInv, Visiting, Visitors, Threads
<1>1. CASE t \in Settlers
  <2>1. /\ t[2] \in Prerequisites /\ Pre(t) = t[2] /\ Dep(t) \in Dependents
        /\ Accepted(Dep(t), t[2])
        /\ list[t[2]].state # "unresolved"
        /\ pc[t] \in After => Heard(Dep(t), t[2])
        /\ pc[t] \notin After => ~Heard(Dep(t), t[2])
    BY <1>0, <1>1, PlaceOfSettler DEF Visiting, Before, After, Accepted
  <2>2. t[2] \in NeededBy(Dep(t))
    BY <1>0, <2>1 DEF ListInv, InsertedOnce
  <2> QED
    BY <1>0, <2>1, <2>2, ListTypes DEF States
<1>2. CASE t \in Creators
  <2>1. /\ Dep(t) = t[2] /\ t[2] \in Dependents /\ Pre(t) \in NeededBy(t[2])
        /\ Pre(t) \in Prerequisites
        /\ t = Creator(t[2]) /\ loc[t].i \in DOMAIN Needs[t[2]] /\ Pre(t) = Needs[t[2]][loc[t].i]
        /\ loc[t].i \in Nat
    BY <1>0, <1>2, PlaceOfCreator
  <2>2. ~list[Pre(t)].open
    BY <1>0, <1>2 DEF ListInv, InsertedOnce, Visiting
  <2>3. list[Pre(t)].state # "unresolved"
    BY <1>0, <2>1, <2>2 DEF ListInv, OrderInv, UnsettledList
  <2>4. pc[t] \notin After => ~Heard(Dep(t), Pre(t))
    <3> SUFFICES ASSUME pc[t] \in Before, Heard(t[2], Pre(t)) PROVE FALSE
      BY <2>1 DEF Visiting
    <3>1. PastTelling(t[2], Pre(t))
      BY <1>0, <2>1 DEF HeardOnce
    <3> QED
      BY <2>1, <3>1 DEF PastTelling, Before, After
  <2> QED
    BY <1>0, <1>2, <2>1, <2>3, <2>4, ListTypes DEF States, HeardOnce
<1> QED
  BY <1>1, <1>2 DEF Visiting, Visitors

LEMMA OneVisit ==
    ASSUME VisitInv, NEW t, NEW u, Visiting(t), Visiting(u), Dep(t) = Dep(u), Pre(t) = Pre(u)
    PROVE  t = u
<1>0. ListInv /\ PromiseInv /\ OrderInv /\ InsertedOnce
  BY DEF VisitInv, ListInv
<1>1. ASSUME NEW v \in Settlers, NEW w \in Creators, Visiting(v), Visiting(w),
             Dep(v) = Dep(w), Pre(v) = Pre(w)
      PROVE  FALSE
  <2>1. Accepted(Dep(v), Pre(v)) /\ Dep(v) \in Dependents /\ Pre(v) \in Prerequisites
    BY <1>0, <1>1, PlaceOfSettler DEF Visiting, Before, After, Accepted
  <2>2. Passed(Dep(w), Pre(w))
    BY <1>0, <1>1, <2>1 DEF InsertedOnce
  <2>3. /\ Dep(w) = w[2] /\ w = Creator(w[2]) /\ loc[w].i \in DOMAIN Needs[w[2]]
        /\ Pre(w) = Needs[w[2]][loc[w].i] /\ loc[w].i \in Nat
    BY <1>0, PlaceOfCreator
  <2> QED
    BY <1>1, <2>2, <2>3 DEF Passed, Visiting, Before, After
<1>2. CASE t \in Settlers /\ u \in Settlers
  <2>1. Active(t) /\ Active(u) /\ ActiveSettler(t) /\ t[2] = u[2]
    BY <1>0, <1>2 DEF Visiting, Active, Before, After, OrderInv, Pre
  <2> QED
    BY <1>2, <2>1 DEF ActiveSettler
<1>3. CASE t \in Creators /\ u \in Creators
  BY <1>0, <1>3, PlaceOfCreator
<1> QED
  BY <1>1, <1>2, <1>3 DEF Visiting, Visitors

LEMMA HeardSteps ==
    ASSUME ListInv, NEW t \in Threads, Steps(t),
           NEW d \in Dependents, NEW p \in Prerequisites
    PROVE  /\ Heard(d, p) => Heard(d, p)'
           /\ Heard(d, p)' => Heard(d, p) \/ (Tell(t) /\ d = Dep(t) /\ p = Pre(t))
           /\ Tell(t) /\ d = Dep(t) /\ p = Pre(t) => Heard(d, p)'
<1>1. PromiseInv /\ told[p] \in Seq(Dependents) /\ Len(told[p]) \in Nat
  BY ListTypes DEF ListInv
<1>2. CASE Tell(t)
  <2>1. told' = [told EXCEPT ![Pre(t)] = Append(told[Pre(t)], Dep(t))]
    BY <1>1, <1>2, TellSteps
  <2>2. CASE p # Pre(t)
    BY <1>1, <2>1, <2>2 DEF Heard, PromiseInv, TypeOK
  <2>3. CASE p = Pre(t)
    <3>1. told'[p] = Append(told[p], Dep(t))
      BY <1>1, <2>1, <2>3 DEF PromiseInv, TypeOK
    <3>2. Dep(t) \in Dependents
      BY <1>1, <1>2, TellSteps, PlaceOfVisit
    <3>3. /\ Len(told'[p]) = Len(told[p]) + 1 /\ told'[p][Len(told[p]) + 1] = Dep(t)
          /\ \A k \in 1..Len(told[p]) : told'[p][k] = told[p][k]
      BY <1>1, <3>1, <3>2
    <3>4. \A k : k \in 1..Len(told'[p]) <=> (k \in 1..Len(told[p]) \/ k = Len(told[p]) + 1)
      BY <1>1, <3>3
    <3> QED
      BY <1>2, <2>3, <3>3, <3>4 DEF Heard
  <2> QED
    BY <2>2, <2>3
<1>3. CASE ~Tell(t)
  <2>1. UNCHANGED told
    BY <1>1, <1>3, SettleSteps, StartSteps, QuietSteps, LinkSteps DEF Steps, Step, QuietStep, lists
  <2> QED
    BY <1>3, <2>1 DEF Heard
<1> QED
  BY <1>2, <1>3

LEMMA SettledSteps ==
    ASSUME ListInv, NEW t \in Threads, Steps(t), NEW p \in Prerequisites,
           list[p].state # "unresolved"
    PROVE  list'[p].state = list[p].state
<1>1. PromiseInv /\ list \in [Prerequisites -> Lists]
  BY DEF ListInv, PromiseInv, TypeOK
<1>2. CASE Settle(t) \/ SettleRest(t)
  <2>1. CASE UNCHANGED list
    BY <2>1
  <2>2. CASE ~UNCHANGED list
    <3>1. PICK o \in Outcomes :
             /\ Round(t, o)
             /\ list[t[2]].state = "unresolved" \/ o = list[t[2]].state
      BY <1>2, <2>2, SettleSteps
    <3>2. CASE p = t[2]
      BY <1>1, <3>1, <3>2 DEF Round
    <3>3. CASE p # t[2]
      BY <1>1, <3>1, <3>3 DEF Round
    <3> QED
      BY <3>2, <3>3
  <2> QED
    BY <2>1, <2>2
<1>3. CASE LinkNode(t)
  <2>1. CASE UNCHANGED list
    BY <2>1
  <2>2. CASE list' = [list EXCEPT ![Pre(t)].nodes = Append(list[Pre(t)].nodes, t[2])]
    BY <1>1, <2>2 DEF Lists
  <2> QED
    BY <1>1, <1>3, <2>1, <2>2, LinkSteps
<1>4. CASE ~(Settle(t) \/ SettleRest(t) \/ LinkNode(t))
  BY <1>1, <1>4, StartSteps, QuietSteps, TellSteps DEF Steps, Step, QuietStep, lists
<1> QED
  BY <1>2, <1>3, <1>4

LEMMA PastTellingStays ==
    ASSUME ListInv, NEW t \in Threads, Steps(t), NEW d \in Dependents, NEW p, PastTelling(d, p)
    PROVE  PastTelling(d, p)'
<1>0. PICK u \in Creators : u = Creator(d)
  BY DEF Creators, Creator
<1>1. /\ u \in Threads /\ loc[u].i \in Nat /\ loc'[u].i \in Nat
      /\ Needs[d] \in Seq(Prerequisites) /\ u \notin Settlers /\ u \notin Runners
  BY StepsKeepTypes, BatchTypes, KindsOfThreads, NeedsAssumption
  DEF ListInv, PromiseInv, TypeOK, Threads
<1>2. loc'[u].i >= loc[u].i
  BY CreationGoesOn
<1>3. pc[u] \in After \cup {"done"} =>
        \/ loc'[u].i = loc[u].i /\ pc'[u] \in After \cup {"done"}
        \/ loc'[u].i = loc[u].i + 1
  <2>1. CASE t # u \/ UNCHANGED <<pc, loc>>
    BY <1>1, <2>1, StepsMove DEF Alone
  <2>2. CASE t = u /\ ~UNCHANGED <<pc, loc>>
    <3> SUFFICES ASSUME pc[u] \in After
                 PROVE  \/ loc'[u].i = loc[u].i /\ pc'[u] \in After \cup {"done"}
                        \/ loc'[u].i = loc[u].i + 1
      BY <2>2, StepsMove
    <3>1. CreatorStep(u) /\ pc[u] \notin Before /\ pc[u] # "dispatch" /\ pc[u] # "link"
      BY <2>2, StepsMove DEF After, Before
    <3>2. CASE Departs(u)
      BY <1>1, <3>2 DEF Departs
    <3>3. CASE Within(u)
      BY <1>1, <3>1, <3>3 DEF Within
    <3>4. CASE pc[u] = "tell" /\ pc'[u] \in After /\ UNCHANGED loc
      BY <3>4
    <3>5. pc[u] \notin {"start", "insert"}
      BY DEF After
    <3> QED
      BY <2>2, <3>1, <3>2, <3>3, <3>4, <3>5 DEF CreatorStep
  <2> QED
    BY <2>1, <2>2
<1>4. \A j \in DOMAIN Needs[d] :
        Needs[d][j] = p =>
          \/ j < loc'[u].i
          \/ j = loc'[u].i /\ pc'[u] \in After \cup {"done"}
  <2> SUFFICES ASSUME NEW j \in DOMAIN Needs[d], Needs[d][j] = p
               PROVE  \/ j < loc'[u].i
                      \/ j = loc'[u].i /\ pc'[u] \in After \cup {"done"}
    OBVIOUS
  <2>1. j \in Nat /\ (j < loc[u].i \/ (j = loc[u].i /\ pc[u] \in After \cup {"done"}))
    BY <1>0, <1>1 DEF PastTelling
  <2> QED
    BY <1>1, <1>2, <1>3, <2>1
<1> QED
  BY <1>0, <1>4 DEF PastTelling, Creator

LEMMA TellingIsPast ==
    ASSUME VisitInv, NEW t \in Threads, Tell(t), NEW d, NEW p, d = Dep(t), p = Pre(t)
    PROVE  PastTelling(d, p)'
<1>0. /\ ListInv /\ PromiseInv /\ pc[t] = "tell" /\ Steps(t) /\ d \in Dependents
      /\ p \in Prerequisites
  BY TellSteps, PlaceOfVisit DEF VisitInv, ListInv, Steps, Step
<1>1. CASE t \in Settlers
  <2>1. Accepted(d, p)
    BY <1>0, <1>1, PlaceOfSettler DEF Before, After, Accepted
  <2>2. Passed(d, p)
    BY <1>0, <2>1 DEF ListInv, InsertedOnce
  <2>3. PastTelling(d, p)
    BY <2>2 DEF Passed, PastTelling
  <2> QED
    BY <1>0, <2>3, PastTellingStays
<1>2. CASE t \notin Settlers
  <2>1. t \in Creators
    BY <1>0, <1>2, TellKeepsOrder
  <2>2. /\ t = Creator(d) /\ d = t[2] /\ loc[t].i \in Nat /\ Needs[d] \in Seq(Prerequisites)
        /\ loc[t].i \in DOMAIN Needs[d] /\ p = Needs[d][loc[t].i]
    BY <1>0, <2>1, PlaceOfCreator
  <2>3. \A j \in DOMAIN Needs[d] : Needs[d][j] = p => j = loc[t].i
    BY <1>0, <2>2, NeedsAssumption
  <2>4. \/ pc'[t] \in After \cup {"done"} /\ loc'[t].i = loc[t].i
        \/ loc'[t].i = loc[t].i + 1
    BY <1>0, <1>2, TellSteps DEF Departs, After
  <2>5. \A j \in DOMAIN Needs[d] :
          Needs[d][j] = p =>
            \/ j < loc'[t].i
            \/ j = loc'[t].i /\ pc'[t] \in After \cup {"done"}
    BY <2>2, <2>3, <2>4
  <2> QED
    BY <2>2, <2>5 DEF PastTelling, Creator
<1> QED
  BY <1>1, <1>2

\* The thread of a step that has told its dependent before the step or in it.
LEMMA CreatorAfterTelling ==
    ASSUME VisitInv, NEW t \in Creators, Steps(t), pc'[t] \in After
    PROVE  loc'[t].i = loc[t].i /\ (pc[t] \in After \/ Tell(t))
<1>1. ListInv /\ PromiseInv /\ t \in Threads /\ t \notin Settlers /\ t \notin Runners
  BY KindsOfThreads DEF VisitInv, ListInv, Threads
<1>2. pc'[t] \notin {"start", "insert", "link", "done", "dispatch"} /\ pc'[t] \notin Before
  BY DEF After, Before
<1>3. CASE Settle(t) \/ SettleRest(t) \/ StartCreating(t) \/ InsertDependent(t) \/ LinkNode(t)
  <2>1. ~(Settle(t) \/ SettleRest(t)) /\ (LinkNode(t) => ~Departs(t))
    BY <1>1, <1>2, SettleSteps DEF Departs
  <2>2. UNCHANGED pc => pc[t] = pc'[t]
    OBVIOUS
  <2> QED
    BY <1>1, <1>2, <1>3, <2>1, StartSteps, LinkSteps
<1>4. CASE QuietStep(t)
  BY <1>1, <1>2, <1>4, QuietSteps DEF Within, Leaves, Departs
<1>5. CASE Tell(t)
  BY <1>1, <1>2, <1>5, TellSteps DEF Departs
<1> QED
  BY <1>3, <1>4, <1>5 DEF Steps, Step, QuietStep

LEMMA StepsHearOnce ==
    ASSUME VisitInv, NEW t \in Threads, Steps(t)
    PROVE  HeardOnce'
<1>1. ListInv /\ PromiseInv /\ HeardOnce
  BY DEF VisitInv, ListInv
<1>2. ASSUME NEW d \in Dependents, NEW p \in Prerequisites, Heard(d, p)'
      PROVE  PastTelling(d, p)'
  <2>1. CASE Heard(d, p)
    BY <1>1, <2>1, PastTellingStays DEF HeardOnce
  <2>2. CASE Tell(t) /\ d = Dep(t) /\ p = Pre(t)
    BY <2>2, TellingIsPast
  <2> QED
    BY <1>1, <1>2, <2>1, <2>2, HeardSteps
<1>3. ASSUME NEW u \in Creators, pc'[u] \in After
      PROVE  Heard(u[2], Pre(u))'
  <2>1. loc'[u].i = loc[u].i /\ u \notin Settlers
    BY <1>1, <1>3, CreatorAfterTelling, StepsMove, KindsOfThreads DEF Alone, Threads
  <2>2. Pre(u)' = Pre(u) /\ u[2] \in Dependents /\ Pre(u) \in Prerequisites /\ Dep(u) = u[2]
    BY <1>1, <2>1, PlaceOfCreator DEF Pre
  <2>3. CASE u = t
    <3>1. CASE pc[t] \in After
      <4>1. Heard(u[2], Pre(u))
        BY <1>1, <2>3, <3>1 DEF HeardOnce
      <4>2. PICK p : p = Pre(u)
        OBVIOUS
      <4>3. Heard(u[2], p)'
        BY <1>1, <2>2, <4>1, <4>2, HeardSteps
      <4> QED
        BY <2>2, <4>2, <4>3 DEF Heard
    <3>2. CASE Tell(t)
      <4>1. PICK p : p = Pre(u)
        OBVIOUS
      <4>2. Heard(u[2], p)'
        BY <1>1, <2>2, <2>3, <3>2, <4>1, HeardSteps
      <4> QED
        BY <2>2, <4>1, <4>2 DEF Heard
    <3> QED
      BY <1>3, <2>3, <3>1, <3>2, CreatorAfterTelling
  <2>4. CASE u # t
    <3>1. pc[u] \in After
      BY <1>1, <1>3, <2>4, StepsMove DEF Alone, Threads
    <3>2. Heard(u[2], Pre(u))
      BY <1>1, <3>1 DEF HeardOnce
    <3>3. PICK p : p = Pre(u)
      OBVIOUS
    <3>4. Heard(u[2], p)'
      BY <1>1, <2>2, <3>2, <3>3, HeardSteps
    <3> QED
      BY <2>2, <3>3, <3>4 DEF Heard
  <2> QED
    BY <2>3, <2>4
<1> QED
  BY <1>2, <1>3 DEF HeardOnce

LEMMA StepsKeepTaskPlaces ==
    ASSUME VisitInv, NEW t \in Threads, Steps(t)
    PROVE  TaskPlaces'
<1> USE DEF Goto
<1>1. ListInv /\ PromiseInv /\ TaskPlaces /\ pc \in [Threads -> PCs]
  BY DEF VisitInv, ListInv, PromiseInv, TypeOK
<1>2. CASE t \notin Runners
  BY <1>1, <1>2, StepsMove DEF TaskPlaces, Alone, Threads
<1>3. CASE t \in Runners
  <2>0. /\ t \notin Settlers /\ t \notin Creators
        /\ pc[t] \in {"start", "run", "finish", "cancel", "reset", "clear", "done"}
    BY <1>1, <1>3, KindsOfThreads DEF TaskPlaces
  <2> DEFINE OK == pc'[t] \in {"start", "run", "finish", "cancel", "reset", "clear", "done"}
  <2>1. ASSUME NEW more, Resume(t, more) PROVE OK
    BY <1>1, <2>0, <2>1 DEF Resume
  <2>2. ASSUME RunTask(t) \/ RunExecutor(t) PROVE OK
    BY <1>1, <2>0, <2>2 DEF RunTask, RunExecutor, Executing
  <2>3. ASSUME Finish(t) PROVE OK
    BY <1>1, <2>1, <2>3 DEF Finish
  <2>4. ASSUME OnCanceled(t) PROVE OK
    BY <1>1, <2>1, <2>4 DEF OnCanceled
  <2>5. ASSUME ResetValue(t) PROVE OK
    BY <1>1, <2>5 DEF ResetValue
  <2>6. ASSUME Clear(t) PROVE OK
    BY <1>1, <2>0, <2>1, <2>6 DEF Clear
  <2>7. OK
    <3>1. ~(Settle(t) \/ SettleRest(t) \/ StartCreating(t) \/ InsertDependent(t) \/ LinkNode(t))
      BY <1>1, <2>0, SettleSteps, StartSteps, LinkSteps
    <3>2. ~(\/ RetainSettledPrerequisite(t) \/ AddRef(t) \/ Tell(t) \/ CountDown(t)
            \/ RemoveCanceled(t) \/ MarkFirst(t) \/ Execute(t))
      BY <2>0 DEF RetainSettledPrerequisite, AddRef, Tell, CountDown, RemoveCanceled, MarkFirst,
                  Execute, At
    <3> QED
      BY <2>2, <2>3, <2>4, <2>5, <2>6, <3>1, <3>2 DEF Steps, Step
  <2> QED
    BY <1>1, <1>3, <2>7, StepsMove DEF TaskPlaces, Alone, Threads
<1> QED
  BY <1>2, <1>3

LEMMA StepsKeepVisitInv == VisitInv /\ [Next]_vars => VisitInv'
<1>1. ASSUME VisitInv, UNCHANGED vars
      PROVE  VisitInv'
  <2>1. HeardOnce' /\ TaskPlaces'
    BY <1>1 DEF VisitInv, vars, lists, HeardOnce, Heard, PastTelling, TaskPlaces, Pre
  <2> QED
    BY <1>1, <2>1, StepsKeepListInv DEF VisitInv
<1>2. ASSUME VisitInv, NEW t \in Threads, Steps(t)
      PROVE  VisitInv'
  <2>1. ListInv'
    BY <1>2, StepsKeepListInv DEF VisitInv, Next, Steps
  <2> QED
    BY <1>2, <2>1, StepsHearOnce, StepsKeepTaskPlaces DEF VisitInv
<1> QED
  BY <1>1, <1>2 DEF Next, Steps

LEMMA VisitInvInitially == Init => VisitInv
<1> SUFFICES ASSUME Init PROVE VisitInv
  OBVIOUS
<1>1. \A p \in Prerequisites : told[p] = <<>>
  BY DEF Init
<1>2. \A t \in Threads : pc[t] = "start"
  BY DEF Init
<1>3. HeardOnce /\ TaskPlaces
  BY <1>1, <1>2 DEF HeardOnce, Heard, TaskPlaces, Threads, After
<1> QED
  BY <1>3, ListInvInitially DEF VisitInv

-----------------------------------------------------------------------------
(* Which steps decide about a dependent, and how.                            *)

\* The places of a thread that decides about a dependent.
Deciding == {"count", "mark", "execute", "run", "finish", "cancel", "reset", "clear"}

LEMMA OthersStay ==
    ASSUME ListInv, NEW t \in Threads, Steps(t), NEW u \in Threads \ {t}
    PROVE  pc'[u] = pc[u] /\ Dep(u)' = Dep(u) /\ Pre(u)' = Pre(u)
<1>1. pc'[u] = pc[u] /\ loc'[u] = loc[u]
  BY StepsMove DEF Alone
<1> QED
  BY <1>1 DEF Dep, Pre

LEMMA ResumeDecides ==
    ASSUME PromiseInv, NEW t \in Threads, NEW more, Resume(t, more)
    PROVE  pc'[t] \notin Deciding
BY ResumeDeparts DEF Departs, Deciding

LEMMA SamePlace ==
    ASSUME NEW t, UNCHANGED loc
    PROVE  Dep(t)' = Dep(t) /\ Pre(t)' = Pre(t)
BY DEF Dep, Pre

\* The steps that decide nothing.
IdleStep(t) ==
    \/ Settle(t) \/ SettleRest(t) \/ StartCreating(t) \/ InsertDependent(t) \/ LinkNode(t)
    \/ RetainSettledPrerequisite(t) \/ AddRef(t) \/ RemoveCanceled(t) \/ Clear(t)

LEMMA IdleSteps ==
    ASSUME ListInv, NEW t \in Threads, IdleStep(t)
    PROVE  /\ UNCHANGED <<kind, settling>>
           /\ pc'[t] \in Deciding =>
                pc[t] = "clear" /\ pc'[t] = "clear" /\ Dep(t)' = Dep(t) /\ Pre(t)' = Pre(t)
<1>0. PromiseInv /\ pc \in [Threads -> PCs] /\ loc \in [Threads -> Places]
  BY DEF ListInv, PromiseInv, TypeOK, Places
<1>1. CASE Settle(t) \/ SettleRest(t)
  <2>1. UNCHANGED <<kind, settling>>
    BY <1>1 DEF Settle, SettleRest
  <2>2. pc'[t] \in {"done", "dispatch"}
    BY <1>0, <1>1 DEF Settle, SettleRest, Round, Goto
  <2> QED
    BY <2>1, <2>2 DEF Deciding
<1>2. CASE StartCreating(t) \/ InsertDependent(t)
  BY <1>0, <1>2, StartSteps DEF StartCreating, InsertDependent, Deciding
<1>3. CASE LinkNode(t)
  <2>1. UNCHANGED <<kind, settling>>
    BY <1>3 DEF LinkNode
  <2> QED
    BY <1>0, <1>3, <2>1, LinkSteps DEF Deciding, Before, Departs
<1>4. CASE RetainSettledPrerequisite(t)
  BY <1>0, <1>4 DEF RetainSettledPrerequisite, Goto, Deciding
<1>5. CASE AddRef(t)
  <2>1. UNCHANGED <<kind, settling>> /\ pc[t] = "addref" /\ (Goto(t, "tell") \/ UNCHANGED pc)
    BY <1>5 DEF AddRef, At, lists
  <2> QED
    BY <1>0, <2>1 DEF Goto, Deciding
<1>6. CASE RemoveCanceled(t)
  BY <1>0, <1>6, ResumeDecides DEF RemoveCanceled
<1>7. CASE Clear(t)
  <2>1. UNCHANGED <<kind, settling>> /\ pc[t] = "clear"
    BY <1>7 DEF Clear, At
  <2>2. CASE Resume(t, Told(t) # "canceled")
    BY <1>0, <2>1, <2>2, ResumeDecides
  <2>3. CASE loc' = [loc EXCEPT ![t].k = loc[t].k + 1] /\ UNCHANGED pc
    <3>1. loc'[t].batch = loc[t].batch /\ loc'[t].i = loc[t].i
      BY <1>0, <2>3 DEF Places
    <3>2. Dep(t)' = Dep(t) /\ Pre(t)' = Pre(t)
      BY <3>1 DEF Dep, Pre
    <3> QED
      BY <2>1, <2>3, <3>2
  <2> QED
    BY <1>7, <2>2, <2>3 DEF Clear
<1> QED
  BY <1>1, <1>2, <1>3, <1>4, <1>5, <1>6, <1>7 DEF IdleStep

LEMMA DecidingSteps ==
    ASSUME NEW t, Steps(t)
    PROVE  \/ IdleStep(t) \/ Tell(t) \/ CountDown(t) \/ MarkFirst(t)
           \/ Execute(t) \/ RunTask(t) \/ RunExecutor(t) \/ Finish(t)
           \/ OnCanceled(t) \/ ResetValue(t)
BY DEF Steps, Step, IdleStep

LEMMA DispatchSteps ==
    ASSUME PromiseInv, NEW t \in Threads, Dispatch(t)
    PROVE  \/ /\ tasks' = tasks /\ loc' = loc /\ pc'[t] = "execute"
              /\ Dep(t)' = Dep(t) /\ Pre(t)' = Pre(t)
           \/ tasks' = tasks \cup {Dep(t)} /\ pc'[t] \notin Deciding
<1>1. pc \in [Threads -> PCs]
  BY DEF PromiseInv, TypeOK
<1> QED
  BY <1>1, ResumeDecides, SamePlace DEF Dispatch, Goto

\* What each deciding step does to the dependent of its thread.
LEMMA TellDecides ==
    ASSUME VisitInv, NEW t \in Threads, Tell(t)
    PROVE  /\ Visiting(t) /\ pc[t] = "tell" /\ UNCHANGED <<kind, settling>>
           /\ \/ pc'[t] \notin Deciding
              \/ /\ Dep(t)' = Dep(t) /\ Pre(t)' = Pre(t)
                 /\ \/ /\ pc'[t] = "mark"
                       /\ \/ Told(t) = "rejected"
                          \/ Told(t) = "resolved" /\ kind[Dep(t)] = "any"
                    \/ /\ pc'[t] = "count"
                       /\ Told(t) = IF kind[Dep(t)] = "any" THEN "canceled" ELSE "resolved"
                    \/ /\ pc'[t] = "cancel" /\ Told(t) = "canceled" /\ kind[Dep(t)] # "any"
<1>0. PromiseInv /\ ListInv /\ pc \in [Threads -> PCs]
  BY DEF VisitInv, ListInv, PromiseInv, TypeOK
<1>1. Visiting(t) /\ pc[t] = "tell"
  BY <1>0, TellSteps, TellKeepsOrder DEF Visiting, Visitors, Before
<1>2. Told(t) \in Outcomes
  BY <1>1, VisitFacts DEF Told
<1>3. CASE Resume(t, Told(t) # "canceled")
  BY <1>0, <1>1, <1>3, ResumeDecides DEF Tell
<1>4. CASE ~Resume(t, Told(t) # "canceled")
  <2>1. UNCHANGED loc
    BY <1>4 DEF Tell
  <2>2. CASE Told(t) = "rejected" \/ (Told(t) = "resolved" /\ PrerequisitePolicy(Dep(t)) = "any")
    BY <1>0, <1>1, <2>1, <2>2, SamePlace DEF Tell, Goto, PrerequisitePolicy
  <2>3. CASE ~(Told(t) = "rejected" \/ (Told(t) = "resolved" /\ PrerequisitePolicy(Dep(t)) = "any"))
    BY <1>0, <1>1, <1>2, <1>4, <2>1, <2>3, SamePlace DEF Tell, Goto, PrerequisitePolicy, Outcomes
  <2> QED
    BY <2>2, <2>3
<1> QED
  BY <1>3, <1>4

-----------------------------------------------------------------------------
(* What a prerequisite is counted for, and who is first.                     *)

LEMMA CountDownDecides ==
    ASSUME VisitInv, NEW t \in Threads, CountDown(t)
    PROVE  /\ Visiting(t) /\ pc[t] = "count" /\ UNCHANGED <<kind, first, value, status, runs>>
           /\ count' = [count EXCEPT ![Dep(t)] = count[Dep(t)] - 1]
           /\ \/ UNCHANGED tasks /\ pc'[t] \notin Deciding
              \/ /\ UNCHANGED tasks /\ pc'[t] = "cancel" /\ Dep(t)' = Dep(t) /\ Pre(t)' = Pre(t)
                 /\ count[Dep(t)] = 1 /\ Told(t) # "resolved"
              \/ count[Dep(t)] = 1 /\ Told(t) = "resolved" /\ Dispatch(t)
<1>0. PromiseInv /\ pc \in [Threads -> PCs]
  BY DEF VisitInv, ListInv, PromiseInv, TypeOK
<1>1. pc[t] = "count" /\ t \in Visitors
  BY DEF CountDown, At, VisitInv, TaskPlaces, Visitors, Threads
<1>2. Visiting(t)
  BY <1>1 DEF Visiting, After
<1>3. CASE Told(t) = "resolved"
  BY <1>0, <1>1, <1>2, <1>3, ResumeDecides DEF CountDown
<1>4. CASE Told(t) # "resolved"
  BY <1>0, <1>1, <1>2, <1>4, SamePlace DEF CountDown, Goto, Deciding
<1> QED
  BY <1>3, <1>4

LEMMA MarkFirstDecides ==
    ASSUME VisitInv, NEW t \in Threads, MarkFirst(t)
    PROVE  /\ Visiting(t) /\ pc[t] = "mark" /\ UNCHANGED <<kind, count, value, status, runs>>
           /\ \/ UNCHANGED <<first, tasks>> /\ pc'[t] \notin Deciding
              \/ /\ first[Dep(t)] = None /\ first' = [first EXCEPT ![Dep(t)] = Pre(t)]
                 /\ Dispatch(t)
<1>0. PromiseInv
  BY DEF VisitInv, ListInv
<1>1. pc[t] = "mark" /\ t \in Visitors
  BY DEF MarkFirst, At, VisitInv, TaskPlaces, Visitors, Threads
<1>2. Visiting(t)
  BY <1>1 DEF Visiting, After
<1> QED
  BY <1>0, <1>1, <1>2, ResumeDecides DEF MarkFirst

\* Where a thread runs or cancels its dependent.
LEMMA ExecutionDecides ==
    ASSUME VisitInv, NEW t \in Threads
    PROVE  /\ Execute(t) =>
                /\ UNCHANGED <<kind, settling, loc>> /\ pc[t] = "execute"
                /\ pc'[t] = IF value[Dep(t)] = "executor" THEN "run" ELSE "cancel"
           /\ RunTask(t) =>
                /\ UNCHANGED <<kind, count, first, value, status, runs, loc>> /\ pc[t] = "start"
                /\ t \in Runners /\ Dep(t) = t[2] /\ Dep(t) \in tasks /\ tasks' = tasks \ {Dep(t)}
                /\ pc'[t] = IF value[Dep(t)] = "executor" THEN "run" ELSE "cancel"
           /\ RunExecutor(t) =>
                /\ UNCHANGED <<kind, count, first, status, tasks, loc>> /\ pc[t] = "run"
                /\ \/ UNCHANGED <<value, runs, pc>> /\ value[Dep(t)] # "executor"
                   \/ /\ value[Dep(t)] = "executor" /\ pc'[t] = "finish"
                      /\ \E r \in Results(Dep(t)) : value' = [value EXCEPT ![Dep(t)] = r]
                      /\ runs' = [runs EXCEPT ![Dep(t)] = runs[Dep(t)] + 1]
           /\ Finish(t) =>
                /\ UNCHANGED <<kind, count, first, value, tasks, runs>> /\ pc[t] = "finish"
                /\ \/ UNCHANGED status /\ pc'[t] \notin Deciding
                   \/ /\ value[Dep(t)] \in {"resolved", "rejected"}
                      /\ status' = [status EXCEPT ![Dep(t)] =
                                      IF status[Dep(t)] = "unresolved" THEN value[Dep(t)]
                                      ELSE status[Dep(t)]]
                      /\ pc'[t] = "clear" /\ UNCHANGED loc
           /\ OnCanceled(t) =>
                /\ UNCHANGED <<kind, count, first, value, tasks, runs>> /\ pc[t] = "cancel"
                /\ \/ UNCHANGED status /\ pc'[t] \notin Deciding
                   \/ /\ status[Dep(t)] = "unresolved"
                      /\ status' = [status EXCEPT ![Dep(t)] = "canceled"]
                      /\ pc'[t] = "reset" /\ UNCHANGED loc
           /\ ResetValue(t) =>
                /\ UNCHANGED <<kind, count, first, status, tasks, runs, loc>> /\ pc[t] = "reset"
                /\ value' = [value EXCEPT ![Dep(t)] = "none"] /\ pc'[t] = "clear"
<1>0. PromiseInv /\ pc \in [Threads -> PCs]
  BY DEF VisitInv, ListInv, PromiseInv, TypeOK
<1>1. ASSUME Execute(t)
      PROVE  /\ UNCHANGED <<kind, settling, loc>> /\ pc[t] = "execute"
             /\ pc'[t] = IF value[Dep(t)] = "executor" THEN "run" ELSE "cancel"
  BY <1>0, <1>1 DEF Execute, Executing, Goto, At
<1>2. ASSUME RunTask(t)
      PROVE  /\ UNCHANGED <<kind, count, first, value, status, runs, loc>> /\ pc[t] = "start"
             /\ t \in Runners /\ Dep(t) = t[2] /\ Dep(t) \in tasks /\ tasks' = tasks \ {Dep(t)}
             /\ pc'[t] = IF value[Dep(t)] = "executor" THEN "run" ELSE "cancel"
  <2>1. t \in Runners /\ t \notin Settlers
    BY <1>2, KindsOfThreads DEF RunTask
  <2> QED
    BY <1>0, <1>2, <2>1 DEF RunTask, Executing, Goto, At, Dep
<1>3. ASSUME RunExecutor(t)
      PROVE  /\ UNCHANGED <<kind, count, first, status, tasks, loc>> /\ pc[t] = "run"
             /\ \/ UNCHANGED <<value, runs, pc>> /\ value[Dep(t)] # "executor"
                \/ /\ value[Dep(t)] = "executor" /\ pc'[t] = "finish"
                   /\ \E r \in Results(Dep(t)) : value' = [value EXCEPT ![Dep(t)] = r]
                   /\ runs' = [runs EXCEPT ![Dep(t)] = runs[Dep(t)] + 1]
  BY <1>0, <1>3 DEF RunExecutor, Goto, At
<1>4. ASSUME Finish(t)
      PROVE  /\ UNCHANGED <<kind, count, first, value, tasks, runs>> /\ pc[t] = "finish"
             /\ \/ UNCHANGED status /\ pc'[t] \notin Deciding
                \/ /\ value[Dep(t)] \in {"resolved", "rejected"}
                   /\ status' = [status EXCEPT ![Dep(t)] =
                                   IF status[Dep(t)] = "unresolved" THEN value[Dep(t)]
                                   ELSE status[Dep(t)]]
                   /\ pc'[t] = "clear" /\ UNCHANGED loc
  BY <1>0, <1>4, ResumeDecides DEF Finish, Goto, At
<1>5. ASSUME OnCanceled(t)
      PROVE  /\ UNCHANGED <<kind, count, first, value, tasks, runs>> /\ pc[t] = "cancel"
             /\ \/ UNCHANGED status /\ pc'[t] \notin Deciding
                \/ /\ status[Dep(t)] = "unresolved"
                   /\ status' = [status EXCEPT ![Dep(t)] = "canceled"]
                   /\ pc'[t] = "reset" /\ UNCHANGED loc
  BY <1>0, <1>5, ResumeDecides DEF OnCanceled, Goto, At
<1>6. ASSUME ResetValue(t)
      PROVE  /\ UNCHANGED <<kind, count, first, status, tasks, runs, loc>> /\ pc[t] = "reset"
             /\ value' = [value EXCEPT ![Dep(t)] = "none"] /\ pc'[t] = "clear"
  BY <1>0, <1>6 DEF ResetValue, Goto, At
<1> QED
  BY <1>1, <1>2, <1>3, <1>4, <1>5, <1>6

-----------------------------------------------------------------------------
\* What a dependent counts, and the prerequisites that count no longer.
Out(d) == IF kind[d] = "any" THEN "canceled" ELSE "resolved"
Counting(d, p) == \E t \in Visitors : pc[t] = "count" /\ Dep(t) = d /\ Pre(t) = p
Counted(d, p) == list[p].state = Out(d) /\ Heard(d, p) /\ ~Counting(d, p)
Uncounted(d) == {p \in NeededBy(d) : ~Counted(d, p)}

CountInv ==
    /\ \A d \in Dependents : count[d] >= Cardinality(Uncounted(d))
    /\ \A t \in Visitors : pc[t] = "count" => Told(t) = Out(Dep(t))

\* The first to settle a dependent.
FirstInv ==
    /\ \A d \in Dependents : first[d] # None =>
        /\ first[d] \in NeededBy(d) /\ Heard(d, first[d])
        /\ \/ list[first[d]].state = "rejected"
           \/ list[first[d]].state = "resolved" /\ kind[d] = "any"
    /\ \A t \in Visitors : pc[t] = "mark" =>
        \/ Told(t) = "rejected"
        \/ Told(t) = "resolved" /\ kind[Dep(t)] = "any"

LEMMA KindStays ==
    ASSUME VisitInv, NEW t \in Threads, Steps(t)
    PROVE  kind' = kind
<1>1. ListInv
  BY DEF VisitInv
<1> QED
  BY <1>1, DecidingSteps, IdleSteps, TellDecides, CountDownDecides, MarkFirstDecides,
     ExecutionDecides

\* Who is counting, or marking the first, was told in its visit.
LEMMA EnterCount ==
    ASSUME VisitInv, NEW t \in Threads, Steps(t), pc'[t] \in {"count", "mark"}
    PROVE  /\ Tell(t) /\ Visiting(t) /\ pc[t] = "tell" /\ Dep(t)' = Dep(t) /\ Pre(t)' = Pre(t)
           /\ pc'[t] = "count" => Told(t) = Out(Dep(t))
           /\ pc'[t] = "mark" => \/ Told(t) = "rejected"
                                 \/ Told(t) = "resolved" /\ kind[Dep(t)] = "any"
<1>0. ListInv /\ PromiseInv
  BY DEF VisitInv, ListInv
<1>1. ~IdleStep(t) /\ (Dispatch(t) => FALSE)
  BY <1>0, IdleSteps, DispatchSteps DEF Deciding
<1>2. ~(\/ Execute(t) \/ RunTask(t) \/ RunExecutor(t) \/ Finish(t)
        \/ OnCanceled(t) \/ ResetValue(t))
  BY ExecutionDecides DEF Deciding
<1>3. ~(CountDown(t) \/ MarkFirst(t))
  BY <1>1, CountDownDecides, MarkFirstDecides DEF Deciding
<1>4. Tell(t)
  BY <1>1, <1>2, <1>3, DecidingSteps
<1> QED
  BY <1>4, TellDecides DEF Deciding, Out

LEMMA CountedStays ==
    ASSUME VisitInv, NEW t \in Threads, Steps(t),
           NEW d \in Dependents, NEW p \in Prerequisites, Counted(d, p)
    PROVE  Counted(d, p)'
<1>0. ListInv
  BY DEF VisitInv
<1>1. list'[p].state = Out(d)' /\ Heard(d, p)'
  BY <1>0, KindStays, SettledSteps, HeardSteps DEF Counted, Out
<1>2. ASSUME NEW u \in Visitors, pc'[u] = "count", Dep(u)' = d, Pre(u)' = p
      PROVE  FALSE
  <2>1. u \in Threads
    BY DEF Visitors, Threads
  <2>2. CASE u # t
    <3>1. pc[u] = "count" /\ Dep(u) = d /\ Pre(u) = p
      BY <1>0, <1>2, <2>1, <2>2, OthersStay
    <3> QED
      BY <3>1 DEF Counted, Counting
  <2>3. CASE u = t
    <3>1. Visiting(t) /\ pc[t] = "tell" /\ Dep(t) = d /\ Pre(t) = p
      BY <1>2, <2>3, EnterCount
    <3>2. ~Heard(d, p)
      BY <3>1, VisitFacts DEF After
    <3> QED
      BY <3>2 DEF Counted
  <2> QED
    BY <2>2, <2>3
<1> QED
  BY <1>1, <1>2 DEF Counted, Counting

LEMMA NeededByIsFinite ==
    ASSUME NEW d \in Dependents
    PROVE  /\ IsFiniteSet(NeededBy(d)) /\ NeededBy(d) \subseteq Prerequisites /\ NeededBy(d) # {}
           /\ Cardinality(NeededBy(d)) <= Len(Needs[d])
<1>1. Needs[d] \in Seq(Prerequisites) /\ Needs[d] # <<>> /\ Len(Needs[d]) \in Nat
  BY NeedsAssumption
<1>2. IsFiniteSet(1..Len(Needs[d])) /\ Cardinality(1..Len(Needs[d])) = Len(Needs[d])
  <2>1. PICK n \in Nat : n = Len(Needs[d]) /\ n >= 1
    BY <1>1
  <2>2. IsFiniteSet(1..n) /\ Cardinality(1..n) = IF 1 > n THEN 0 ELSE n - 1 + 1
    <3>1. 1 \in Int /\ n \in Int
      BY <2>1
    <3> QED
      BY <3>1, FS_Interval, Zenon
  <2>3. Cardinality(1..n) = n
    BY <2>1, <2>2
  <2> QED
    BY <2>1, <2>2, <2>3
<1>3. Needs[d] \in Surjection(1..Len(Needs[d]), NeededBy(d))
  <2>1. Needs[d] \in [1..Len(Needs[d]) -> NeededBy(d)]
    BY <1>1 DEF NeededBy
  <2> QED
    BY <1>1, <2>1 DEF NeededBy, Surjection
<1>4. IsFiniteSet(NeededBy(d)) /\ Cardinality(NeededBy(d)) <= Cardinality(1..Len(Needs[d]))
  BY <1>2, <1>3, FS_Surjection
<1> QED
  <2>1. Needs[d][1] \in NeededBy(d) /\ NeededBy(d) \subseteq Prerequisites
    BY <1>1 DEF NeededBy
  <2> QED
    BY <1>2, <1>4, <2>1

LEMMA UncountedIsFinite ==
    ASSUME NEW d \in Dependents
    PROVE  /\ IsFiniteSet(Uncounted(d)) /\ Cardinality(Uncounted(d)) \in Nat
           /\ Cardinality(Uncounted(d)) <= Cardinality(NeededBy(d))
           /\ Uncounted(d) = {} <=> Cardinality(Uncounted(d)) = 0
BY NeededByIsFinite, FS_Subset, FS_CardinalityType, FS_EmptySet DEF Uncounted

LEMMA UncountedShrinks ==
    ASSUME VisitInv, NEW t \in Threads, Steps(t), NEW d \in Dependents
    PROVE  Uncounted(d)' \subseteq Uncounted(d)
BY CountedStays, NeededByIsFinite DEF Uncounted, NeededBy

LEMMA UncountedPrimeFinite ==
    ASSUME NEW d \in Dependents
    PROVE  /\ IsFiniteSet(Uncounted(d)') /\ Cardinality(Uncounted(d)') \in Nat
           /\ Uncounted(d)' = {} <=> Cardinality(Uncounted(d)') = 0
<1>1. Uncounted(d)' \subseteq NeededBy(d)
  BY DEF Uncounted, NeededBy
<1> QED
  BY <1>1, NeededByIsFinite, FS_Subset, FS_CardinalityType, FS_EmptySet

\* The prerequisite that a thread counts down for.
LEMMA CountsOne ==
    ASSUME VisitInv, CountInv, NEW t \in Threads, CountDown(t), NEW d, NEW p,
           d = Dep(t), p = Pre(t)
    PROVE  p \in Uncounted(d) /\ p \notin Uncounted(d)'
<1>0. ListInv /\ Steps(t)
  BY DEF VisitInv, Steps, Step
<1>1. /\ Visiting(t) /\ pc[t] = "count" /\ t \in Visitors /\ d \in Dependents
      /\ p \in Prerequisites /\ p \in NeededBy(d) /\ Heard(d, p) /\ list[p].state \in Outcomes
  BY CountDownDecides, VisitFacts DEF Visiting, After
<1>2. p \in Uncounted(d)
  BY <1>1 DEF Uncounted, Counted, Counting
<1>3. list[p].state = Out(d)
  BY <1>1 DEF CountInv, Told
<1>4. list'[p].state = Out(d)' /\ Heard(d, p)'
  BY <1>0, <1>1, <1>3, KindStays, SettledSteps, HeardSteps DEF Out, Outcomes
<1>5. ASSUME NEW u \in Visitors, pc'[u] = "count", Dep(u)' = d, Pre(u)' = p
      PROVE  FALSE
  <2>1. CASE u = t
    <3>1. ~Tell(t)
      BY <1>1 DEF Tell, At
    <3> QED
      BY <1>0, <1>5, <2>1, <3>1, EnterCount
  <2>2. CASE u # t
    <3>1. pc[u] = "count" /\ Dep(u) = d /\ Pre(u) = p
      BY <1>0, <1>5, <2>2, OthersStay DEF Visitors, Threads
    <3>2. Visiting(u)
      BY <3>1 DEF Visiting, After
    <3> QED
      BY <1>1, <2>2, <3>1, <3>2, OneVisit
  <2> QED
    BY <2>1, <2>2
<1>6. Counted(d, p)'
  BY <1>4, <1>5 DEF Counted, Counting
<1> QED
  BY <1>2, <1>6 DEF Uncounted

LEMMA StepsKeepCountInv ==
    ASSUME VisitInv, CountInv, NEW t \in Threads, Steps(t)
    PROVE  CountInv'
<1>0. ListInv /\ PromiseInv /\ count \in [Dependents -> Int]
  BY DEF VisitInv, ListInv, PromiseInv, TypeOK
<1>1. ASSUME NEW d \in Dependents
      PROVE  count'[d] >= Cardinality(Uncounted(d)')
  <2>1. /\ Uncounted(d)' \subseteq Uncounted(d) /\ IsFiniteSet(Uncounted(d))
        /\ Cardinality(Uncounted(d)') \in Nat /\ Cardinality(Uncounted(d)) \in Nat
        /\ Cardinality(Uncounted(d)') <= Cardinality(Uncounted(d))
        /\ count[d] \in Int /\ count[d] >= Cardinality(Uncounted(d))
    BY <1>0, UncountedShrinks, UncountedIsFinite, UncountedPrimeFinite, FS_Subset DEF CountInv
  <2>2. CASE CountDown(t) /\ d = Dep(t)
    <3>1. PICK p : p = Pre(t)
      OBVIOUS
    <3>2. p \in Uncounted(d) /\ p \notin Uncounted(d)'
      BY <2>2, <3>1, CountsOne
    <3>3. Cardinality(Uncounted(d)') <= Cardinality(Uncounted(d) \ {p})
      <4>1. Uncounted(d)' \subseteq Uncounted(d) \ {p}
        BY <2>1, <3>2
      <4>2. IsFiniteSet(Uncounted(d) \ {p})
        BY <2>1, FS_RemoveElement
      <4> QED
        BY <4>1, <4>2, FS_Subset
    <3>4. Cardinality(Uncounted(d) \ {p}) = Cardinality(Uncounted(d)) - 1
      BY <2>1, <3>2, FS_RemoveElement
    <3>5. count'[d] = count[d] - 1
      BY <1>0, <2>2, CountDownDecides
    <3> QED
      BY <2>1, <3>3, <3>4, <3>5
  <2>3. CASE ~(CountDown(t) /\ d = Dep(t))
    <3>1. count'[d] = count[d]
      <4>1. CASE CountDown(t)
        BY <1>0, <2>3, <4>1, CountDownDecides
      <4>2. CASE ~CountDown(t)
        BY <1>0, <4>2, DecidingSteps, IdleSteps, TellDecides, MarkFirstDecides, ExecutionDecides
        DEF settling
      <4> QED
        BY <4>1, <4>2
    <3> QED
      BY <2>1, <3>1
  <2> QED
    BY <2>2, <2>3
<1>2. ASSUME NEW u \in Visitors, pc'[u] = "count"
      PROVE  Told(u)' = Out(Dep(u))'
  <2>0. u \in Threads
    BY DEF Visitors, Threads
  <2>1. Visiting(u) /\ Dep(u)' = Dep(u) /\ Pre(u)' = Pre(u) /\ Told(u) = Out(Dep(u))
    <3>1. CASE u = t
      BY <1>2, <3>1, EnterCount
    <3>2. CASE u # t
      BY <1>0, <1>2, <2>0, <3>2, OthersStay DEF CountInv, Visiting, After
    <3> QED
      BY <3>1, <3>2
  <2>2. list'[Pre(u)].state = list[Pre(u)].state
    BY <1>0, <2>1, VisitFacts, SettledSteps DEF Outcomes
  <2> QED
    BY <2>1, <2>2, KindStays DEF Told, Out
<1> QED
  BY <1>1, <1>2 DEF CountInv

LEMMA StepsKeepFirstInv ==
    ASSUME VisitInv, FirstInv, NEW t \in Threads, Steps(t)
    PROVE  FirstInv'
<1>0. ListInv /\ PromiseInv /\ first \in [Dependents -> Prerequisites \cup {None}]
  BY DEF VisitInv, ListInv, PromiseInv, TypeOK
<1>1. ASSUME NEW d \in Dependents, NEW p, p = first'[d], p # None
      PROVE  /\ p \in NeededBy(d) /\ Heard(d, p)'
             /\ \/ list'[p].state = "rejected"
                \/ list'[p].state = "resolved" /\ kind'[d] = "any"
  <2>1. /\ p \in NeededBy(d) /\ Heard(d, p)
        /\ \/ list[p].state = "rejected"
           \/ list[p].state = "resolved" /\ kind[d] = "any"
    <3>1. CASE first'[d] = first[d]
      BY <1>1, <3>1 DEF FirstInv
    <3>2. CASE first'[d] # first[d]
      <4>1. MarkFirst(t)
        BY <1>0, <3>2, DecidingSteps, IdleSteps, TellDecides, CountDownDecides, ExecutionDecides
        DEF settling
      <4>2. /\ Visiting(t) /\ pc[t] = "mark" /\ t \in Visitors /\ Dep(t) = d
            /\ first'[d] = Pre(t)
        BY <1>0, <3>2, <4>1, MarkFirstDecides DEF Visiting
      <4> QED
        BY <1>1, <4>2, VisitFacts DEF FirstInv, Told, After
    <3> QED
      BY <3>1, <3>2
  <2>2. p \in Prerequisites
    BY <2>1, NeededByIsFinite
  <2> QED
    BY <1>0, <2>1, <2>2, KindStays, SettledSteps, HeardSteps
<1>2. ASSUME NEW u \in Visitors, pc'[u] = "mark"
      PROVE  \/ Told(u)' = "rejected"
             \/ Told(u)' = "resolved" /\ (kind[Dep(u)])' = "any"
  <2>0. u \in Threads
    BY DEF Visitors, Threads
  <2>1. /\ Visiting(u) /\ Dep(u)' = Dep(u) /\ Pre(u)' = Pre(u)
        /\ \/ Told(u) = "rejected"
           \/ Told(u) = "resolved" /\ kind[Dep(u)] = "any"
    <3>1. CASE u = t
      BY <1>2, <3>1, EnterCount
    <3>2. CASE u # t
      BY <1>0, <1>2, <2>0, <3>2, OthersStay DEF FirstInv, Visiting, After
    <3> QED
      BY <3>1, <3>2
  <2>2. list'[Pre(u)].state = list[Pre(u)].state
    BY <1>0, <2>1, VisitFacts, SettledSteps DEF Outcomes
  <2> QED
    BY <2>1, <2>2, KindStays DEF Told
<1> QED
  <2>1. \A d \in Dependents : first'[d] # None =>
          /\ first'[d] \in NeededBy(d) /\ Heard(d, first[d])'
          /\ \/ list'[first'[d]].state = "rejected"
             \/ list'[first'[d]].state = "resolved" /\ kind'[d] = "any"
    <3> SUFFICES ASSUME NEW d \in Dependents, first'[d] # None
                 PROVE  /\ first'[d] \in NeededBy(d) /\ Heard(d, first[d])'
                        /\ \/ list'[first'[d]].state = "rejected"
                           \/ list'[first'[d]].state = "resolved" /\ kind'[d] = "any"
      OBVIOUS
    <3>1. PICK p : p = first'[d]
      OBVIOUS
    <3>2. /\ p \in NeededBy(d) /\ Heard(d, p)'
          /\ \/ list'[p].state = "rejected"
             \/ list'[p].state = "resolved" /\ kind'[d] = "any"
      BY <1>1, <3>1
    <3> QED
      BY <3>1, <3>2 DEF Heard
  <2> QED
    BY <1>2, <2>1 DEF FirstInv, NeededBy

-----------------------------------------------------------------------------
(* A dependent is launched when it is ready, once.                           *)

\* A dependent may be executed: it has a first, or counts no longer.
Ready(d) == first[d] # None \/ (kind[d] # "any" /\ Uncounted(d) = {})

Executes(t, d) == pc[t] \in {"execute", "run", "finish"} /\ Dep(t) = d

Launched(d) ==
    \/ d \in tasks \/ runs[d] # 0 \/ value[d] \in {"resolved", "rejected"}
    \/ \E t \in Threads : Executes(t, d)

\* A dependent is launched once, when it is ready, and executed once.
LaunchedOnce(d) ==
    /\ Launched(d) => Ready(d)
    /\ d \in tasks => runs[d] = 0 /\ \A t \in Threads : ~Executes(t, d)
    /\ \A t, u \in Threads : Executes(t, d) /\ Executes(u, d) => t = u
    /\ \A t \in Threads : Executes(t, d) /\ pc[t] # "finish" => runs[d] = 0
    /\ runs[d] <= 1
    /\ value[d] \in {"resolved", "rejected"} => runs[d] = 1

LaunchInv == \A d \in Dependents : LaunchedOnce(d)

DecisionInv == VisitInv /\ CountInv /\ FirstInv

LEMMA ReadyStays ==
    ASSUME VisitInv, NEW t \in Threads, Steps(t), NEW d \in Dependents, Ready(d)
    PROVE  Ready(d)'
<1>0. ListInv /\ PromiseInv /\ first \in [Dependents -> Prerequisites \cup {None}]
  BY DEF VisitInv, ListInv, PromiseInv, TypeOK
<1>1. CASE first[d] # None
  <2>1. first'[d] = first[d]
    <3>1. CASE MarkFirst(t)
      BY <1>0, <1>1, <3>1, MarkFirstDecides
    <3>2. CASE ~MarkFirst(t)
      BY <1>0, <3>2, DecidingSteps, IdleSteps, TellDecides, CountDownDecides, ExecutionDecides
      DEF settling
    <3> QED
      BY <3>1, <3>2
  <2> QED
    BY <1>1, <2>1 DEF Ready
<1>2. CASE kind[d] # "any" /\ Uncounted(d) = {}
  BY <1>2, KindStays, UncountedShrinks DEF Ready
<1> QED
  BY <1>1, <1>2 DEF Ready

\* A dependent that is dispatched was not ready before and is ready now.
LEMMA DispatchIsNew ==
    ASSUME DecisionInv, NEW t \in Threads, NEW d, d = Dep(t),
           \/ CountDown(t) /\ count[d] = 1 /\ Told(t) = "resolved"
           \/ MarkFirst(t) /\ first[d] = None /\ first' = [first EXCEPT ![d] = Pre(t)]
    PROVE  ~Ready(d) /\ Ready(d)'
<1>0. VisitInv /\ ListInv /\ PromiseInv /\ Steps(t) /\ CountInv /\ FirstInv
  BY DEF DecisionInv, VisitInv, ListInv, Steps, Step
<1>1. PICK p : p = Pre(t)
  OBVIOUS
<1>2. /\ Visiting(t) /\ t \in Visitors /\ d \in Dependents /\ p \in Prerequisites
      /\ p \in NeededBy(d) /\ Told(t) = list[p].state
  BY <1>0, <1>1, CountDownDecides, MarkFirstDecides, VisitFacts DEF Visiting, Told
<1>3. CASE CountDown(t) /\ count[d] = 1 /\ Told(t) = "resolved"
  <2>1. kind[d] # "any" /\ Out(d) = "resolved"
    <3>1. Told(t) = Out(d)
      BY <1>0, <1>2, <1>3, CountDownDecides DEF CountInv
    <3> QED
      BY <1>3, <3>1 DEF Out
  <2>2. p \in Uncounted(d) /\ p \notin Uncounted(d)'
    BY <1>0, <1>1, <1>3, CountsOne
  <2>3. Cardinality(Uncounted(d)) <= 1 /\ IsFiniteSet(Uncounted(d))
        /\ Cardinality(Uncounted(d)) \in Nat
    BY <1>0, <1>2, <1>3, UncountedIsFinite DEF CountInv
  <2>4. Uncounted(d) = {p}
    <3>1. /\ Cardinality(Uncounted(d) \ {p}) = Cardinality(Uncounted(d)) - 1
          /\ IsFiniteSet(Uncounted(d) \ {p})
      BY <2>2, <2>3, FS_RemoveElement
    <3>2. Cardinality(Uncounted(d) \ {p}) = 0
      BY <2>3, <3>1, FS_CardinalityType
    <3>3. Uncounted(d) \ {p} = {}
      BY <3>1, <3>2, FS_EmptySet
    <3> QED
      BY <2>2, <3>3
  <2>5. ~Ready(d)
    <3>1. first[d] # None => FALSE
      <4> SUFFICES ASSUME first[d] # None PROVE FALSE
        OBVIOUS
      <4>1. first[d] \in NeededBy(d) /\ list[first[d]].state = "rejected"
        BY <1>0, <1>2, <2>1 DEF FirstInv
      <4>2. first[d] \in Uncounted(d)
        BY <2>1, <4>1 DEF Uncounted, Counted
      <4> QED
        BY <1>2, <1>3, <2>4, <4>1, <4>2
    <3> QED
      BY <2>4, <3>1 DEF Ready
  <2>6. Uncounted(d)' = {}
    BY <1>0, <1>2, <2>2, <2>4, UncountedShrinks
  <2> QED
    BY <1>0, <2>1, <2>5, <2>6, KindStays DEF Ready
<1>4. CASE MarkFirst(t) /\ first[d] = None /\ first' = [first EXCEPT ![d] = p]
  <2>1. first'[d] = p /\ p # None
    BY <1>0, <1>2, <1>4, NeedsAssumption DEF PromiseInv, TypeOK
  <2>2. kind[d] # "any" => p \in Uncounted(d)
    <3>1. list[p].state = "rejected" \/ (list[p].state = "resolved" /\ kind[d] = "any")
      BY <1>0, <1>2, <1>4, MarkFirstDecides DEF FirstInv
    <3> QED
      BY <1>2, <3>1 DEF Uncounted, Counted, Out
  <2> QED
    BY <1>4, <2>1, <2>2 DEF Ready
<1> QED
  BY <1>1, <1>3, <1>4

LEMMA LaunchedFrame ==
    ASSUME VisitInv, NEW t \in Threads, Steps(t), NEW d \in Dependents, LaunchedOnce(d),
           d \in tasks' => d \in tasks, runs'[d] = runs[d],
           value'[d] \in {"resolved", "rejected"} => value[d] \in {"resolved", "rejected"},
           \A u \in Threads : Executes(u, d)' =>
              Executes(u, d) /\ (pc'[u] # "finish" => pc[u] # "finish")
    PROVE  LaunchedOnce(d)'
<1>1. Launched(d)' => Launched(d)
  BY DEF Launched
<1>2. Launched(d)' => Ready(d)'
  BY <1>1, ReadyStays DEF LaunchedOnce
<1>3. d \in tasks' => runs'[d] = 0 /\ \A u \in Threads : ~Executes(u, d)'
  BY DEF LaunchedOnce
<1>4. \A u, v \in Threads : Executes(u, d)' /\ Executes(v, d)' => u = v
  BY DEF LaunchedOnce
<1>5. \A u \in Threads : Executes(u, d)' /\ pc'[u] # "finish" => runs'[d] = 0
  BY DEF LaunchedOnce
<1>6. runs'[d] <= 1 /\ (value'[d] \in {"resolved", "rejected"} => runs'[d] = 1)
  BY DEF LaunchedOnce
<1> QED
  BY <1>2, <1>3, <1>4, <1>5, <1>6 DEF LaunchedOnce

LEMMA DispatchLaunches ==
    ASSUME DecisionInv, NEW t \in Threads, Steps(t), NEW d \in Dependents, LaunchedOnce(d),
           d = Dep(t), ~Ready(d), Ready(d)', Dispatch(t), UNCHANGED <<value, runs>>
    PROVE  LaunchedOnce(d)'
<1>0. VisitInv /\ ListInv /\ PromiseInv
  BY DEF DecisionInv, VisitInv, ListInv
<1>1. /\ d \notin tasks /\ runs[d] = 0 /\ value[d] \notin {"resolved", "rejected"}
      /\ \A u \in Threads : ~Executes(u, d)
  BY DEF LaunchedOnce, Launched
<1>2. \A u \in Threads \ {t} : ~Executes(u, d)'
  BY <1>0, <1>1, OthersStay DEF Executes
<1>3. CASE /\ tasks' = tasks /\ loc' = loc /\ pc'[t] = "execute"
           /\ Dep(t)' = Dep(t) /\ Pre(t)' = Pre(t)
  BY <1>1, <1>2, <1>3 DEF LaunchedOnce
<1>4. CASE tasks' = tasks \cup {Dep(t)} /\ pc'[t] \notin Deciding
  <2>1. \A u \in Threads : ~Executes(u, d)'
    BY <1>2, <1>4 DEF Executes, Deciding
  <2> QED
    BY <1>1, <2>1 DEF LaunchedOnce
<1> QED
  BY <1>0, <1>3, <1>4, DispatchSteps

LEMMA RunLaunches ==
    ASSUME DecisionInv, NEW t \in Threads, RunTask(t), NEW d \in Dependents, LaunchedOnce(d),
           d = Dep(t)
    PROVE  LaunchedOnce(d)'
<1>0. VisitInv /\ ListInv /\ PromiseInv /\ Steps(t)
  BY DEF DecisionInv, VisitInv, ListInv, Steps, Step
<1>1. /\ UNCHANGED <<kind, count, first, value, status, runs, loc>>
      /\ d \in tasks /\ tasks' = tasks \ {d} /\ pc'[t] \in {"run", "cancel"}
  BY <1>0, ExecutionDecides
<1>2. /\ runs[d] = 0 /\ (\A u \in Threads : ~Executes(u, d)) /\ Ready(d)
      /\ value[d] \notin {"resolved", "rejected"}
  BY <1>1 DEF LaunchedOnce, Launched
<1>3. \A u \in Threads \ {t} : ~Executes(u, d)'
  BY <1>0, <1>2, OthersStay DEF Executes
<1>4. Ready(d)'
  BY <1>0, <1>2, ReadyStays
<1> QED
  BY <1>1, <1>2, <1>3, <1>4 DEF LaunchedOnce

LEMMA ExecutorLaunches ==
    ASSUME DecisionInv, NEW t \in Threads, RunExecutor(t), NEW d \in Dependents, LaunchedOnce(d),
           d = Dep(t), value[d] = "executor"
    PROVE  LaunchedOnce(d)'
<1>0. /\ VisitInv /\ ListInv /\ PromiseInv /\ Steps(t)
      /\ runs \in [Dependents -> Nat]
  BY DEF DecisionInv, VisitInv, ListInv, PromiseInv, TypeOK, Steps, Step
<1>1. /\ UNCHANGED <<kind, count, first, status, tasks, loc>> /\ pc[t] = "run"
      /\ pc'[t] = "finish" /\ runs' = [runs EXCEPT ![d] = runs[d] + 1]
  BY <1>0, ExecutionDecides
<1>2. Executes(t, d) /\ Ready(d) /\ runs[d] = 0 /\ d \notin tasks
  BY <1>1 DEF Executes, LaunchedOnce, Launched
<1>3. runs'[d] = 1
  BY <1>0, <1>1, <1>2
<1>4. \A u \in Threads \ {t} : ~Executes(u, d)'
  BY <1>0, <1>2, OthersStay DEF Executes, LaunchedOnce
<1>5. Ready(d)'
  BY <1>0, <1>2, ReadyStays
<1> QED
  BY <1>1, <1>2, <1>3, <1>4, <1>5 DEF LaunchedOnce

LEMMA StepsKeepLaunch ==
    ASSUME DecisionInv, NEW t \in Threads, Steps(t), NEW d \in Dependents, LaunchedOnce(d)
    PROVE  LaunchedOnce(d)'
<1>0. VisitInv /\ ListInv /\ PromiseInv
  BY DEF DecisionInv, VisitInv, ListInv
<1>1. /\ runs \in [Dependents -> Nat] /\ tasks \subseteq Dependents
      /\ value \in [Dependents -> {"executor", "resolved", "rejected", "none"}]
  BY <1>0 DEF PromiseInv, TypeOK
<1>2. \A u \in Threads \ {t} : Executes(u, d)' => Executes(u, d) /\ pc'[u] = pc[u]
  BY <1>0, OthersStay DEF Executes
<1>3. ASSUME d \in tasks' => d \in tasks, runs'[d] = runs[d],
             value'[d] \in {"resolved", "rejected"} => value[d] \in {"resolved", "rejected"},
             Executes(t, d)' => Executes(t, d) /\ (pc'[t] # "finish" => pc[t] # "finish")
      PROVE  LaunchedOnce(d)'
  BY <1>0, <1>2, <1>3, LaunchedFrame
<1>4. CASE IdleStep(t) \/ Tell(t)
  <2>1. UNCHANGED settling /\ pc'[t] \notin {"execute", "run", "finish"}
    BY <1>0, <1>4, IdleSteps, TellDecides DEF Deciding
  <2> QED
    BY <1>3, <2>1 DEF settling, Executes
<1>5. CASE CountDown(t) \/ MarkFirst(t)
  <2>1. UNCHANGED <<value, runs>>
    BY <1>0, <1>5, CountDownDecides, MarkFirstDecides
  <2>2. CASE Dispatch(t) /\ (CountDown(t) => count[Dep(t)] = 1 /\ Told(t) = "resolved")
               /\ (MarkFirst(t) => first[Dep(t)] = None
                                    /\ first' = [first EXCEPT ![Dep(t)] = Pre(t)])
    <3>1. CASE d = Dep(t)
      BY <1>0, <1>5, <2>1, <2>2, <3>1, DispatchIsNew, DispatchLaunches
    <3>2. CASE d # Dep(t)
      <4>1. (d \in tasks' => d \in tasks) /\ ~Executes(t, d)'
        BY <1>0, <2>2, <3>2, DispatchSteps DEF Executes, Deciding
      <4> QED
        BY <1>3, <2>1, <4>1
    <3> QED
      BY <3>1, <3>2
  <2>3. CASE UNCHANGED tasks /\ pc'[t] \notin {"execute", "run", "finish"}
    BY <1>3, <2>1, <2>3 DEF Executes
  <2>4. /\ pc[t] \in {"count", "mark"}
        /\ CountDown(t) => pc[t] = "count"
        /\ MarkFirst(t) => pc[t] = "mark"
    BY <1>0, <1>5, CountDownDecides, MarkFirstDecides
  <2> QED
    BY <1>0, <1>5, <2>2, <2>3, <2>4, CountDownDecides, MarkFirstDecides DEF Deciding
<1>6. CASE Execute(t)
  <2>1. /\ UNCHANGED <<tasks, value, runs, loc>> /\ pc[t] = "execute"
        /\ pc'[t] \in {"run", "cancel"}
    BY <1>0, <1>6, ExecutionDecides DEF settling
  <2>2. Executes(t, d)' => Executes(t, d)
    BY <2>1, SamePlace DEF Executes
  <2> QED
    BY <1>3, <2>1, <2>2
<1>7. CASE RunTask(t)
  <2>1. CASE d = Dep(t)
    BY <1>7, <2>1, RunLaunches
  <2>2. CASE d # Dep(t)
    <3>1. UNCHANGED <<value, runs, loc>> /\ tasks' \subseteq tasks
      BY <1>0, <1>7, ExecutionDecides
    <3> QED
      BY <1>3, <2>2, <3>1, SamePlace DEF Executes
  <2> QED
    BY <2>1, <2>2
<1>8. CASE RunExecutor(t)
  <2>1. UNCHANGED <<tasks, loc>> /\ pc[t] = "run"
    BY <1>0, <1>8, ExecutionDecides
  <2>2. CASE UNCHANGED <<value, runs, pc>>
    BY <1>3, <2>1, <2>2, SamePlace DEF Executes
  <2>3. CASE value[Dep(t)] = "executor" /\ pc'[t] = "finish"
    <3>1. CASE d = Dep(t)
      BY <1>8, <2>3, <3>1, ExecutorLaunches
    <3>2. CASE d # Dep(t)
      <4>1. (runs'[d] = runs[d] /\ value'[d] = value[d]) \/ UNCHANGED <<value, runs, pc>>
        BY <1>0, <1>1, <1>8, <3>2, ExecutionDecides
      <4> QED
        BY <1>3, <2>1, <2>2, <3>2, <4>1, SamePlace DEF Executes
    <3> QED
      BY <3>1, <3>2
  <2> QED
    BY <1>0, <1>8, <2>2, <2>3, ExecutionDecides
<1>9. CASE Finish(t) \/ OnCanceled(t) \/ ResetValue(t)
  <2>1. UNCHANGED <<tasks, runs>> /\ pc'[t] \notin {"execute", "run", "finish"}
    BY <1>0, <1>9, ExecutionDecides DEF Deciding
  <2>2. value'[d] \in {"resolved", "rejected"} => value'[d] = value[d]
    BY <1>0, <1>1, <1>9, ExecutionDecides
  <2> QED
    BY <1>3, <2>1, <2>2 DEF Executes
<1> QED
  BY <1>4, <1>5, <1>6, <1>7, <1>8, <1>9, DecidingSteps

-----------------------------------------------------------------------------
(* The state and the value of a dependent have their reasons.                *)

CancelReason(d) ==
    IF kind[d] = "any" THEN \A p \in NeededBy(d) : list[p].state = "canceled"
    ELSE \E p \in NeededBy(d) : list[p].state = "canceled"
AllResolved(d) == \A p \in NeededBy(d) : list[p].state = "resolved"
OneRejected(d) == \E p \in NeededBy(d) : list[p].state = "rejected"

\* The value and the state of a dependent have their reasons.
ResultOf(d) ==
    /\ status[d] = "canceled" => CancelReason(d)
    /\ value[d] = "none" => status[d] = "canceled"
    /\ kind[d] = "all" /\ "resolved" \in {value[d], status[d]} => AllResolved(d)
    /\ kind[d] = "all" /\ "rejected" \in {value[d], status[d]} => OneRejected(d)

ResultAt(t) ==
    /\ pc[t] = "cancel" => CancelReason(Dep(t)) \/ status[Dep(t)] # "unresolved"
    /\ pc[t] = "reset" => status[Dep(t)] = "canceled"
    /\ pc[t] = "clear" => value[Dep(t)] # "executor"

ResultInv == (\A d \in Dependents : ResultOf(d)) /\ \A t \in Threads : ResultAt(t)

OutcomeInv == DecisionInv /\ LaunchInv /\ ResultInv

-----------------------------------------------------------------------------
LEMMA ReasonsStay ==
    ASSUME VisitInv, NEW t \in Threads, Steps(t), NEW d \in Dependents
    PROVE  /\ CancelReason(d) => CancelReason(d)'
           /\ AllResolved(d) => AllResolved(d)'
           /\ OneRejected(d) => OneRejected(d)'
<1>1. ListInv /\ NeededBy(d) \subseteq Prerequisites /\ NeededBy(d)' = NeededBy(d)
  BY NeededByIsFinite DEF VisitInv, NeededBy
<1>2. \A p \in NeededBy(d) : list[p].state # "unresolved" => list'[p].state = list[p].state
  BY <1>1, SettledSteps
<1> QED
  BY <1>1, <1>2, KindStays DEF CancelReason, AllResolved, OneRejected

\* What becomes of the state and the value of a dependent.
LEMMA StatusSteps ==
    ASSUME OutcomeInv, NEW t \in Threads, Steps(t), NEW d \in Dependents
    PROVE  /\ \/ status'[d] = status[d]
              \/ /\ status[d] = "unresolved" /\ status'[d] = value[d] /\ value'[d] = value[d]
                 /\ value[d] \in {"resolved", "rejected"}
              \/ /\ status[d] = "unresolved" /\ status'[d] = "canceled" /\ value'[d] = value[d]
                 /\ CancelReason(d)
           /\ \/ value'[d] = value[d]
              \/ value[d] = "executor" /\ RunExecutor(t) /\ d = Dep(t) /\ value'[d] \in Results(d)
              \/ value'[d] = "none" /\ status[d] = "canceled"
<1>0. /\ VisitInv /\ ListInv /\ PromiseInv /\ ResultInv /\ status \in [Dependents -> States]
      /\ value \in [Dependents -> {"executor", "resolved", "rejected", "none"}]
  BY DEF OutcomeInv, DecisionInv, VisitInv, ListInv, PromiseInv, TypeOK
<1>1. CASE RunExecutor(t)
  <2>1. UNCHANGED status
    BY <1>0, <1>1, ExecutionDecides
  <2>2. CASE d = Dep(t)
    <3>1. \/ UNCHANGED value
          \/ value[d] = "executor" /\ \E r \in Results(d) : value' = [value EXCEPT ![d] = r]
      BY <1>0, <1>1, <2>2, ExecutionDecides
    <3> QED
      BY <1>0, <1>1, <2>1, <2>2, <3>1
  <2>3. CASE d # Dep(t)
    <3>1. value'[d] = value[d]
      BY <1>0, <1>1, <2>3, ExecutionDecides
    <3> QED
      BY <2>1, <3>1
  <2> QED
    BY <2>2, <2>3
<1>2. CASE Finish(t)
  <2>1. UNCHANGED value
    BY <1>0, <1>2, ExecutionDecides
  <2> QED
    BY <1>0, <1>2, <2>1, ExecutionDecides
<1>3. CASE OnCanceled(t)
  <2>1. UNCHANGED value /\ pc[t] = "cancel"
    BY <1>0, <1>3, ExecutionDecides
  <2>2. CancelReason(Dep(t)) \/ status[Dep(t)] # "unresolved"
    BY <1>0, <2>1 DEF ResultInv, ResultAt
  <2>3. \/ UNCHANGED status
        \/ /\ status[Dep(t)] = "unresolved" /\ status' = [status EXCEPT ![Dep(t)] = "canceled"]
    BY <1>0, <1>3, ExecutionDecides
  <2> QED
    BY <1>0, <2>1, <2>2, <2>3
<1>4. CASE ResetValue(t)
  <2>1. /\ UNCHANGED status /\ pc[t] = "reset" /\ value' = [value EXCEPT ![Dep(t)] = "none"]
    BY <1>0, <1>4, ExecutionDecides
  <2>2. status[Dep(t)] = "canceled"
    BY <1>0, <2>1 DEF ResultInv, ResultAt
  <2> QED
    BY <1>0, <2>1, <2>2
<1>5. CASE ~(RunExecutor(t) \/ Finish(t) \/ OnCanceled(t) \/ ResetValue(t))
  <2>1. UNCHANGED <<status, value>>
    BY <1>0, <1>5, DecidingSteps, IdleSteps, TellDecides, CountDownDecides, MarkFirstDecides,
       ExecutionDecides DEF settling
  <2> QED
    BY <2>1
<1> QED
  BY <1>1, <1>2, <1>3, <1>4, <1>5

\* An executor of Promises::All that runs has a reason for its result.
LEMMA ResultsJustified ==
    ASSUME OutcomeInv, NEW t \in Threads, RunExecutor(t), NEW d \in Dependents, d = Dep(t),
           kind[d] = "all", NEW r \in Results(d)
    PROVE  /\ r = "resolved" => AllResolved(d)
           /\ r = "rejected" => OneRejected(d)
<1>0. /\ VisitInv /\ FirstInv /\ LaunchedOnce(d)
  BY DEF OutcomeInv, DecisionInv, LaunchInv
<1>1. Executes(t, d)
  BY <1>0, ExecutionDecides DEF Executes
<1>2. Ready(d)
  BY <1>0, <1>1 DEF LaunchedOnce, Launched
<1>3. CASE first[d] # None
  <2>1. first[d] \in NeededBy(d) /\ list[first[d]].state = "rejected"
    BY <1>0, <1>3 DEF FirstInv
  <2>2. r = "rejected"
    BY <1>3, <2>1 DEF Results
  <2> QED
    BY <2>1, <2>2 DEF OneRejected
<1>4. CASE first[d] = None
  <2>1. Uncounted(d) = {}
    BY <1>2, <1>4 DEF Ready
  <2>2. AllResolved(d)
    BY <2>1 DEF Uncounted, Counted, Out, AllResolved
  <2>3. r = "resolved"
    BY <1>4 DEF Results
  <2> QED
    BY <2>2, <2>3
<1> QED
  BY <1>3, <1>4

LEMMA StepsKeepResultOf ==
    ASSUME OutcomeInv, NEW t \in Threads, Steps(t), NEW d \in Dependents
    PROVE  ResultOf(d)'
<1>0. VisitInv /\ ResultOf(d) /\ kind' = kind
  BY KindStays DEF OutcomeInv, DecisionInv, ResultInv
<1>1. status'[d] = "canceled" => CancelReason(d)'
  BY <1>0, StatusSteps, ReasonsStay DEF ResultOf
<1>2. value'[d] = "none" => status'[d] = "canceled"
  <2>1. "none" \notin Results(d)
    BY DEF Results
  <2> QED
    BY <1>0, <2>1, StatusSteps DEF ResultOf
<1>3. kind[d] = "all" /\ "resolved" \in {value'[d], status'[d]} => AllResolved(d)
  BY <1>0, StatusSteps, ResultsJustified DEF ResultOf
<1>4. kind[d] = "all" /\ "rejected" \in {value'[d], status'[d]} => OneRejected(d)
  BY <1>0, StatusSteps, ResultsJustified DEF ResultOf
<1> QED
  BY <1>0, <1>1, <1>2, <1>3, <1>4, ReasonsStay DEF ResultOf

\* A thread about to cancel a dependent has a reason.
LEMMA CancelHasReason ==
    ASSUME OutcomeInv, NEW t \in Threads, Steps(t), pc'[t] = "cancel"
    PROVE  /\ Dep(t)' = Dep(t) /\ Dep(t) \in Dependents
           /\ CancelReason(Dep(t)) \/ (status[Dep(t)] # "unresolved" /\ UNCHANGED status)
<1>0. /\ VisitInv /\ ListInv /\ PromiseInv /\ CountInv /\ LaunchInv /\ ResultInv
      /\ value \in [Dependents -> {"executor", "resolved", "rejected", "none"}]
  BY DEF OutcomeInv, DecisionInv, VisitInv, ListInv, PromiseInv, TypeOK
<1>1. pc'[t] \in Deciding
  BY DEF Deciding
<1>2. CASE Tell(t)
  <2>1. /\ Visiting(t) /\ Dep(t)' = Dep(t) /\ Told(t) = "canceled" /\ kind[Dep(t)] # "any"
    BY <1>0, <1>1, <1>2, TellDecides
  <2> QED
    BY <1>0, <2>1, VisitFacts DEF CancelReason, Told
<1>3. CASE CountDown(t)
  <2>0. PICK d, p : d = Dep(t) /\ p = Pre(t)
    OBVIOUS
  <2>1. /\ Visiting(t) /\ Dep(t)' = Dep(t) /\ count[d] = 1 /\ Told(t) # "resolved"
        /\ pc[t] = "count" /\ t \in Visitors
    BY <1>0, <1>1, <1>3, <2>0, CountDownDecides, DispatchSteps DEF Deciding, Visiting
  <2>2. d \in Dependents /\ p \in NeededBy(d) /\ Told(t) = Out(d) /\ Told(t) = list[p].state
    BY <1>0, <2>0, <2>1, VisitFacts DEF CountInv, Told
  <2>3. kind[d] = "any" /\ list[p].state = "canceled"
    BY <2>1, <2>2 DEF Out
  <2>4. p \in Uncounted(d) /\ Cardinality(Uncounted(d)) <= 1 /\ IsFiniteSet(Uncounted(d))
        /\ Cardinality(Uncounted(d)) \in Nat
    BY <1>0, <1>3, <2>0, <2>1, <2>2, CountsOne, UncountedIsFinite DEF CountInv
  <2>5. /\ Cardinality(Uncounted(d) \ {p}) = Cardinality(Uncounted(d)) - 1
        /\ IsFiniteSet(Uncounted(d) \ {p})
    BY <2>4, FS_RemoveElement
  <2>6. Cardinality(Uncounted(d) \ {p}) = 0
    BY <2>4, <2>5, FS_CardinalityType
  <2>7. Uncounted(d) \ {p} = {}
    BY <2>5, <2>6, FS_EmptySet
  <2>8. CancelReason(d)
    BY <2>3, <2>7 DEF CancelReason, Uncounted, Counted, Out
  <2> QED
    BY <2>0, <2>1, <2>2, <2>8
<1>4. CASE Execute(t) \/ RunTask(t)
  <2>1. /\ UNCHANGED <<status, loc>> /\ value[Dep(t)] # "executor"
        /\ Execute(t) => pc[t] = "execute"
        /\ RunTask(t) => Dep(t) \in tasks
    BY <1>0, <1>4, ExecutionDecides DEF settling
  <2>2. Dep(t) \in Dependents
    BY <1>0, <1>4, <2>1, PlaceOfVisit DEF PromiseInv, TypeOK
  <2>3. runs[Dep(t)] = 0
    BY <1>0, <1>4, <2>1, <2>2 DEF LaunchInv, LaunchedOnce, Executes
  <2>4. value[Dep(t)] = "none"
    BY <1>0, <2>1, <2>2, <2>3 DEF LaunchInv, LaunchedOnce
  <2>5. status[Dep(t)] = "canceled"
    BY <1>0, <2>2, <2>4 DEF ResultInv, ResultOf
  <2> QED
    BY <2>1, <2>2, <2>5, SamePlace
<1>5. CASE ~(Tell(t) \/ CountDown(t) \/ Execute(t) \/ RunTask(t))
  <2>1. ~IdleStep(t)
    BY <1>0, <1>1, IdleSteps
  <2>2. ~MarkFirst(t)
    BY <1>0, <1>1, MarkFirstDecides, DispatchSteps
  <2>3. ~(RunExecutor(t) \/ Finish(t) \/ OnCanceled(t) \/ ResetValue(t))
    BY <1>0, <1>1, ExecutionDecides
  <2> QED
    BY <1>5, <2>1, <2>2, <2>3, DecidingSteps
<1> QED
  BY <1>2, <1>3, <1>4, <1>5

LEMMA StepsKeepResultAt ==
    ASSUME OutcomeInv, NEW t \in Threads, Steps(t), NEW u \in Threads
    PROVE  ResultAt(u)'
<1>0. /\ VisitInv /\ ListInv /\ PromiseInv /\ ResultInv
      /\ value \in [Dependents -> {"executor", "resolved", "rejected", "none"}]
      /\ status \in [Dependents -> States]
  BY DEF OutcomeInv, DecisionInv, VisitInv, ListInv, PromiseInv, TypeOK
<1>1. ASSUME pc[u] \notin {"start", "dispatch", "done"}
      PROVE  Dep(u) \in Dependents
  BY <1>0, <1>1, PlaceOfVisit
<1>2. CASE u # t
  <2>1. pc'[u] = pc[u] /\ Dep(u)' = Dep(u) /\ ResultAt(u)
    BY <1>0, <1>2, OthersStay DEF ResultInv
  <2> SUFFICES ASSUME pc[u] \in {"cancel", "reset", "clear"} PROVE ResultAt(u)'
    BY <2>1 DEF ResultAt
  <2>2. PICK d \in Dependents : d = Dep(u)
    BY <1>1
  <2>3. /\ CancelReason(d) => CancelReason(d)'
        /\ status[d] # "unresolved" => status'[d] = status[d]
        /\ value[d] # "executor" => value'[d] # "executor"
    BY <1>0, StatusSteps, ReasonsStay
  <2>4. (CancelReason(Dep(u)))' <=> CancelReason(d)'
    BY <2>1, <2>2 DEF CancelReason, NeededBy
  <2> QED
    BY <2>1, <2>2, <2>3, <2>4 DEF ResultAt
<1>3. CASE u = t
  <2>1. CASE pc'[t] = "cancel"
    <3>1. PICK d \in Dependents : d = Dep(t) /\ d = Dep(t)'
      BY <2>1, CancelHasReason
    <3>2. CancelReason(d)' \/ status'[d] # "unresolved"
      BY <1>0, <2>1, <3>1, CancelHasReason, ReasonsStay
    <3>4. (CancelReason(Dep(t)))' <=> CancelReason(d)'
      BY <3>1 DEF CancelReason, NeededBy
    <3> QED
      BY <1>3, <2>1, <3>1, <3>2, <3>4 DEF ResultAt
  <2>2. CASE pc'[t] = "reset"
    <3>1. OnCanceled(t)
      BY <1>0, <2>2, DecidingSteps, IdleSteps, TellDecides, CountDownDecides, MarkFirstDecides,
         DispatchSteps, ExecutionDecides DEF Deciding
    <3>2. /\ pc[t] = "cancel" /\ status' = [status EXCEPT ![Dep(t)] = "canceled"]
          /\ UNCHANGED loc
      BY <1>0, <2>2, <3>1, ExecutionDecides DEF Deciding
    <3>3. Dep(t)' = Dep(t) /\ Dep(t) \in Dependents
      BY <1>1, <1>3, <3>2, SamePlace
    <3> QED
      BY <1>0, <1>3, <2>2, <3>2, <3>3 DEF ResultAt
  <2>3. CASE pc'[t] = "clear"
    <3>1. \/ pc[t] = "clear" /\ Dep(t)' = Dep(t) /\ UNCHANGED value
          \/ Finish(t) \/ ResetValue(t)
      BY <1>0, <2>3, DecidingSteps, IdleSteps, TellDecides, CountDownDecides, MarkFirstDecides,
         DispatchSteps, ExecutionDecides DEF Deciding, settling
    <3>2. CASE pc[t] = "clear" /\ Dep(t)' = Dep(t) /\ UNCHANGED value
      BY <1>0, <1>3, <2>3, <3>2 DEF ResultAt, ResultInv
    <3>3. CASE Finish(t)
      BY <1>0, <1>3, <2>3, <3>3, ExecutionDecides, SamePlace DEF ResultAt, Deciding
    <3>4. CASE ResetValue(t)
      <4>1. /\ pc[t] = "reset" /\ value' = [value EXCEPT ![Dep(t)] = "none"] /\ UNCHANGED loc
        BY <1>0, <3>4, ExecutionDecides
      <4>2. Dep(t)' = Dep(t) /\ Dep(t) \in Dependents
        BY <1>1, <1>3, <4>1, SamePlace
      <4> QED
        BY <1>0, <1>3, <2>3, <4>1, <4>2 DEF ResultAt
    <3> QED
      BY <3>1, <3>2, <3>3, <3>4
  <2> QED
    BY <1>3, <2>1, <2>2, <2>3 DEF ResultAt
<1> QED
  BY <1>2, <1>3

LEMMA StepsKeepOutcomeInv == OutcomeInv /\ [Next]_vars => OutcomeInv'
<1>1. ASSUME OutcomeInv, UNCHANGED vars
      PROVE  OutcomeInv'
  <2> USE <1>1 DEF OutcomeInv, DecisionInv, vars, lists, settling
  <2>1. VisitInv'
    BY StepsKeepVisitInv
  <2>2. \A t : Dep(t)' = Dep(t) /\ Pre(t)' = Pre(t) /\ Told(t)' = Told(t)
    BY DEF Dep, Pre, Told
  <2>3. \A d \in Dependents : Uncounted(d)' = Uncounted(d) /\ Out(d)' = Out(d)
    BY <2>2 DEF Uncounted, Counted, Counting, Heard, NeededBy, Out
  <2>4. CountInv' /\ FirstInv'
    <3>1. CountInv'
      BY <2>2, <2>3 DEF CountInv, Out
    <3>2. FirstInv'
      BY <2>2 DEF FirstInv, Heard, NeededBy
    <3> QED
      BY <3>1, <3>2
  <2>5. LaunchInv'
    BY <2>2, <2>3 DEF LaunchInv, LaunchedOnce, Launched, Ready, Executes
  <2>6. ResultInv'
    BY <2>2 DEF ResultInv, ResultOf, ResultAt, CancelReason, AllResolved, OneRejected, NeededBy
  <2> QED
    BY <2>1, <2>4, <2>5, <2>6
<1>2. ASSUME OutcomeInv, NEW t \in Threads, Steps(t)
      PROVE  OutcomeInv'
  <2>1. DecisionInv /\ LaunchInv /\ VisitInv /\ CountInv /\ FirstInv
    BY <1>2 DEF OutcomeInv, DecisionInv
  <2>2. VisitInv'
    BY <1>2, <2>1, StepsKeepVisitInv DEF Next, Steps
  <2>3. CountInv' /\ FirstInv'
    BY <1>2, <2>1, StepsKeepCountInv, StepsKeepFirstInv
  <2>4. LaunchInv'
    BY <1>2, <2>1, StepsKeepLaunch DEF LaunchInv
  <2>5. ResultInv'
    BY <1>2, StepsKeepResultOf, StepsKeepResultAt DEF ResultInv
  <2> QED
    BY <2>2, <2>3, <2>4, <2>5 DEF OutcomeInv, DecisionInv
<1> QED
  BY <1>1, <1>2 DEF Next, Steps

LEMMA OutcomeInvInitially == Init => OutcomeInv
<1> SUFFICES ASSUME Init PROVE OutcomeInv
  OBVIOUS
<1>1. /\ \A t \in Threads : pc[t] = "start"
      /\ \A d \in Dependents :
           /\ count[d] = Len(Needs[d]) /\ first[d] = None /\ value[d] = "executor"
           /\ status[d] = "unresolved" /\ runs[d] = 0
      /\ tasks = {}
  BY DEF Init
<1>2. CountInv
  <2>1. ASSUME NEW d \in Dependents
        PROVE  count[d] >= Cardinality(Uncounted(d))
    <3>1. /\ Cardinality(Uncounted(d)) <= Cardinality(NeededBy(d))
          /\ Cardinality(NeededBy(d)) <= Len(Needs[d])
          /\ Cardinality(Uncounted(d)) \in Nat /\ Cardinality(NeededBy(d)) \in Nat
          /\ Len(Needs[d]) \in Nat
      BY NeededByIsFinite, UncountedIsFinite, FS_CardinalityType, NeedsAssumption
    <3> QED
      BY <1>1, <3>1
  <2> QED
    BY <1>1, <2>1 DEF CountInv, Visitors, Threads
<1>3. FirstInv
  BY <1>1 DEF FirstInv, Visitors, Threads
<1>4. LaunchInv
  BY <1>1 DEF LaunchInv, LaunchedOnce, Launched, Executes
<1>5. ResultInv
  BY <1>1 DEF ResultInv, ResultOf, ResultAt
<1> QED
  BY <1>2, <1>3, <1>4, <1>5, VisitInvInitially DEF OutcomeInv, DecisionInv

LEMMA OutcomesHaveReasons == OutcomeInv => OutcomeJustified
<1> SUFFICES ASSUME OutcomeInv, NEW d \in Dependents
             PROVE  /\ runs[d] <= 1
                    /\ status[d] = "canceled" => CancelReason(d)
                    /\ status[d] = "resolved" /\ kind[d] = "all" => AllResolved(d)
                    /\ status[d] = "rejected" /\ kind[d] = "all" => OneRejected(d)
                    /\ runs[d] = 1 => \E p \in NeededBy(d) :
                                        Settled(p, "resolved") \/ Settled(p, "rejected")
  BY DEF OutcomeJustified, CancelReason, AllResolved, OneRejected, Settled
<1>1. LaunchedOnce(d) /\ ResultOf(d) /\ FirstInv
  BY DEF OutcomeInv, DecisionInv, LaunchInv, ResultInv
<1>2. ASSUME runs[d] = 1
      PROVE  \E p \in NeededBy(d) : Settled(p, "resolved") \/ Settled(p, "rejected")
  <2>1. Ready(d)
    BY <1>1, <1>2 DEF LaunchedOnce, Launched
  <2>2. CASE first[d] # None
    BY <1>1, <2>2 DEF FirstInv, Settled
  <2>3. CASE first[d] = None
    BY <2>1, <2>3, NeededByIsFinite DEF Ready, Uncounted, Counted, Out, Settled
  <2> QED
    BY <2>2, <2>3
<1> QED
  BY <1>1, <1>2 DEF LaunchedOnce, ResultOf

\* A dependent is executed once at most, and ends as its prerequisites did,
\* for any dependents and prerequisites and any order of their settlement.
THEOREM OutcomesFollow == Spec => []OutcomeJustified
BY OutcomeInvInitially, StepsKeepOutcomeInv, OutcomesHaveReasons, PTL DEF Spec

-----------------------------------------------------------------------------
(* Nodes retain their prerequisites.                                         *)

\* A node loses its prerequisite when that was canceled or when the dependent
\* has been executed, and who is told of another outcome retains it.
WordInv ==
    /\ \A d \in Dependents : \A p \in NeededBy(d) :
         /\ word[d][p] = "null" /\ value[d] = "executor" => list[p].state = "canceled"
         /\ Heard(d, p) /\ list[p].state # "canceled" => word[d][p] # "raw"
    /\ \A t \in Visitors :
         /\ pc[t] \in {"addref", "tell"} /\ Told(t) # "canceled" => word[Dep(t)][Pre(t)] # "raw"
         /\ pc[t] = "remove" => Told(t) = "canceled"

\* A prerequisite has the references that nodes have retained, but for those
\* that are about to be added.
Retaining(p) == {d \in Dependents : word[d][p] = "retained"}
Adding(p) == {t \in Threads : pc[t] = "addref" /\ Pre(t) = p}
HeldInv ==
    \A p \in Prerequisites : held[p] = Cardinality(Retaining(p)) - Cardinality(Adding(p))

ValueInv == OutcomeInv /\ WordInv /\ HeldInv

-----------------------------------------------------------------------------
\* The steps that change the nodes of a dependent.
NodeStep(t) ==
    \/ RetainSettledPrerequisite(t) \/ AddRef(t) \/ RemoveCanceled(t) \/ Clear(t)

LEMMA RetainSteps ==
    ASSUME VisitInv, NEW t \in Threads, RetainSettledPrerequisite(t)
    PROVE  /\ t \in Visitors /\ Dep(t) \in Dependents /\ Pre(t) \in Prerequisites
           /\ pc[t] \notin {"addref", "tell", "remove"} /\ UNCHANGED <<held, loc, list>>
           /\ \/ /\ Told(t) # "canceled" /\ word[Dep(t)][Pre(t)] = "raw" /\ pc'[t] = "addref"
                 /\ word' = [word EXCEPT ![Dep(t)][Pre(t)] = "retained"]
              \/ /\ Told(t) = "canceled" \/ word[Dep(t)][Pre(t)] # "raw"
                 /\ pc'[t] = "tell" /\ UNCHANGED word
<1>0. PromiseInv /\ ListInv /\ pc \in [Threads -> PCs] /\ TaskPlaces
  BY DEF VisitInv, ListInv, PromiseInv, TypeOK
<1>1. pc[t] = "retain" \/ (pc[t] = "dispatch" /\ loc[t].batch # <<>>)
  BY DEF RetainSettledPrerequisite, At
<1>2. t \in Visitors
  BY <1>0, <1>1 DEF TaskPlaces, Visitors, Threads
<1>3. Dep(t) \in Dependents /\ Pre(t) \in Prerequisites
  <2>1. CASE pc[t] = "retain"
    BY <1>0, <2>1, PlaceOfVisit
  <2>2. CASE pc[t] = "dispatch"
    <3>1. t \in Settlers
      BY <1>0, <1>2, <2>2 DEF Visitors, PromiseInv, AtAPrerequisite
    <3> QED
      BY <1>0, <1>1, <2>2, <3>1, PlaceOfSettler
  <2> QED
    BY <1>1, <2>1, <2>2
<1>4. CASE Told(t) # "canceled" /\ word[Dep(t)][Pre(t)] = "raw"
  BY <1>0, <1>1, <1>2, <1>3, <1>4 DEF RetainSettledPrerequisite, Goto, lists
<1>5. CASE ~(Told(t) # "canceled" /\ word[Dep(t)][Pre(t)] = "raw")
  BY <1>0, <1>1, <1>2, <1>3, <1>5 DEF RetainSettledPrerequisite, Goto, lists
<1> QED
  BY <1>4, <1>5

LEMMA AddRefSteps ==
    ASSUME VisitInv, NEW t \in Threads, AddRef(t)
    PROVE  /\ t \in Visitors /\ Pre(t) \in Prerequisites /\ pc[t] = "addref"
           /\ UNCHANGED <<word, loc, list>>
           /\ \/ UNCHANGED <<held, pc>>
              \/ held' = [held EXCEPT ![Pre(t)] = held[Pre(t)] + 1] /\ pc'[t] = "tell"
<1>0. PromiseInv /\ pc \in [Threads -> PCs] /\ TaskPlaces
  BY DEF VisitInv, ListInv, PromiseInv, TypeOK
<1>1. pc[t] = "addref"
  BY DEF AddRef, At
<1>2. t \in Visitors /\ Pre(t) \in Prerequisites
  BY <1>0, <1>1, PlaceOfVisit DEF TaskPlaces, Visitors, Threads
<1> QED
  BY <1>0, <1>1, <1>2 DEF AddRef, Goto, lists

\* RemoveCanceledPrerequisite and AdjacencyList::Clear clear one node.
LEMMA ClearSteps ==
    ASSUME VisitInv, NEW t \in Threads, RemoveCanceled(t) \/ Clear(t)
    PROVE  /\ Dep(t) \in Dependents /\ pc[t] \in {"remove", "clear"} /\ UNCHANGED <<list, value>>
           /\ pc'[t] \notin {"addref", "tell", "remove"}
           /\ \E p : Cleared(Dep(t), p) /\ (pc[t] = "remove" => p = Pre(t) /\ t \in Visitors)
<1>0. PromiseInv /\ pc \in [Threads -> PCs] /\ TaskPlaces
  BY DEF VisitInv, ListInv, PromiseInv, TypeOK
<1>1. pc[t] \in {"remove", "clear"} /\ UNCHANGED <<list, value>>
  BY DEF RemoveCanceled, Clear, At, lists, settling
<1>2. Dep(t) \in Dependents /\ (pc[t] = "remove" => t \in Visitors)
  BY <1>0, <1>1, PlaceOfVisit DEF TaskPlaces, Visitors, Threads
<1>3. ASSUME NEW more, Resume(t, more)
      PROVE  pc'[t] \notin {"addref", "tell", "remove"}
  BY <1>0, <1>3, ResumeDeparts DEF Departs
<1>4. CASE RemoveCanceled(t)
  BY <1>1, <1>2, <1>3, <1>4 DEF RemoveCanceled
<1>5. CASE Clear(t)
  <2>1. pc[t] = "clear" /\ \E p : Cleared(Dep(t), p)
    BY <1>5 DEF Clear, At
  <2>2. UNCHANGED pc \/ Resume(t, Told(t) # "canceled")
    BY <1>5 DEF Clear
  <2> QED
    BY <1>1, <1>2, <1>3, <2>1, <2>2
<1> QED
  BY <1>4, <1>5

\* Other steps leave the nodes alone, and add no reference.
LEMMA OtherNodeSteps ==
    ASSUME VisitInv, NEW t \in Threads, Steps(t), ~NodeStep(t)
    PROVE  /\ UNCHANGED <<word, held>>
           /\ pc[t] = "addref" => FALSE
           /\ pc'[t] # "addref"
           /\ pc'[t] = "tell" => t \in Creators /\ Told(t) = "canceled" /\ UNCHANGED <<list, loc>>
           /\ pc'[t] = "remove" => /\ CountDown(t) /\ Told(t) # "resolved"
                                   /\ UNCHANGED <<list, loc>>
                                   /\ pc[t] = "count" /\ t \in Visitors
<1>0. ListInv /\ PromiseInv /\ pc \in [Threads -> PCs]
  BY DEF VisitInv, ListInv, PromiseInv, TypeOK
<1> DEFINE Quiet == pc[t] # "addref" /\ pc'[t] \notin {"addref", "tell", "remove"}
<1>1. ASSUME NEW more, Resume(t, more)
      PROVE  pc'[t] \notin {"addref", "tell", "remove"}
  BY <1>0, <1>1, ResumeDeparts DEF Departs
<1>2. ASSUME Settle(t) \/ SettleRest(t) \/ StartCreating(t) \/ InsertDependent(t)
      PROVE  UNCHANGED <<word, held>> /\ Quiet
  <2>1. ASSUME Settle(t) \/ SettleRest(t)
        PROVE  UNCHANGED <<word, held>> /\ Quiet
    <3>1. pc[t] \in {"start", "dispatch"} /\ UNCHANGED nodes
      BY <2>1 DEF Settle, SettleRest, At
    <3>2. pc'[t] \in {"done", "dispatch"}
      BY <1>0, <2>1 DEF Settle, SettleRest, Round, Goto
    <3> QED
      BY <3>1, <3>2 DEF nodes
  <2>2. ASSUME StartCreating(t) \/ InsertDependent(t)
        PROVE  UNCHANGED <<word, held>> /\ Quiet
    <3>1. UNCHANGED nodes
      BY <2>2 DEF StartCreating, InsertDependent
    <3> QED
      BY <1>0, <2>2, <3>1, StartSteps DEF nodes
  <2> QED
    BY <1>2, <2>1, <2>2
<1>3. ASSUME LinkNode(t)
      PROVE  /\ UNCHANGED <<word, held>> /\ pc[t] = "link" /\ pc'[t] \notin {"addref", "remove"}
             /\ pc'[t] = "tell" => t \in Creators /\ Told(t) = "canceled" /\ UNCHANGED <<list, loc>>
  <2>1. UNCHANGED nodes /\ t \in Creators /\ pc[t] = "link"
    BY <1>0, <1>3, LinkSteps DEF LinkNode
  <2>2. CASE list[Pre(t)].open
    BY <1>1, <1>3, <2>1, <2>2 DEF LinkNode, nodes
  <2>3. CASE ~list[Pre(t)].open
    BY <1>0, <1>3, <2>1, <2>3 DEF LinkNode, Goto, nodes
  <2> QED
    BY <2>2, <2>3
<1>4. ASSUME Tell(t) \/ MarkFirst(t)
      PROVE  UNCHANGED <<word, held>> /\ Quiet
  <2>1. UNCHANGED nodes /\ pc[t] \in {"tell", "mark"}
    BY <1>4 DEF Tell, MarkFirst, At
  <2>2. CASE Tell(t)
    BY <1>0, <1>1, <2>1, <2>2 DEF Tell, Goto, nodes
  <2>3. CASE MarkFirst(t)
    BY <1>0, <1>1, <2>1, <2>3 DEF MarkFirst, Dispatch, Goto, nodes
  <2> QED
    BY <1>4, <2>2, <2>3
<1>5. ASSUME CountDown(t)
      PROVE  /\ UNCHANGED <<word, held>> /\ pc[t] = "count" /\ pc'[t] \notin {"addref", "tell"}
             /\ pc'[t] = "remove" =>
                  /\ Told(t) # "resolved" /\ UNCHANGED <<list, loc>> /\ t \in Visitors
  <2>1. /\ UNCHANGED nodes /\ UNCHANGED list /\ pc[t] = "count"
    BY <1>5 DEF CountDown, At, lists
  <2>2. t \in Visitors
    BY <1>5, CountDownDecides DEF Visiting
  <2>3. CASE Told(t) = "resolved"
    BY <1>0, <1>1, <1>5, <2>1, <2>2, <2>3 DEF CountDown, Dispatch, Goto, nodes
  <2>4. CASE Told(t) # "resolved"
    BY <1>0, <1>5, <2>1, <2>2, <2>4 DEF CountDown, Goto, nodes
  <2> QED
    BY <2>3, <2>4
<1>6. ASSUME \/ Execute(t) \/ RunTask(t) \/ RunExecutor(t) \/ Finish(t)
             \/ OnCanceled(t) \/ ResetValue(t)
      PROVE  UNCHANGED <<word, held>> /\ Quiet
  <2>1. UNCHANGED nodes
    BY <1>6 DEF Execute, RunTask, RunExecutor, Finish, OnCanceled, ResetValue
  <2>2. /\ pc[t] \in {"execute", "start", "run", "finish", "cancel", "reset"}
        /\ pc'[t] \notin {"addref", "tell", "remove"}
    <3>1. CASE Execute(t) \/ RunTask(t) \/ RunExecutor(t) \/ ResetValue(t)
      BY <3>1, ExecutionDecides
    <3>2. CASE Finish(t)
      BY <1>0, <1>1, <3>2 DEF Finish, At, Goto
    <3>3. CASE OnCanceled(t)
      BY <1>0, <1>1, <3>3 DEF OnCanceled, At, Goto
    <3> QED
      BY <1>6, <3>1, <3>2, <3>3
  <2> QED
    BY <2>1, <2>2 DEF nodes
<1> QED
  BY <1>2, <1>3, <1>4, <1>5, <1>6 DEF Steps, Step, NodeStep

-----------------------------------------------------------------------------
(* WordInv and HeldInv are inductive.                                        *)

\* Which nodes a step changes, and how.
LEMMA WordSteps ==
    ASSUME VisitInv, NEW t \in Threads, Steps(t), NEW d \in Dependents, NEW p \in Prerequisites
    PROVE  \/ word'[d][p] = word[d][p]
           \/ /\ RetainSettledPrerequisite(t) /\ d = Dep(t) /\ p = Pre(t)
              /\ word[d][p] = "raw" /\ word'[d][p] = "retained"
           \/ /\ RemoveCanceled(t) \/ Clear(t)
              /\ d = Dep(t) /\ word'[d][p] = "null" /\ (pc[t] = "remove" => p = Pre(t))
<1>0. PromiseInv /\ word \in [Dependents -> [Prerequisites -> {"null", "raw", "retained"}]]
  BY DEF VisitInv, ListInv, PromiseInv, TypeOK
<1>1. CASE RetainSettledPrerequisite(t)
  BY <1>0, <1>1, RetainSteps
<1>2. CASE AddRef(t)
  BY <1>2, AddRefSteps
<1>3. CASE RemoveCanceled(t) \/ Clear(t)
  <2>1. PICK q : Cleared(Dep(t), q) /\ (pc[t] = "remove" => q = Pre(t))
    BY <1>3, ClearSteps
  <2>2. word' = [word EXCEPT ![Dep(t)][q] = "null"]
    BY <2>1 DEF Cleared
  <2> QED
    BY <1>0, <1>3, <2>1, <2>2
<1>4. CASE ~NodeStep(t)
  BY <1>4, OtherNodeSteps
<1> QED
  BY <1>1, <1>2, <1>3, <1>4 DEF NodeStep

LEMMA StepsKeepWordInv ==
    ASSUME OutcomeInv, WordInv, NEW t \in Threads, Steps(t)
    PROVE  WordInv'
<1>0. /\ VisitInv /\ ListInv /\ PromiseInv /\ ResultInv /\ CountInv
      /\ word \in [Dependents -> [Prerequisites -> {"null", "raw", "retained"}]]
  BY DEF OutcomeInv, DecisionInv, VisitInv, ListInv, PromiseInv, TypeOK
<1>1. ASSUME NEW d \in Dependents, NEW p \in NeededBy(d)
      PROVE  /\ word'[d][p] = "null" /\ value'[d] = "executor" => list'[p].state = "canceled"
             /\ Heard(d, p)' /\ list'[p].state # "canceled" => word'[d][p] # "raw"
  <2>0. p \in Prerequisites
    BY NeededByIsFinite
  <2>1. ASSUME word'[d][p] = "null", value'[d] = "executor"
        PROVE  list'[p].state = "canceled"
    <3>1. value[d] = "executor"
      <4>1. "executor" \notin Results(d)
        BY DEF Results
      <4> QED
        BY <2>1, <4>1, StatusSteps
    <3>2. list[p].state = "canceled"
      <4>1. CASE word'[d][p] = word[d][p]
        BY <2>1, <3>1, <4>1 DEF WordInv
      <4>2. CASE /\ RemoveCanceled(t) \/ Clear(t)
                 /\ d = Dep(t) /\ (pc[t] = "remove" => p = Pre(t))
        <5>1. pc[t] # "clear"
          BY <1>0, <3>1, <4>2 DEF ResultInv, ResultAt
        <5>2. pc[t] = "remove" /\ t \in Visitors
          BY <1>0, <4>2, <5>1, ClearSteps
        <5> QED
          BY <4>2, <5>2 DEF WordInv, Told
      <4> QED
        BY <1>0, <2>0, <2>1, <4>1, <4>2, WordSteps
    <3> QED
      BY <1>0, <2>0, <3>2, SettledSteps
  <2>2. ASSUME Heard(d, p)', list'[p].state # "canceled"
        PROVE  word'[d][p] # "raw"
    <3>1. list[p].state # "canceled"
      BY <1>0, <2>0, <2>2, SettledSteps
    <3>2. word[d][p] # "raw"
      <4>1. CASE Heard(d, p)
        BY <3>1, <4>1 DEF WordInv
      <4>2. CASE Tell(t) /\ d = Dep(t) /\ p = Pre(t)
        <5>1. pc[t] = "tell" /\ t \in Visitors /\ Told(t) # "canceled"
          BY <1>0, <3>1, <4>2, TellDecides DEF Visiting, Told
        <5> QED
          BY <4>2, <5>1 DEF WordInv
      <4> QED
        BY <1>0, <2>0, <2>2, <4>1, <4>2, HeardSteps
    <3> QED
      BY <1>0, <2>0, <3>2, WordSteps
  <2> QED
    BY <2>1, <2>2
<1>2. ASSUME NEW u \in Visitors, pc'[u] \in {"addref", "tell"}, Told(u)' # "canceled"
      PROVE  word'[Dep(u)'][Pre(u)'] # "raw"
  <2>0. u \in Threads
    BY DEF Visitors, Threads
  <2>1. CASE u # t
    <3>1. pc[u] = pc'[u] /\ Dep(u)' = Dep(u) /\ Pre(u)' = Pre(u) /\ Visiting(u)
      BY <1>0, <1>2, <2>0, <2>1, OthersStay DEF Visiting, Before
    <3>2. Dep(u) \in Dependents /\ Pre(u) \in Prerequisites /\ list[Pre(u)].state \in Outcomes
      BY <1>0, <3>1, VisitFacts
    <3>3. Told(u) # "canceled"
      BY <1>0, <1>2, <3>1, <3>2, SettledSteps DEF Told, Outcomes
    <3>4. word[Dep(u)][Pre(u)] # "raw"
      BY <1>2, <3>1, <3>3 DEF WordInv
    <3> QED
      BY <1>0, <3>1, <3>2, <3>4, WordSteps
  <2>2. CASE u = t /\ RetainSettledPrerequisite(t)
    <3>1. /\ Dep(t)' = Dep(t) /\ Pre(t)' = Pre(t) /\ Told(t)' = Told(t)
          /\ Dep(t) \in Dependents /\ Pre(t) \in Prerequisites
      BY <1>0, <2>2, RetainSteps, SamePlace DEF Told
    <3> QED
      BY <1>0, <1>2, <2>2, <3>1, RetainSteps
  <2>3. CASE u = t /\ AddRef(t)
    <3>1. /\ Dep(t)' = Dep(t) /\ Pre(t)' = Pre(t) /\ Told(t)' = Told(t) /\ pc[t] = "addref"
          /\ UNCHANGED word
      BY <1>0, <2>3, AddRefSteps, SamePlace DEF Told
    <3> QED
      BY <1>2, <2>3, <3>1 DEF WordInv
  <2>4. CASE u = t /\ (RemoveCanceled(t) \/ Clear(t))
    BY <1>0, <1>2, <2>4, ClearSteps
  <2>5. CASE u = t /\ ~NodeStep(t)
    <3>1. Told(t) = "canceled" /\ UNCHANGED <<list, loc>>
      BY <1>0, <1>2, <2>5, OtherNodeSteps
    <3>2. Told(t)' = Told(t)
      BY <3>1, SamePlace DEF Told
    <3> QED
      BY <1>2, <2>5, <3>1, <3>2
  <2> QED
    BY <2>1, <2>2, <2>3, <2>4, <2>5 DEF NodeStep
<1>3. ASSUME NEW u \in Visitors, pc'[u] = "remove"
      PROVE  Told(u)' = "canceled"
  <2>0. u \in Threads
    BY DEF Visitors, Threads
  <2>1. CASE u # t
    <3>1. pc[u] = pc'[u] /\ Dep(u)' = Dep(u) /\ Pre(u)' = Pre(u) /\ Visiting(u)
      BY <1>0, <1>3, <2>0, <2>1, OthersStay DEF Visiting, After
    <3>2. Pre(u) \in Prerequisites /\ Told(u) = "canceled"
      BY <1>0, <1>3, <3>1, VisitFacts DEF WordInv
    <3> QED
      BY <1>0, <3>1, <3>2, SettledSteps DEF Told
  <2>2. CASE u = t
    <3>1. ~NodeStep(t)
      BY <1>0, <1>3, <2>2, RetainSteps, AddRefSteps, ClearSteps DEF NodeStep
    <3>2. /\ Told(t) # "resolved" /\ UNCHANGED <<list, loc>> /\ pc[t] = "count" /\ t \in Visitors
      BY <1>0, <1>3, <2>2, <3>1, OtherNodeSteps
    <3>3. Told(t) = "canceled"
      BY <1>0, <3>2 DEF CountInv, Out
    <3> QED
      BY <2>2, <3>2, <3>3, SamePlace DEF Told
  <2> QED
    BY <2>1, <2>2
<1> QED
  BY <1>1, <1>2, <1>3 DEF WordInv, NeededBy

-----------------------------------------------------------------------------
LEMMA RetainingIsFinite ==
    ASSUME NEW p
    PROVE  /\ IsFiniteSet(Retaining(p)) /\ Cardinality(Retaining(p)) \in Nat
           /\ IsFiniteSet(Retaining(p)') /\ Cardinality(Retaining(p)') \in Nat
<1>1. Retaining(p) \subseteq Dependents /\ Retaining(p)' \subseteq Dependents
  BY DEF Retaining
<1> QED
  BY <1>1, FinitenessAssumption, FS_Subset, FS_CardinalityType

LEMMA ThreadsAreFinite == IsFiniteSet(Threads)
<1>1. IsFiniteSet({"settle"}) /\ IsFiniteSet({"cancel"}) /\ IsFiniteSet({"create"})
      /\ IsFiniteSet({"run"})
  BY FS_Singleton
<1>2. IsFiniteSet(Cancelable)
  BY FinitenessAssumption, NeedsAssumption, FS_Subset
<1>3. /\ IsFiniteSet({"settle"} \X Prerequisites) /\ IsFiniteSet({"cancel"} \X Cancelable)
      /\ IsFiniteSet(Creators) /\ IsFiniteSet(Runners)
  BY <1>1, <1>2, FinitenessAssumption, FS_Product DEF Creators, Runners
<1> QED
  BY <1>3, FS_Union DEF Threads, Settlers

LEMMA AddingIsFinite ==
    ASSUME NEW p
    PROVE  /\ IsFiniteSet(Adding(p)) /\ Cardinality(Adding(p)) \in Nat
           /\ IsFiniteSet(Adding(p)') /\ Cardinality(Adding(p)') \in Nat
<1>1. Adding(p) \subseteq Threads /\ Adding(p)' \subseteq Threads
  BY DEF Adding
<1> QED
  BY <1>1, ThreadsAreFinite, FS_Subset, FS_CardinalityType

\* Threads that stay at their places keep adding, or not, for a prerequisite.
LEMMA AddingElsewhere ==
    ASSUME ListInv, NEW t \in Threads, Steps(t), NEW p
    PROVE  Adding(p)' \ {t} = Adding(p) \ {t}
BY OthersStay DEF Adding

LEMMA StepsKeepHeldInv ==
    ASSUME VisitInv, HeldInv, NEW t \in Threads, Steps(t)
    PROVE  HeldInv'
<1>0. /\ ListInv /\ PromiseInv /\ held \in [Prerequisites -> Int]
      /\ word \in [Dependents -> [Prerequisites -> {"null", "raw", "retained"}]]
  BY DEF VisitInv, ListInv, PromiseInv, TypeOK
<1> SUFFICES ASSUME NEW p \in Prerequisites
             PROVE  held'[p] = Cardinality(Retaining(p)') - Cardinality(Adding(p)')
  BY DEF HeldInv
<1>1. /\ held[p] = Cardinality(Retaining(p)) - Cardinality(Adding(p)) /\ held[p] \in Int
      /\ IsFiniteSet(Retaining(p)) /\ Cardinality(Retaining(p)) \in Nat
      /\ IsFiniteSet(Adding(p)) /\ Cardinality(Adding(p)) \in Nat
      /\ IsFiniteSet(Retaining(p)') /\ IsFiniteSet(Adding(p)')
      /\ Adding(p)' \ {t} = Adding(p) \ {t}
  BY <1>0, RetainingIsFinite, AddingIsFinite, AddingElsewhere DEF HeldInv
<1>2. ASSUME held'[p] = held[p], Retaining(p)' = Retaining(p), t \in Adding(p)' <=> t \in Adding(p)
      PROVE  held'[p] = Cardinality(Retaining(p)') - Cardinality(Adding(p)')
  <2>1. Adding(p)' = Adding(p)
    BY <1>1, <1>2
  <2> QED
    BY <1>1, <1>2, <2>1
<1>3. CASE RetainSettledPrerequisite(t)
  <2>1. UNCHANGED held /\ Dep(t) \in Dependents /\ t \notin Adding(p) /\ Pre(t)' = Pre(t)
    BY <1>0, <1>3, RetainSteps, SamePlace DEF Adding
  <2>2. CASE UNCHANGED word /\ pc'[t] = "tell"
    BY <1>2, <2>1, <2>2 DEF Retaining, Adding
  <2>3. CASE /\ word[Dep(t)][Pre(t)] = "raw" /\ pc'[t] = "addref"
             /\ word' = [word EXCEPT ![Dep(t)][Pre(t)] = "retained"]
    <3>1. CASE p # Pre(t)
      <4>1. Retaining(p)' = Retaining(p)
        BY <1>0, <2>3, <3>1 DEF Retaining
      <4> QED
        BY <1>2, <2>1, <3>1, <4>1 DEF Adding
    <3>2. CASE p = Pre(t)
      <4>1. Dep(t) \notin Retaining(p) /\ Retaining(p)' = Retaining(p) \cup {Dep(t)}
        BY <1>0, <2>1, <2>3, <3>2 DEF Retaining
      <4>2. Adding(p)' = Adding(p) \cup {t}
        <5>1. t \in Adding(p)'
          BY <2>1, <2>3, <3>2 DEF Adding
        <5> QED
          BY <1>1, <2>1, <5>1
      <4>3. /\ Cardinality(Retaining(p)') = Cardinality(Retaining(p)) + 1
            /\ Cardinality(Adding(p)') = Cardinality(Adding(p)) + 1
        BY <1>1, <2>1, <4>1, <4>2, FS_AddElement
      <4> QED
        BY <1>1, <2>1, <4>3
    <3> QED
      BY <3>1, <3>2
  <2> QED
    BY <1>0, <1>3, <2>2, <2>3, RetainSteps
<1>4. CASE AddRef(t)
  <2>1. Retaining(p)' = Retaining(p) /\ Pre(t)' = Pre(t) /\ Pre(t) \in Prerequisites
        /\ pc[t] = "addref"
    BY <1>4, AddRefSteps, SamePlace DEF Retaining
  <2>2. CASE UNCHANGED <<held, pc>>
    BY <1>2, <2>1, <2>2 DEF Adding
  <2>3. CASE held' = [held EXCEPT ![Pre(t)] = held[Pre(t)] + 1] /\ pc'[t] = "tell"
    <3>1. CASE p # Pre(t)
      BY <1>0, <1>2, <2>1, <2>3, <3>1 DEF Adding
    <3>2. CASE p = Pre(t)
      <4>1. t \in Adding(p) /\ t \notin Adding(p)'
        BY <2>1, <2>3, <3>2 DEF Adding
      <4>2. Adding(p)' = Adding(p) \ {t}
        BY <1>1, <4>1
      <4>3. Cardinality(Adding(p)') = Cardinality(Adding(p)) - 1
        BY <1>1, <4>1, <4>2, FS_RemoveElement
      <4>4. held'[p] = held[p] + 1
        BY <1>0, <2>3, <3>2
      <4> QED
        BY <1>1, <2>1, <4>3, <4>4
    <3> QED
      BY <3>1, <3>2
  <2> QED
    BY <1>4, <2>2, <2>3, AddRefSteps
<1>5. CASE RemoveCanceled(t) \/ Clear(t)
  <2>0. PICK d : d = Dep(t)
    OBVIOUS
  <2>1. t \notin Adding(p) /\ t \notin Adding(p)' /\ d \in Dependents
    BY <1>5, <2>0, ClearSteps DEF Adding
  <2>2. PICK q : Cleared(d, q)
    BY <1>5, <2>0, ClearSteps
  <2>3. /\ word' = [word EXCEPT ![d][q] = "null"]
        /\ held' = [held EXCEPT ![q] = IF word[d][q] = "retained" THEN held[q] - 1 ELSE held[q]]
    BY <2>2 DEF Cleared
  <2>4. CASE q # p
    <3>1. Retaining(p)' = Retaining(p)
      BY <1>0, <2>1, <2>3, <2>4 DEF Retaining
    <3> QED
      BY <1>0, <1>2, <2>1, <2>3, <2>4, <3>1
  <2>5. CASE q = p /\ word[d][q] = "retained"
    <3>1. d \in Retaining(p) /\ Retaining(p)' = Retaining(p) \ {d}
      BY <1>0, <2>1, <2>3, <2>5 DEF Retaining
    <3>2. Cardinality(Retaining(p)') = Cardinality(Retaining(p)) - 1
      BY <1>1, <3>1, FS_RemoveElement
    <3>3. Adding(p)' = Adding(p)
      BY <1>1, <2>1
    <3>4. held'[p] = held[p] - 1
      BY <1>0, <2>3, <2>5
    <3> QED
      BY <1>1, <3>2, <3>3, <3>4
  <2>6. CASE q = p /\ word[d][q] # "retained"
    <3>1. Retaining(p)' = Retaining(p)
      BY <1>0, <2>1, <2>3, <2>6 DEF Retaining
    <3> QED
      BY <1>0, <1>2, <2>1, <2>3, <2>6, <3>1
  <2> QED
    BY <2>4, <2>5, <2>6
<1>6. CASE ~NodeStep(t)
  <2>1. UNCHANGED <<word, held>> /\ t \notin Adding(p) /\ t \notin Adding(p)'
    BY <1>6, OtherNodeSteps DEF Adding
  <2> QED
    BY <1>2, <2>1 DEF Retaining
<1> QED
  BY <1>3, <1>4, <1>5, <1>6 DEF NodeStep

-----------------------------------------------------------------------------
(* The values that executors read are kept.                                  *)

LEMMA ValueInvInitially == Init => ValueInv
<1> SUFFICES ASSUME Init PROVE ValueInv
  OBVIOUS
<1>1. /\ \A t \in Threads : pc[t] = "start"
      /\ \A d \in Dependents : \A p \in Prerequisites : word[d][p] # "retained"
      /\ \A d \in Dependents : \A p \in NeededBy(d) : word[d][p] = "raw"
      /\ \A p \in Prerequisites : held[p] = 0 /\ told[p] = <<>>
  <2>1. \A d \in Dependents : NeededBy(d) \subseteq Prerequisites
    BY NeededByIsFinite
  <2> QED
    BY <2>1 DEF Init
<1>2. WordInv
  <2>1. \A t \in Visitors : pc[t] = "start"
    BY <1>1 DEF Visitors, Threads
  <2>2. ASSUME NEW d \in Dependents, NEW p \in NeededBy(d)
        PROVE  word[d][p] = "raw" /\ ~Heard(d, p)
    BY <1>1, <2>2, NeededByIsFinite DEF Heard
  <2> QED
    BY <2>1, <2>2 DEF WordInv
<1>3. HeldInv
  <2>1. ASSUME NEW p \in Prerequisites
        PROVE  Retaining(p) = {} /\ Adding(p) = {}
    BY <1>1 DEF Retaining, Adding
  <2>2. \A p \in Prerequisites :
          held[p] = 0 /\ Cardinality(Retaining(p)) = 0 /\ Cardinality(Adding(p)) = 0
    BY <1>1, <2>1, FS_EmptySet
  <2> QED
    BY <2>2 DEF HeldInv
<1> QED
  BY <1>2, <1>3, OutcomeInvInitially DEF ValueInv

LEMMA StepsKeepValueInv == ValueInv /\ [Next]_vars => ValueInv'
<1>1. ASSUME ValueInv, UNCHANGED vars
      PROVE  WordInv' /\ HeldInv'
  <2> USE <1>1 DEF ValueInv, vars, lists, nodes, settling
  <2>1. \A t : Dep(t)' = Dep(t) /\ Pre(t)' = Pre(t) /\ Told(t)' = Told(t)
    BY DEF Dep, Pre, Told
  <2>2. WordInv'
    BY <2>1 DEF WordInv, Heard, NeededBy
  <2>3. \A p : Retaining(p)' = Retaining(p) /\ Adding(p)' = Adding(p)
    BY <2>1 DEF Retaining, Adding
  <2>4. HeldInv'
    BY <2>3 DEF HeldInv
  <2> QED
    BY <2>2, <2>4
<1>2. ASSUME ValueInv, NEW t \in Threads, Steps(t)
      PROVE  WordInv' /\ HeldInv'
  <2>1. OutcomeInv /\ WordInv /\ HeldInv /\ VisitInv
    BY <1>2 DEF ValueInv, OutcomeInv, DecisionInv
  <2> QED
    BY <1>2, <2>1, StepsKeepWordInv, StepsKeepHeldInv
<1>3. ValueInv /\ [Next]_vars => OutcomeInv'
  BY StepsKeepOutcomeInv DEF ValueInv
<1> QED
  BY <1>1, <1>2, <1>3 DEF ValueInv, Next, Steps

\* A prerequisite that is retained has a reference more than those that are
\* about to be added, and whoever adds one has one.
LEMMA RetainedIsReferenced ==
    ASSUME VisitInv, HeldInv, NEW p \in Prerequisites, NEW d \in Retaining(p)
    PROVE  References(p) > 0
<1> DEFINE Present == {t \in Users(p) : pc[t] # "done"}
<1>0. PromiseInv /\ TaskPlaces
  BY DEF VisitInv, ListInv
<1>1. ASSUME NEW t \in Adding(p)
      PROVE  t \in Present
  <2>1. t \in Threads /\ pc[t] = "addref" /\ Pre(t) = p
    BY DEF Adding
  <2>2. t \in Settlers \/ t \in Creators
    BY <1>0, <2>1 DEF TaskPlaces, Threads
  <2>3. CASE t \in Settlers
    BY <2>1, <2>3 DEF Pre, Users
  <2>4. CASE t \in Creators
    BY <1>0, <2>1, <2>4, PlaceOfCreator DEF Users
  <2> QED
    BY <2>2, <2>3, <2>4
<1>2. /\ IsFiniteSet(Present) /\ Cardinality(Present) \in Nat
      /\ Cardinality(Adding(p)) <= Cardinality(Present) /\ Cardinality(Adding(p)) \in Nat
  <2>1. Present \subseteq Threads
    BY DEF Users, Threads
  <2> QED
    BY <1>1, <2>1, ThreadsAreFinite, AddingIsFinite, FS_Subset, FS_CardinalityType
<1>3. Cardinality(Retaining(p)) \in Nat /\ Cardinality(Retaining(p)) # 0
  BY RetainingIsFinite, FS_EmptySet
<1>4. held[p] = Cardinality(Retaining(p)) - Cardinality(Adding(p))
  BY DEF HeldInv
<1>5. Cardinality(Present) + held[p] > 0
  <2> HIDE DEF Present
  <2> QED
    BY <1>2, <1>3, <1>4
<1> QED
  BY <1>5 DEF References

LEMMA ExecutorsReadRetained == ValueInv => ValuesKept
<1> SUFFICES ASSUME ValueInv, NEW t \in Threads, pc[t] = "run", value[Dep(t)] = "executor",
                    NEW p \in ReadBy(Dep(t))
             PROVE  word[Dep(t)][p] = "retained" /\ References(p) > 0
  BY DEF ValuesKept
<1> DEFINE d == Dep(t)
<1>0. /\ OutcomeInv /\ WordInv /\ HeldInv /\ VisitInv /\ PromiseInv /\ FirstInv /\ LaunchInv
      /\ word \in [Dependents -> [Prerequisites -> {"null", "raw", "retained"}]]
  BY DEF ValueInv, OutcomeInv, DecisionInv, VisitInv, ListInv, PromiseInv, TypeOK
<1>1. d \in Dependents
  BY <1>0, PlaceOfVisit
<1>2. Ready(d)
  BY <1>0, <1>1 DEF LaunchInv, LaunchedOnce, Launched, Executes
<1>3. p \in NeededBy(d) /\ Heard(d, p) /\ list[p].state # "canceled"
  <2>1. CASE first[d] # None
    BY <1>0, <1>1, <2>1 DEF ReadBy, FirstInv
  <2>2. CASE first[d] = None
    BY <1>2, <2>2 DEF ReadBy, Ready, Uncounted, Counted, Out
  <2> QED
    BY <2>1, <2>2
<1>4. p \in Prerequisites
  BY <1>1, <1>3, NeededByIsFinite
<1>5. word[d][p] = "retained"
  <2>1. word[d][p] \in {"null", "raw", "retained"}
    BY <1>0, <1>1, <1>4
  <2> QED
    BY <1>0, <1>1, <1>3, <2>1 DEF WordInv
<1>6. d \in Retaining(p)
  BY <1>1, <1>5 DEF Retaining
<1> QED
  BY <1>0, <1>4, <1>5, <1>6, RetainedIsReferenced

\* An executor that runs finds the prerequisites it reads retained and alive,
\* although other threads drop their references or cancel it meanwhile.
THEOREM ValuesAreKept == Spec => []ValuesKept
BY ValueInvInitially, StepsKeepValueInv, ExecutorsReadRetained, PTL DEF Spec
=============================================================================
