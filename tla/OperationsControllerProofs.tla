---------------------- MODULE OperationsControllerProofs ----------------------
(***************************************************************************)
(* For any number of threads and any count width: as long as the attempts  *)
(* made before the start fit in the count (Fits), the count is exact, the  *)
(* waiting shutdown is owed a signal and the controller implements         *)
(* OperationsGate.                                                         *)
(***************************************************************************)
EXTENDS OperationsController, FiniteSetTheorems, TLAPS

\* The count can hold every attempt that may be in it at once.
Fits == MaxRejections + Cardinality(Threads) < CountLimit

-----------------------------------------------------------------------------
(* The inductive invariant.                                                  *)

\* The two flags of the word tell which calls were made.
Flags ==
    /\ word.accepting <=> starter.pc # "before"
    /\ word.shutting <=> shutter.pc # "before"

\* What each pc implies for the others.
Places ==
    /\ starter.pc = "before" => Running = {} /\ shutter.pc # "wait"
    /\ shutter.pc = "unwind" => starter.pc = "before"
    /\ shutter.pc = "unwind" => shutter.n = rejections
    /\ shutter.pc = "before" =>
          \A t \in Threads : pc[t] \in {"idle", "running"}
    /\ starter.pc # "before" => starter.n = rejections

\* Once somebody saw the count reach zero during the shutdown, or the shutdown
\* returned, no operation runs and none will.
Quiet ==
    /\ SomeoneSignals \/ event => word.shutting /\ Running = {}
    /\ shutter.pc = "returned" => Running = {}

OperationsInv ==
    TypeOK /\ Flags /\ Places /\ Quiet /\ CountExact /\ WaiterIsOwed

-----------------------------------------------------------------------------
(* How many threads are counted.                                             *)

\* A thread that enters or leaves the counted threads changes their number
\* by one, and there are never more of them than threads.
LEMMA CountedChanges ==
    ASSUME pc \in [Threads -> ThreadPCs], NEW t \in Threads,
           NEW label \in ThreadPCs, pc' = [pc EXCEPT ![t] = label]
    PROVE  /\ Cardinality(Counted) \in 0..Cardinality(Threads)
           /\ Cardinality(Counted)' \in Nat
           /\ Cardinality(Threads) \in Nat
           /\ pc[t] \in {"idle", "signal"} /\ label \in {"running", "undo"}
                => Cardinality(Counted)' = Cardinality(Counted) + 1
           /\ pc[t] \in {"running", "undo"} /\ label \in {"idle", "signal"}
                => Cardinality(Counted)' = Cardinality(Counted) - 1
           /\ pc[t] \in {"idle", "signal"} /\ label \in {"idle", "signal"}
                => Cardinality(Counted)' = Cardinality(Counted)
<1>1. IsFiniteSet(Threads) /\ Counted \subseteq Threads
  BY ThreadsAssumption DEF Counted
<1>2. IsFiniteSet(Counted) /\ Cardinality(Counted) <= Cardinality(Threads)
  BY <1>1, FS_Subset
<1>3. Cardinality(Counted) \in Nat /\ Cardinality(Threads) \in Nat
  BY <1>1, <1>2, FS_CardinalityType
<1>4. /\ IsFiniteSet(Counted \cup {t}) /\ IsFiniteSet(Counted \ {t})
      /\ Cardinality(Counted \cup {t}) = IF t \in Counted
            THEN Cardinality(Counted) ELSE Cardinality(Counted) + 1
      /\ Cardinality(Counted \ {t}) = IF t \in Counted
            THEN Cardinality(Counted) - 1 ELSE Cardinality(Counted)
  BY <1>2, FS_AddElement, FS_RemoveElement
<1>5. Counted' = IF label \in {"running", "undo"}
                   THEN Counted \cup {t} ELSE Counted \ {t}
  BY DEF Counted
<1>6. Cardinality(Counted)' \in Nat
  BY <1>4, <1>5, FS_CardinalityType
<1>7. Cardinality(Counted)' = Cardinality(Counted')
  OBVIOUS
<1>8. CASE label \in {"running", "undo"}
  BY <1>2, <1>3, <1>4, <1>5, <1>6, <1>7, <1>8 DEF Counted
<1>9. CASE label \in {"idle", "signal"}
  BY <1>2, <1>3, <1>4, <1>5, <1>6, <1>7, <1>9 DEF Counted
<1> QED
  BY <1>8, <1>9 DEF ThreadPCs

\* A single counted thread is the only one.
LEMMA OnlyCounted ==
    ASSUME NEW t \in Counted, Cardinality(Counted) = 1
    PROVE  Counted = {t}
<1>1. IsFiniteSet(Counted)
  BY ThreadsAssumption, FS_Subset DEF Counted
<1>2. IsFiniteSet(Counted \ {t}) /\ Cardinality(Counted \ {t}) = 0
  BY <1>1, FS_RemoveElement
<1> QED
  BY <1>2, FS_EmptySet

\* No counted thread, no operation.
LEMMA NoneCounted == Cardinality(Counted) = 0 => Running = {}
<1>1. IsFiniteSet(Counted)
  BY ThreadsAssumption, FS_Subset DEF Counted
<1> QED
  BY <1>1, FS_EmptySet DEF Counted, Running

-----------------------------------------------------------------------------
(* The invariant is inductive.                                               *)

LEMMA Initially == Init => OperationsInv
<1> SUFFICES ASSUME Init PROVE OperationsInv
  OBVIOUS
<1>1. TypeOK
  <2>1. 0 \in 0..CountLimit-1 /\ 0 \in 0..MaxRejections
    BY LimitsAssumption
  <2>2. starter \in [pc: StarterPCs, n: Nat] /\ shutter \in [pc: ShutterPCs, n: Nat]
    BY DEF Init, StarterPCs, ShutterPCs
  <2> QED
    BY <2>1, <2>2 DEF Init, TypeOK, ThreadPCs
<1>4. Flags /\ Places /\ Quiet /\ WaiterIsOwed
  BY DEF Init, Flags, Places, Quiet, WaiterIsOwed, SomeoneSignals, Running
<1>2. Counted = {} /\ Cardinality(Counted) = 0
  BY FS_EmptySet DEF Init, Counted
<1>3. CountExact
  BY <1>2 DEF Init, CountExact, NotUnwound
<1> QED
  BY <1>1, <1>3, <1>4 DEF OperationsInv

\* The facts every step needs.
LEMMA Bounds ==
    ASSUME OperationsInv
    PROVE  /\ Cardinality(Counted) \in Nat
           /\ Cardinality(Threads) \in Nat
           /\ Cardinality(Counted) <= Cardinality(Threads)
           /\ NotUnwound \in 0..rejections
           /\ word.count = Cardinality(Counted) + NotUnwound
<1>1. IsFiniteSet(Threads) /\ Counted \subseteq Threads
  BY ThreadsAssumption DEF Counted
<1>2. /\ Cardinality(Counted) \in Nat /\ Cardinality(Threads) \in Nat
      /\ Cardinality(Counted) <= Cardinality(Threads)
  BY <1>1, FS_Subset, FS_CardinalityType
<1> QED
  BY <1>2, LimitsAssumption
  DEF OperationsInv, TypeOK, Places, NotUnwound, CountExact

LEMMA TryBeginKeeps ==
    ASSUME Fits, OperationsInv, NEW t \in Threads, TryBeginOperation(t)
    PROVE  OperationsInv'
<1> USE DEF OperationsInv, TypeOK, Flags, Places, Quiet, CountExact,
    WaiterIsOwed, SomeoneSignals, NotUnwound, Running, ThreadPCs, StarterPCs,
    ShutterPCs, ExtractState, Goto, TryBeginOperation
<1>1. /\ word.count + 1 < CountLimit
      /\ word' = [word EXCEPT !.count = @ + 1]
  <2>1. Cardinality(Counted) <= Cardinality(Threads)
    BY Bounds
  <2>2. CASE ExtractState(word) = "rejecting"
    BY <2>2, Bounds, LimitsAssumption DEF Fits, FetchAddOne
  <2>3. CASE ExtractState(word) # "rejecting"
    <3> DEFINE label == IF word.shutting THEN "undo" ELSE "running"
    <3>1. IsFiniteSet(Counted \cup {t}) /\ Counted \cup {t} \subseteq Threads
      BY ThreadsAssumption, FS_Subset DEF Counted
    <3>2. t \notin Counted
      BY DEF Counted
    <3>3. Cardinality(Counted \cup {t}) = Cardinality(Counted) + 1
      BY <3>1, <3>2, FS_Subset, FS_AddElement
    <3>4. Cardinality(Counted) + 1 <= Cardinality(Threads)
      BY <3>1, <3>3, ThreadsAssumption, FS_Subset
    <3> QED
      BY <3>4, Bounds, LimitsAssumption DEF Fits, FetchAddOne
  <2> QED
    BY <2>2, <2>3
<1>2. CASE ExtractState(word) = "rejecting"
  <2>1. Cardinality(Counted)' = Cardinality(Counted)
    BY <1>2 DEF Counted
  <2> QED
    BY <1>1, <1>2, <2>1, Bounds, LimitsAssumption
<1>3. CASE ExtractState(word) = "accepting"
  <2>1. pc' = [pc EXCEPT ![t] = "running"] /\ rejections' = rejections
    BY <1>3
  <2>2. Cardinality(Counted)' = Cardinality(Counted) + 1
    BY <2>1, CountedChanges
  <2> QED
    BY <1>1, <1>3, <2>1, <2>2, Bounds, LimitsAssumption
<1>4. CASE ExtractState(word) = "shutting"
  <2>1. pc' = [pc EXCEPT ![t] = "undo"] /\ rejections' = rejections
    BY <1>4
  <2>2. Cardinality(Counted)' = Cardinality(Counted) + 1
    BY <2>1, CountedChanges
  <2> QED
    BY <1>1, <1>4, <2>1, <2>2, Bounds, LimitsAssumption
<1> QED
  BY <1>2, <1>3, <1>4

\* UndoAttempt and ReleaseToken take one away and may have to signal.
LEMMA LeaveKeeps ==
    ASSUME OperationsInv, NEW t \in Threads,
           UndoAttempt(t) \/ ReleaseToken(t)
    PROVE  OperationsInv'
<1> DEFINE label == IF LastOut(1) THEN "signal" ELSE "idle"
<1>1. /\ t \in Counted /\ label \in ThreadPCs
      /\ pc[t] \in {"running", "undo"} /\ label \in {"idle", "signal"}
      /\ pc' = [pc EXCEPT ![t] = label]
      /\ UNCHANGED <<event, starter, shutter, rejections>>
      /\ DecrementBy(1)
  BY DEF UndoAttempt, ReleaseToken, Goto, Counted, ThreadPCs
<1>2. Cardinality(Counted)' = Cardinality(Counted) - 1
  BY <1>1, CountedChanges DEF OperationsInv, TypeOK
<1>3. Cardinality(Counted) # 0
  <2>1. IsFiniteSet(Counted)
    BY ThreadsAssumption, FS_Subset DEF Counted
  <2> QED
    BY <1>1, <2>1, FS_EmptySet
<1>4. word' = [word EXCEPT !.count = @ - 1] /\ word.count >= 1
  BY <1>1, <1>3, Bounds DEF DecrementBy, FetchSub
<1> HIDE DEF label
<1>5. LastOut(1) => Running' = {}
  <2> SUFFICES ASSUME LastOut(1) PROVE Running' = {}
    OBVIOUS
  <2>1. Cardinality(Counted) = 1
    BY <1>3, Bounds DEF LastOut
  <2>2. Counted = {t}
    BY <1>1, <2>1, OnlyCounted
  <2> QED
    BY <1>1, <2>2 DEF Counted, Running, OperationsInv, TypeOK
<1>6. word'.count = Cardinality(Counted)' + NotUnwound'
  BY <1>1, <1>2, <1>4, Bounds DEF NotUnwound, OperationsInv, TypeOK
<1>7. label = IF LastOut(1) THEN "signal" ELSE "idle"
  BY DEF label
<1>8. Running' \subseteq Running
  BY <1>1 DEF Running, OperationsInv, TypeOK
<1> USE DEF OperationsInv, TypeOK, Flags, Places, Quiet, CountExact,
    WaiterIsOwed, SomeoneSignals, Running, ThreadPCs, ExtractState, LastOut
<1>12. word' = [shutting |-> word.shutting, accepting |-> word.accepting,
                count |-> word.count - 1]
  BY <1>4
<1>9. TypeOK' /\ Flags' /\ Places'
  <2>1. TypeOK'
    BY <1>1, <1>4, <1>12, LimitsAssumption
  <2>2. Flags'
    BY <1>1, <1>12
  <2>3. shutter.pc = "before" => label = "idle"
    BY <1>7
  <2>4. Places'
    BY <1>1, <1>8, <1>12, <2>3
  <2> QED
    BY <2>1, <2>2, <2>4
<1>10. Quiet'
  BY <1>1, <1>4, <1>5, <1>7, <1>8
<1>11. WaiterIsOwed'
  BY <1>1, <1>4, <1>7
<1> QED
  BY <1>6, <1>9, <1>10, <1>11

LEMMA SignalKeeps ==
    ASSUME OperationsInv, NEW t \in Threads, SignalComplete(t)
    PROVE  OperationsInv'
<1>1. pc' = [pc EXCEPT ![t] = "idle"] /\ pc[t] = "signal"
  BY DEF SignalComplete, Goto
<1>2. Cardinality(Counted)' = Cardinality(Counted)
  BY <1>1, CountedChanges DEF OperationsInv, TypeOK, ThreadPCs
<1>3. CountExact'
  BY <1>2 DEF SignalComplete, OperationsInv, CountExact, NotUnwound
<1> QED
  BY <1>1, <1>3 DEF SignalComplete, OperationsInv, TypeOK, Flags, Places, Quiet,
     WaiterIsOwed, SomeoneSignals, Running, ThreadPCs

\* The steps of the start and of the shutdown leave the threads alone.
LEMMA CountedKept == UNCHANGED pc => Cardinality(Counted)' = Cardinality(Counted)
  BY DEF Counted

LEMMA StartKeeps ==
    ASSUME OperationsInv, StartAcceptingOperations \/ StarterStep
    PROVE  OperationsInv'
<1> USE DEF OperationsInv, TypeOK, Flags, Places, Quiet, CountExact,
    WaiterIsOwed, SomeoneSignals, NotUnwound, Running, StarterPCs
<1>1. CASE StartAcceptingOperations
  <2>1. Cardinality(Counted)' = Cardinality(Counted)
    BY <1>1, CountedKept DEF StartAcceptingOperations
  <2>2. /\ word' = [shutting |-> word.shutting, accepting |-> TRUE,
                   count |-> word.count]
        /\ starter' = [pc |-> "unwind", n |-> word.count]
        /\ word.count = Cardinality(Counted) + rejections
        /\ UNCHANGED <<event, pc, shutter, rejections>>
    BY <1>1, Bounds DEF StartAcceptingOperations
  <2>3. starter' \in [pc: StarterPCs, n: Nat]
    BY <2>2, LimitsAssumption
  <2>6. TypeOK'
    BY <2>2, <2>3
  <2>4. Flags' /\ Quiet' /\ WaiterIsOwed'
    BY <1>1, <2>2 DEF StartAcceptingOperations
  <2>7. Cardinality(Counted) = 0
    <3>1. Counted = {}
      BY <1>1 DEF StartAcceptingOperations, Counted
    <3> QED
      BY <3>1, FS_EmptySet
  <2>5. Places' /\ CountExact'
    BY <1>1, <2>1, <2>2, <2>7, Bounds DEF StartAcceptingOperations
  <2> QED
    BY <2>4, <2>5, <2>6
<1>2. CASE UnwindRejected
  <2>1. Cardinality(Counted)' = Cardinality(Counted)
    BY <1>2, CountedKept DEF UnwindRejected
  <2>2. word' = [word EXCEPT !.count = @ - starter.n] /\ starter.n <= word.count
    BY <1>2, Bounds DEF UnwindRejected, DecrementBy, FetchSub
  <2>3. LastOut(starter.n) => Running = {}
    BY <1>2, Bounds, NoneCounted DEF UnwindRejected, LastOut
  <2>4. word' = [shutting |-> word.shutting, accepting |-> word.accepting,
                count |-> word.count - starter.n]
    BY <2>2
  <2>5. TypeOK'
    BY <1>2, <2>2, <2>4, LimitsAssumption DEF UnwindRejected
  <2>6. CountExact'
    BY <1>2, <2>1, <2>2, <2>4, Bounds DEF UnwindRejected
  <2>7. Flags' /\ Places' /\ Quiet' /\ WaiterIsOwed'
    BY <1>2, <2>2, <2>3, <2>4 DEF UnwindRejected, LastOut, ExtractState
  <2> QED
    BY <2>5, <2>6, <2>7
<1>3. CASE SignalFromStart
  <2>1. Cardinality(Counted)' = Cardinality(Counted)
    BY <1>3, CountedKept DEF SignalFromStart
  <2> QED
    BY <1>3, <2>1 DEF SignalFromStart
<1> QED
  BY <1>1, <1>2, <1>3 DEF StarterStep

LEMMA ShutdownKeeps ==
    ASSUME OperationsInv, ShutdownAndWaitForZeroOperations \/ ShutterStep
    PROVE  OperationsInv'
<1> USE DEF OperationsInv, TypeOK, Flags, Places, Quiet, CountExact,
    WaiterIsOwed, SomeoneSignals, NotUnwound, Running, ShutterPCs
<1>1. CASE ShutdownAndWaitForZeroOperations
  <2>1. Cardinality(Counted)' = Cardinality(Counted)
    BY <1>1, CountedKept DEF ShutdownAndWaitForZeroOperations
  <2>2. word.count = 0 => Running = {}
    BY Bounds, NoneCounted
  <2>3. word' = [shutting |-> TRUE, accepting |-> word.accepting,
                count |-> word.count]
    BY <1>1 DEF ShutdownAndWaitForZeroOperations
  <2>4. TypeOK'
    <3>1. word.count \in Nat
      BY LimitsAssumption
    <3>2. shutter' \in [pc: ShutterPCs, n: Nat]
      BY <1>1, <3>1 DEF ShutdownAndWaitForZeroOperations
    <3> QED
      BY <1>1, <2>3, <3>2 DEF ShutdownAndWaitForZeroOperations
  <2>5. starter.pc = "before" => word.count = rejections
    <3> SUFFICES ASSUME starter.pc = "before" PROVE word.count = rejections
      OBVIOUS
    <3>1. Counted = {}
      BY <1>1 DEF ShutdownAndWaitForZeroOperations, Counted
    <3> QED
      BY <1>1, <3>1, FS_EmptySet, Bounds DEF ShutdownAndWaitForZeroOperations
  <2>6. CountExact'
    BY <1>1, <2>1, <2>3, <2>5, Bounds
    DEF ShutdownAndWaitForZeroOperations, ExtractState
  <2>7. Flags' /\ Quiet' /\ WaiterIsOwed'
    BY <1>1, <2>2, <2>3 DEF ShutdownAndWaitForZeroOperations, ExtractState
  <2>8. Places'
    BY <1>1, <2>3, <2>5 DEF ShutdownAndWaitForZeroOperations, ExtractState
  <2> QED
    BY <2>4, <2>6, <2>7, <2>8
<1>2. CASE UnwindAtShutdown
  <2>1. Cardinality(Counted)' = Cardinality(Counted)
    BY <1>2, CountedKept DEF UnwindAtShutdown
  <2>2. word' = [word EXCEPT !.count = @ - shutter.n] /\ shutter.n <= word.count
    BY <1>2, Bounds DEF UnwindAtShutdown, DecrementBy, FetchSub
  <2>3. word' = [shutting |-> word.shutting, accepting |-> word.accepting,
                count |-> word.count - shutter.n]
    BY <2>2
  <2>4. TypeOK'
    BY <1>2, <2>2, <2>3, LimitsAssumption DEF UnwindAtShutdown
  <2>5. CountExact'
    BY <1>2, <2>1, <2>2, <2>3, Bounds DEF UnwindAtShutdown
  <2>6. Flags' /\ Places' /\ Quiet' /\ WaiterIsOwed'
    BY <1>2, <2>2, <2>3 DEF UnwindAtShutdown, LastOut, ExtractState
  <2> QED
    BY <2>4, <2>5, <2>6
<1>3. CASE SignalFromShutdown
  <2>1. Cardinality(Counted)' = Cardinality(Counted)
    BY <1>3, CountedKept DEF SignalFromShutdown
  <2> QED
    BY <1>3, <2>1 DEF SignalFromShutdown
<1>4. CASE ShutdownReturns
  <2>1. Cardinality(Counted)' = Cardinality(Counted)
    BY <1>4, CountedKept DEF ShutdownReturns
  <2> QED
    BY <1>4, <2>1 DEF ShutdownReturns
<1> QED
  BY <1>1, <1>2, <1>3, <1>4 DEF ShutterStep

LEMMA StutterKeeps == OperationsInv /\ UNCHANGED vars => OperationsInv'
<1>1. UNCHANGED vars => Cardinality(Counted)' = Cardinality(Counted)
  BY CountedKept DEF vars
<1> QED
  BY <1>1 DEF vars, OperationsInv, TypeOK, Flags, Places, Quiet, CountExact,
     WaiterIsOwed, SomeoneSignals, NotUnwound, Running

\* If the attempts fit, the invariant holds in every reachable state.
THEOREM OperationsInvariant == Fits => (Spec => []OperationsInv)
<1>1. Fits /\ OperationsInv /\ [Next]_vars => OperationsInv'
  BY TryBeginKeeps, LeaveKeeps, SignalKeeps, StartKeeps, ShutdownKeeps,
     StutterKeeps DEF Next, ThreadStep
<1>2. Fits => Fits'
  BY DEF Fits
<1> QED
  BY <1>1, <1>2, Initially, PTL DEF Spec

-----------------------------------------------------------------------------
(* The properties.                                                           *)

\* Types: the count stays within its bits, if the attempts fit.
THEOREM TypesHold == Fits => (Spec => []TypeOK)
<1>1. OperationsInv => TypeOK
  BY DEF OperationsInv
<1> QED
  BY <1>1, OperationsInvariant, PTL

\* The count is exact at every step, without overflow or underflow.
THEOREM CountIsExact == Fits => (Spec => []CountExact)
<1>1. OperationsInv => CountExact
  BY DEF OperationsInv
<1> QED
  BY <1>1, OperationsInvariant, PTL

\* A waiting shutdown is never forgotten.
THEOREM WaiterAlwaysOwed == Fits => (Spec => []WaiterIsOwed)
<1>1. OperationsInv => WaiterIsOwed
  BY DEF OperationsInv
<1> QED
  BY <1>1, OperationsInvariant, PTL

\* StartAcceptingOperations reports whether attempts were denied.
THEOREM DenialsReported == Fits => (Spec => []StartReportsDenials)
<1>1. OperationsInv => StartReportsDenials
  BY DEF OperationsInv, Places, StartReportsDenials
<1> QED
  BY <1>1, OperationsInvariant, PTL

\* Every step of the controller is one of the gate or leaves it unchanged.
LEMMA StepRefines ==
    ASSUME Fits, OperationsInv, OperationsInv', [Next]_vars
    PROVE  [Gate!Next]_(Gate!vars)
<1> USE DEF Gate!vars, Phase, Running
<1>1. ASSUME NEW t \in Threads, TryBeginOperation(t)
      PROVE  [Gate!Next]_(Gate!vars)
  <2>1. CASE ExtractState(word) = "accepting"
    <3>1. pc' = [pc EXCEPT ![t] = "running"] /\ pc[t] = "idle"
      BY <1>1, <2>1 DEF TryBeginOperation, Goto
    <3>2. Running' = Running \cup {t} /\ t \notin Running
      BY <3>1 DEF OperationsInv, TypeOK
    <3>3. Phase = "open" /\ Phase' = Phase
      BY <1>1, <2>1 DEF TryBeginOperation, ExtractState, OperationsInv, Flags
    <3>4. Gate!BeginOperation(t)
      BY <3>2, <3>3 DEF Gate!BeginOperation
    <3> QED
      BY <3>4 DEF Gate!Next
  <2>2. CASE ExtractState(word) # "accepting"
    <3>1. Running' = Running
      BY <1>1, <2>2 DEF TryBeginOperation, Goto, OperationsInv, TypeOK
    <3> QED
      BY <1>1, <3>1 DEF TryBeginOperation
  <2> QED
    BY <2>1, <2>2
<1>2. ASSUME NEW t \in Threads, ThreadStep(t)
      PROVE  [Gate!Next]_(Gate!vars)
  <2>1. /\ Phase' = Phase
        /\ \E label \in {"idle", "signal"} : pc' = [pc EXCEPT ![t] = label]
    BY <1>2 DEF ThreadStep, UndoAttempt, ReleaseToken, SignalComplete, Goto
  <2>2. Running' = Running \ {t}
    BY <2>1 DEF OperationsInv, TypeOK
  <2>3. CASE t \in Running
    BY <2>1, <2>2, <2>3 DEF Gate!Next, Gate!EndOperation
  <2>4. CASE t \notin Running
    BY <2>1, <2>2, <2>4
  <2> QED
    BY <2>3, <2>4
<1>3. CASE StartAcceptingOperations
  BY <1>3 DEF StartAcceptingOperations, Gate!Next, Gate!Open
<1>4. CASE StarterStep
  BY <1>4 DEF StarterStep, UnwindRejected, SignalFromStart
<1>5. CASE ShutdownAndWaitForZeroOperations \/ ShutterStep
  <2>1. Running' = Running
    BY <1>5 DEF ShutdownAndWaitForZeroOperations, ShutterStep,
       UnwindAtShutdown, SignalFromShutdown, ShutdownReturns
  <2>2. shutter'.pc = "returned" => Running' = {}
    BY DEF OperationsInv, Quiet
  <2>3. starter' = starter /\ shutter'.pc # "before"
    BY <1>5 DEF ShutdownAndWaitForZeroOperations, ShutterStep,
       UnwindAtShutdown, SignalFromShutdown, ShutdownReturns
  <2>4. CASE shutter'.pc = "returned"
    BY <1>5, <2>1, <2>2, <2>4 DEF Gate!Next, Gate!Finish,
       ShutdownAndWaitForZeroOperations, ShutterStep, UnwindAtShutdown,
       SignalFromShutdown, ShutdownReturns
  <2>5. CASE shutter'.pc # "returned" /\ shutter.pc = "before"
    BY <2>1, <2>3, <2>5 DEF Gate!Next, Gate!Close
  <2>6. CASE shutter'.pc # "returned" /\ shutter.pc # "before"
    BY <1>5, <2>1, <2>3, <2>6 DEF ShutdownAndWaitForZeroOperations,
       ShutterStep, UnwindAtShutdown, SignalFromShutdown, ShutdownReturns
  <2> QED
    BY <2>4, <2>5, <2>6
<1>6. CASE UNCHANGED vars
  BY <1>6 DEF vars
<1> QED
  BY <1>1, <1>2, <1>3, <1>4, <1>5, <1>6 DEF Next

\* Operations run only between the start and the end of the shutdown.
THEOREM ControllerImplementsGate == Fits => (Spec => ImplementsGate)
<1>1. Init => Gate!Init
  BY DEF Init, Gate!Init, Phase, Running
<1>2. Fits /\ OperationsInv /\ OperationsInv' /\ [Next]_vars
        => [Gate!Next]_(Gate!vars)
  BY StepRefines
<1>3. Fits => Fits'
  BY DEF Fits
<1> QED
  BY <1>1, <1>2, <1>3, OperationsInvariant, PTL
  DEF Spec, ImplementsGate, Gate!Spec
=============================================================================
