------------------------- MODULE OperationsController -------------------------
(***************************************************************************)
(* task/common/operations_controller: the lock-free gate through which     *)
(* task runners post to a task queue that may be unregistered meanwhile.   *)
(* Threads attempt operations at any time; one thread starts the           *)
(* controller and one shuts it down.  A step is one atomic access to       *)
(* state_and_count_ or one use of shutdown_complete_.                      *)
(***************************************************************************)
EXTENDS Integers, FiniteSets

CONSTANTS
    Threads,       \* threads that attempt operations
    CountLimit,    \* kCountBitMask + 1, the first value the count cannot hold
    MaxRejections  \* bound on the attempts made before the start

ASSUME ThreadsAssumption == IsFiniteSet(Threads)
ASSUME LimitsAssumption == CountLimit \in Nat \ {0} /\ MaxRejections \in Nat

VARIABLES
    word,        \* state_and_count_: its two flag bits and its count
    event,       \* shutdown_complete_ is signaled
    pc,          \* where each thread is
    starter,     \* StartAcceptingOperations: where it is, its num_rejected
    shutter,     \* ShutdownAndWaitForZeroOperations: where it is, its count
    rejections   \* attempts made so far while rejecting

vars == <<word, event, pc, starter, shutter, rejections>>

ThreadPCs == {"idle", "running", "undo", "signal"}
StarterPCs == {"before", "unwind", "signal", "done"}
ShutterPCs == {"before", "unwind", "signal", "wait", "returned"}

TypeOK ==
    /\ word \in [shutting: BOOLEAN, accepting: BOOLEAN, count: 0..CountLimit-1]
    /\ event \in BOOLEAN
    /\ pc \in [Threads -> ThreadPCs]
    /\ starter \in [pc: StarterPCs, n: Nat]
    /\ shutter \in [pc: ShutterPCs, n: Nat]
    /\ rejections \in 0..MaxRejections

Init ==
    /\ word = [shutting |-> FALSE, accepting |-> FALSE, count |-> 0]
    /\ event = FALSE
    /\ pc = [t \in Threads |-> "idle"]
    /\ starter = [pc |-> "before", n |-> 0]
    /\ shutter = [pc |-> "before", n |-> 0]
    /\ rejections = 0

ExtractState(w) ==
    IF w.shutting THEN "shutting"
    ELSE IF w.accepting THEN "accepting" ELSE "rejecting"

\* 32-bit addition: a full count carries into the flag bits above it.
FetchAddOne(w) ==
    IF w.count + 1 < CountLimit
    THEN [w EXCEPT !.count = @ + 1]
    ELSE [shutting |-> w.shutting # w.accepting,
          accepting |-> ~w.accepting,
          count |-> 0]

\* 32-bit subtraction: a count that is too small borrows from the flag bits.
FetchSub(w, n) ==
    IF n <= w.count
    THEN [w EXCEPT !.count = @ - n]
    ELSE [shutting |-> w.shutting = w.accepting,
          accepting |-> ~w.accepting,
          count |-> w.count + CountLimit - n]

\* The first half of DecrementBy; LastOut tells whether the Signal follows.
DecrementBy(n) == word' = FetchSub(word, n)

\* Mutation of LastOut: the state is not tested.
LastOutAnyState(n) == word.count = n

LastOut(n) == ExtractState(word) = "shutting" /\ word.count = n

Goto(t, label) == pc' = [pc EXCEPT ![t] = label]

-----------------------------------------------------------------------------
(* A thread that attempts an operation.                                      *)

TryBeginOperation(t) ==
    /\ pc[t] = "idle"
    /\ word' = FetchAddOne(word)
    /\ \/ /\ ExtractState(word) = "rejecting"
          /\ rejections < MaxRejections
          /\ rejections' = rejections + 1
          /\ UNCHANGED pc
       \/ /\ ExtractState(word) = "accepting"
          /\ Goto(t, "running")
          /\ UNCHANGED rejections
       \/ /\ ExtractState(word) = "shutting"
          /\ Goto(t, "undo")
          /\ UNCHANGED rejections
    /\ UNCHANGED <<event, starter, shutter>>

\* Mutation of UndoAttempt: a denied attempt subtracts, but never signals.
UndoAttemptSilently(t) ==
    /\ pc[t] = "undo"
    /\ DecrementBy(1)
    /\ Goto(t, "idle")
    /\ UNCHANGED <<event, starter, shutter, rejections>>

\* TryBeginOperation came during the shutdown and takes itself back.
UndoAttempt(t) ==
    /\ pc[t] = "undo"
    /\ DecrementBy(1)
    /\ Goto(t, IF LastOut(1) THEN "signal" ELSE "idle")
    /\ UNCHANGED <<event, starter, shutter, rejections>>

\* The operation is over and its token is destroyed.
ReleaseToken(t) ==
    /\ pc[t] = "running"
    /\ DecrementBy(1)
    /\ Goto(t, IF LastOut(1) THEN "signal" ELSE "idle")
    /\ UNCHANGED <<event, starter, shutter, rejections>>

SignalComplete(t) ==
    /\ pc[t] = "signal"
    /\ event' = TRUE
    /\ Goto(t, "idle")
    /\ UNCHANGED <<word, starter, shutter, rejections>>

-----------------------------------------------------------------------------
(* The start, called once and not after the shutdown.                        *)

StartAcceptingOperations ==
    /\ starter.pc = "before"
    /\ shutter.pc = "before"
    /\ word' = [word EXCEPT !.accepting = TRUE]
    /\ starter' = [pc |-> "unwind", n |-> word.count]
    /\ UNCHANGED <<event, pc, shutter, rejections>>

\* num_rejected is kept: StartAcceptingOperations returns whether it is 0.
UnwindRejected ==
    /\ starter.pc = "unwind"
    /\ DecrementBy(starter.n)
    /\ starter' = [pc |-> IF LastOut(starter.n) THEN "signal" ELSE "done",
                   n |-> starter.n]
    /\ UNCHANGED <<event, pc, shutter, rejections>>

SignalFromStart ==
    /\ starter.pc = "signal"
    /\ event' = TRUE
    /\ starter' = [pc |-> "done", n |-> starter.n]
    /\ UNCHANGED <<word, pc, shutter, rejections>>

-----------------------------------------------------------------------------
(* The shutdown, called once.                                                *)

\* The third case, a second shutdown, is a DCHECK(false).
ShutdownAndWaitForZeroOperations ==
    /\ shutter.pc = "before"
    /\ word' = [word EXCEPT !.shutting = TRUE]
    /\ \/ /\ ExtractState(word) = "rejecting"
          /\ shutter' = [pc |-> "unwind", n |-> word.count]
       \/ /\ ExtractState(word) = "accepting"
          /\ shutter' = [pc |-> IF word.count # 0 THEN "wait" ELSE "returned",
                         n |-> 0]
    /\ UNCHANGED <<event, pc, starter, rejections>>

UnwindAtShutdown ==
    /\ shutter.pc = "unwind"
    /\ DecrementBy(shutter.n)
    /\ shutter' = [pc |-> IF LastOut(shutter.n) THEN "signal" ELSE "returned",
                   n |-> shutter.n]
    /\ UNCHANGED <<event, pc, starter, rejections>>

SignalFromShutdown ==
    /\ shutter.pc = "signal"
    /\ event' = TRUE
    /\ shutter' = [pc |-> "returned", n |-> shutter.n]
    /\ UNCHANGED <<word, pc, starter, rejections>>

ShutdownReturns ==
    /\ shutter.pc = "wait"
    /\ event
    /\ shutter' = [pc |-> "returned", n |-> shutter.n]
    /\ UNCHANGED <<word, event, pc, starter, rejections>>

-----------------------------------------------------------------------------
ThreadStep(t) ==
    UndoAttempt(t) \/ ReleaseToken(t) \/ SignalComplete(t)

StarterStep == UnwindRejected \/ SignalFromStart

ShutterStep == UnwindAtShutdown \/ SignalFromShutdown \/ ShutdownReturns

Next ==
    \/ \E t \in Threads : TryBeginOperation(t) \/ ThreadStep(t)
    \/ StartAcceptingOperations \/ StarterStep
    \/ ShutdownAndWaitForZeroOperations \/ ShutterStep

Spec == Init /\ [][Next]_vars

\* A thread inside a call goes on, and every operation ends.
Fairness ==
    /\ \A t \in Threads : WF_vars(ThreadStep(t))
    /\ WF_vars(StarterStep)
    /\ WF_vars(ShutterStep)

LiveSpec == Spec /\ Fairness

-----------------------------------------------------------------------------
(* Properties.                                                               *)

Running == {t \in Threads : pc[t] = "running"}
Counted == {t \in Threads : pc[t] \in {"running", "undo"}}

\* Attempts rejected before the start whose increment is not yet unwound.
NotUnwound ==
    IF starter.pc = "unwind" THEN starter.n
    ELSE IF shutter.pc = "unwind" THEN shutter.n
    ELSE IF starter.pc = "before" /\ shutter.pc = "before" THEN rejections
    ELSE 0

\* The count is exact at every step: the operations in flight, the attempts
\* that have yet to take themselves back and the rejected attempts that have
\* yet to be unwound, with no carry into the flags and no underflow.
CountExact == word.count = Cardinality(Counted) + NotUnwound

\* num_rejected, and so the result of StartAcceptingOperations, tells exactly
\* whether an attempt was denied before (operations_controller.h:91).
StartReportsDenials == starter.pc # "before" => starter.n = rejections

SomeoneSignals ==
    \/ starter.pc = "signal"
    \/ shutter.pc = "signal"
    \/ \E t \in Threads : pc[t] = "signal"

\* A waiting shutdown is never forgotten: it is signaled, or somebody still
\* has to take the count to zero, or the one who did is about to signal.
WaiterIsOwed ==
    shutter.pc = "wait" => event \/ word.count # 0 \/ SomeoneSignals

\* Operations happen after the start and before the shutdown returns: the
\* controller implements the gate.
Phase ==
    IF shutter.pc = "returned" THEN "over"
    ELSE IF shutter.pc # "before" THEN "closing"
    ELSE IF starter.pc # "before" THEN "open" ELSE "closed"
Gate == INSTANCE OperationsGate WITH phase <- Phase, running <- Running
ImplementsGate == Gate!Spec

\* The shutdown returns, unless threads keep attempting forever.
ShutdownEnds ==
    \/ []<>(\E t \in Threads : pc[t] = "undo")
    \/ (shutter.pc \in {"unwind", "signal", "wait"}) ~> (shutter.pc = "returned")
=============================================================================
