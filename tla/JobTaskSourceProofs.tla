------------------------ MODULE JobTaskSourceProofs ------------------------
(***************************************************************************)
(* Theorems about JobTaskSource for any set of workers and any bounds.     *)
(***************************************************************************)
EXTENDS JobTaskSource, FiniteSetTheorems, TLAPS

CountedSet == {t \in Threads : Counted(t)}

\* Workers and the owner stay in their own parts of the code.
PCsApart ==
    /\ \A w \in Workers : pc[w] \in WorkerPCs \cup BodyPCs \cup DonePCs
    /\ pc[Owner] \in OwnerPCs \cup BodyPCs \cup {"did"}

\* The owner has seen a positive count exactly while it is counted.
OwnerSeen ==
    /\ pc[Owner] \in {"holding", "promote", "moving", "join"} =>
            seen[Owner].count = 0
    /\ pc[Owner] \in {"check", "await", "awaitMax", "waiting", "leave", "did",
                      "poll", "pollCancel", "item"} => seen[Owner].count > 0

AccountingInv == TypeOK /\ PCsApart /\ OwnerSeen /\ CountAccurate

-----------------------------------------------------------------------------
(* The counted set and its cardinality.                                    *)

\* There are finitely many threads, so the counted set is finite.
LEMMA CountedSetFinite == IsFiniteSet(CountedSet)
<1>1. IsFiniteSet(Threads)
  BY WorkersAssumption, FS_AddElement DEF Threads
<1>2. CountedSet \subseteq Threads
  BY DEF CountedSet
<1> QED
  BY <1>1, <1>2, FS_Subset

\* The count is right after a step that neither counts nor uncounts a thread.
LEMMA CountKept ==
    ASSUME CountAccurate, workerCount' = workerCount,
           \A t \in Threads : Counted(t)' <=> Counted(t)
    PROVE  CountAccurate'
<1>1. CountedSet' = CountedSet
  BY DEF CountedSet
<1> QED
  BY <1>1 DEF CountAccurate, CountedSet

\* The count is right after a thread is counted and the word incremented.
LEMMA CountRaised ==
    ASSUME CountAccurate, NEW x \in Threads,
           workerCount' = workerCount + 1, ~Counted(x), Counted(x)',
           \A t \in Threads \ {x} : Counted(t)' <=> Counted(t)
    PROVE  CountAccurate'
<1>1. CountedSet' = CountedSet \cup {x}
  BY DEF CountedSet
<1>2. x \notin CountedSet
  BY DEF CountedSet
<1>3. Cardinality(CountedSet') = Cardinality(CountedSet) + 1
  BY <1>1, <1>2, CountedSetFinite, FS_AddElement
<1> QED
  BY <1>3 DEF CountAccurate, CountedSet

\* The count is right after a thread is uncounted and the word decremented.
LEMMA CountLowered ==
    ASSUME CountAccurate, NEW x \in Threads,
           workerCount' = workerCount - 1, Counted(x), ~Counted(x)',
           \A t \in Threads \ {x} : Counted(t)' <=> Counted(t)
    PROVE  CountAccurate'
<1>1. CountedSet' = CountedSet \ {x}
  BY DEF CountedSet
<1>2. x \in CountedSet
  BY DEF CountedSet
<1>3. Cardinality(CountedSet') = Cardinality(CountedSet) - 1
  BY <1>1, <1>2, CountedSetFinite, FS_RemoveElement
<1> QED
  BY <1>3 DEF CountAccurate, CountedSet

\* A counted thread makes the count positive.
LEMMA CountedPositive ==
    ASSUME CountAccurate, NEW x \in Threads, Counted(x)
    PROVE  workerCount \in Nat /\ workerCount > 0
<1>1. x \in CountedSet
  BY DEF CountedSet
<1>2. Cardinality(CountedSet) \in Nat /\ Cardinality(CountedSet) # 0
  BY <1>1, CountedSetFinite, FS_CardinalityType, FS_EmptySet
<1> QED
  BY <1>2 DEF CountAccurate, CountedSet

-----------------------------------------------------------------------------
(* Each action preserves the accounting invariant.                          *)

\* The accounting invariant holds initially.
LEMMA AccountingInit == Init => AccountingInv
<1> SUFFICES ASSUME Init PROVE AccountingInv
  OBVIOUS
<1>1. TypeOK /\ PCsApart /\ OwnerSeen
  BY BoundsAssumption, WorkersAssumption
  DEF Init, TypeOK, PCsApart, OwnerSeen, WorkerPCs, BodyPCs, DonePCs, OwnerPCs,
      Seen, NotWaiting, Threads
<1>2. {t \in Threads : Counted(t)} = {}
  BY WorkersAssumption DEF Init, Counted, Threads, BodyPCs
<1>3. CountAccurate
  BY <1>2, FS_EmptySet DEF Init, CountAccurate
<1> QED
  BY <1>1, <1>3 DEF AccountingInv

\* Every action keeps the accounting: the typing parts follow from the action,
\* the count from whether the action counts, uncounts or keeps its thread.
THEOREM AccountingStep == AccountingInv /\ [Next]_vars => AccountingInv'
<1> SUFFICES ASSUME AccountingInv, [Next]_vars PROVE AccountingInv'
  OBVIOUS
<1> DEFINE Typing == TypeOK /\ PCsApart /\ OwnerSeen
           SameThreads == /\ \A u \in Threads : Counted(u)' <=> Counted(u)
                          /\ workerCount' = workerCount
<1>a. ASSUME Typing', SameThreads PROVE AccountingInv'
  BY <1>a, CountKept DEF AccountingInv
<1> HIDE DEF Typing, SameThreads
<1> USE WorkersAssumption, BoundsAssumption
    DEF AccountingInv, TypeOK, PCsApart, OwnerSeen, WorkerPCs, BodyPCs,
        DonePCs, OwnerPCs, Seen, NotWaiting, WaitingForSignal,
        WaitingForYield, Threads, Goto
<1>1. ASSUME NEW w \in Workers, TakeBegin(w) PROVE AccountingInv'
  <2>1. Typing'
    BY <1>1 DEF Typing, TakeBegin, See
  <2>2. SameThreads
    BY <1>1 DEF SameThreads, Counted, TakeBegin, See
  <2> QED
    BY <2>1, <2>2, <1>a
<1>2. ASSUME NEW w \in Workers, TakeEnd(w), MayIncrement(w) PROVE AccountingInv'
  <2>1. Typing'
    BY <1>2 DEF Typing, TakeEnd
  <2>2. ~Counted(w) /\ Counted(w)'
    BY <1>2 DEF Counted, TakeEnd
  <2>3. \A u \in Threads \ {w} : Counted(u)' <=> Counted(u)
    BY <1>2 DEF Counted, TakeEnd
  <2>4. workerCount' = workerCount + 1
    BY <1>2 DEF TakeEnd
  <2> QED
    BY <2>1, <2>2, <2>3, <2>4, CountRaised DEF Typing
<1>3. ASSUME NEW w \in Workers, TakeEnd(w), ~MayIncrement(w) PROVE AccountingInv'
  <2>1. Typing'
    <3>1. /\ pc[w] = "take" /\ pc' = [pc EXCEPT ![w] = "idle"]
          /\ queued' = FALSE
          /\ UNCHANGED <<workerCount, canceled, joinFlag, maxConcurrency,
                         shutdown, seen, budget>>
      BY <1>3 DEF TakeEnd
    <3> QED
      BY <3>1 DEF Typing
  <2>2. SameThreads
    BY <1>3 DEF SameThreads, Counted, TakeEnd
  <2> QED
    BY <2>1, <2>2, <1>a
<1>4. ASSUME NEW w \in Workers, RunOrClear(w) PROVE AccountingInv'
  <2>1. Typing'
    BY <1>4 DEF Typing, RunOrClear
  <2>2. SameThreads
    BY <1>4 DEF SameThreads, Counted, RunOrClear
  <2> QED
    BY <2>1, <2>2, <1>a
<1>5. ASSUME NEW w \in Workers, PoolAsksToYield(w) PROVE AccountingInv'
  <2>1. Typing'
    BY <1>5 DEF Typing, PoolAsksToYield, Spend, BudgetKinds
  <2>2. SameThreads
    BY <1>5 DEF SameThreads, Counted, PoolAsksToYield, Spend, BudgetKinds
  <2> QED
    BY <2>1, <2>2, <1>a
<1>6. ASSUME NEW w \in Workers, DidProcessTask(w) PROVE AccountingInv'
  <2>0. Counted(w) /\ workerCount > 0
    <3>1. Counted(w)
      BY <1>6 DEF Counted, DidProcessTask, See
    <3> QED
      BY <3>1, CountedPositive
  <2>1. Typing'
    BY <2>0, <1>6 DEF Typing, DidProcessTask, See
  <2>2. Counted(w) /\ ~Counted(w)'
    BY <2>0, <1>6 DEF Counted, DidProcessTask, See
  <2>3. \A u \in Threads \ {w} : Counted(u)' <=> Counted(u)
    BY <1>6 DEF Counted, DidProcessTask, See
  <2>4. workerCount' = workerCount - 1
    BY <1>6 DEF DidProcessTask, See
  <2> QED
    BY <2>1, <2>2, <2>3, <2>4, CountLowered DEF Typing
<1>7. ASSUME NEW w \in Workers, DidProcessTaskSignal(w) PROVE AccountingInv'
  <2>1. Typing'
    BY <1>7 DEF Typing, DidProcessTaskSignal, Signaled
  <2>2. SameThreads
    BY <1>7 DEF SameThreads, Counted, DidProcessTaskSignal, Signaled
  <2> QED
    BY <2>1, <2>2, <1>a
<1>8. ASSUME NEW w \in Workers, DidProcessTaskDecide(w) PROVE AccountingInv'
  <2>1. Typing'
    BY <1>8 DEF Typing, DidProcessTaskDecide
  <2>2. SameThreads
    BY <1>8 DEF SameThreads, Counted, DidProcessTaskDecide
  <2> QED
    BY <2>1, <2>2, <1>a
<1>9. ASSUME NEW w \in Workers, ReEnqueueTaskSource(w) PROVE AccountingInv'
  <2>1. Typing'
    BY <1>9 DEF Typing, ReEnqueueTaskSource
  <2>2. SameThreads
    BY <1>9 DEF SameThreads, Counted, ReEnqueueTaskSource
  <2> QED
    BY <2>1, <2>2, <1>a
<1>10. ASSUME NEW t \in Threads, PollJoinFlag(t) PROVE AccountingInv'
  <2>1. Typing'
    BY <1>10 DEF Typing, PollJoinFlag
  <2>2. SameThreads
    BY <1>10 DEF SameThreads, Counted, PollJoinFlag
  <2> QED
    BY <2>1, <2>2, <1>a
<1>11. ASSUME NEW t \in Threads, PollCanceled(t) PROVE AccountingInv'
  <2>1. Typing'
    BY <1>11 DEF Typing, PollCanceled
  <2>2. SameThreads
    BY <1>11 DEF SameThreads, Counted, PollCanceled
  <2> QED
    BY <2>1, <2>2, <1>a
<1>12. ASSUME NEW t \in Threads, ProcessItem(t) PROVE AccountingInv'
  <2>1. Typing'
    BY <1>12 DEF Typing, ProcessItem
  <2>2. SameThreads
    BY <1>12 DEF SameThreads, Counted, ProcessItem
  <2> QED
    BY <2>1, <2>2, <1>a
<1>13. ASSUME NEW t \in Threads, RaiseMaxConcurrency(t) PROVE AccountingInv'
  <2>1. Typing'
    BY <1>13 DEF Typing, RaiseMaxConcurrency, Spend, BudgetKinds
  <2>2. SameThreads
    BY <1>13 DEF SameThreads, Counted, RaiseMaxConcurrency, Spend, BudgetKinds
  <2> QED
    BY <2>1, <2>2, <1>a
<1>14. ASSUME NEW t \in Threads, NotifyLocked(t) PROVE AccountingInv'
  <2>1. Typing'
    BY <1>14 DEF Typing, NotifyLocked, Signaled
  <2>2. SameThreads
    BY <1>14 DEF SameThreads, Counted, NotifyLocked, Signaled
  <2> QED
    BY <2>1, <2>2, <1>a
<1>15. ASSUME NEW t \in Threads, EnqueueJob(t) PROVE AccountingInv'
  <2>1. Typing'
    BY <1>15 DEF Typing, EnqueueJob
  <2>2. SameThreads
    BY <1>15 DEF SameThreads, Counted, EnqueueJob
  <2> QED
    BY <2>1, <2>2, <1>a
<1>16. ASSUME KeepThreadGroup PROVE AccountingInv'
  <2>1. Typing'
    BY <1>16 DEF Typing, KeepThreadGroup
  <2>2. SameThreads
    BY <1>16 DEF SameThreads, Counted, KeepThreadGroup
  <2> QED
    BY <2>1, <2>2, <1>a
<1>17. ASSUME ChangeThreadGroup PROVE AccountingInv'
  <2>1. Typing'
    BY <1>17 DEF Typing, ChangeThreadGroup
  <2>2. SameThreads
    BY <1>17 DEF SameThreads, Counted, ChangeThreadGroup
  <2> QED
    BY <2>1, <2>2, <1>a
<1>18. ASSUME PushToNewThreadGroup PROVE AccountingInv'
  <2>1. Typing'
    BY <1>18 DEF Typing, PushToNewThreadGroup
  <2>2. SameThreads
    BY <1>18 DEF SameThreads, Counted, PushToNewThreadGroup
  <2> QED
    BY <2>1, <2>2, <1>a
<1>19. ASSUME WillJoin PROVE AccountingInv'
  <2>1. Typing'
    BY <1>19 DEF Typing, WillJoin, See
  <2>2. ~Counted(Owner) /\ Counted(Owner)'
    BY <1>19 DEF Counted, WillJoin, See
  <2>3. \A u \in Threads \ {Owner} : Counted(u)' <=> Counted(u)
    BY <1>19 DEF Counted, WillJoin, See
  <2>4. workerCount' = workerCount + 1
    BY <1>19 DEF WillJoin, See
  <2> QED
    BY <2>1, <2>2, <2>3, <2>4, CountRaised DEF Typing
<1>20. ASSUME RunJoinTaskLoad PROVE AccountingInv'
  <2>0. workerCount > 0
    <3>1. Counted(Owner)
      BY <1>20 DEF Counted, RunJoinTaskLoad
    <3> QED
      BY <3>1, CountedPositive
  <2>1. Typing'
    BY <2>0, <1>20 DEF Typing, RunJoinTaskLoad, See
  <2>2. SameThreads
    BY <1>20 DEF SameThreads, Counted, RunJoinTaskLoad, See
  <2> QED
    BY <2>1, <2>2, <1>a
<1>21. ASSUME CheckParticipation PROVE AccountingInv'
  <2>1. Typing'
    BY <1>21 DEF Typing, CheckParticipation
  <2>2. SameThreads
    BY <1>21 DEF SameThreads, Counted, CheckParticipation
  <2> QED
    BY <2>1, <2>2, <1>a
<1>22. ASSUME AwaitLoad PROVE AccountingInv'
  <2>0. workerCount > 0
    <3>1. Counted(Owner)
      BY <1>22 DEF Counted, AwaitLoad
    <3> QED
      BY <3>1, CountedPositive
  <2>1. Typing'
    BY <2>0, <1>22 DEF Typing, AwaitLoad, See
  <2>2. SameThreads
    BY <1>22 DEF SameThreads, Counted, AwaitLoad, See
  <2> QED
    BY <2>1, <2>2, <1>a
<1>23. ASSUME AwaitDone PROVE AccountingInv'
  <2>1. Typing'
    BY <1>23 DEF Typing, AwaitDone
  <2>2. SameThreads
    BY <1>23 DEF SameThreads, Counted, AwaitDone
  <2> QED
    BY <2>1, <2>2, <1>a
<1>24. ASSUME AwaitWorker PROVE AccountingInv'
  <2>1. Typing'
    BY <1>24 DEF Typing, AwaitWorker
  <2>2. SameThreads
    BY <1>24 DEF SameThreads, Counted, AwaitWorker
  <2> QED
    BY <2>1, <2>2, <1>a
<1>25. ASSUME LeaveJob PROVE AccountingInv'
  <2>0. Counted(Owner) /\ workerCount > 0
    <3>1. Counted(Owner)
      BY <1>25 DEF Counted, LeaveJob
    <3> QED
      BY <3>1, CountedPositive
  <2>1. Typing'
    BY <2>0, <1>25 DEF Typing, LeaveJob
  <2>2. Counted(Owner) /\ ~Counted(Owner)'
    BY <2>0, <1>25 DEF Counted, LeaveJob
  <2>3. \A u \in Threads \ {Owner} : Counted(u)' <=> Counted(u)
    BY <1>25 DEF Counted, LeaveJob
  <2>4. workerCount' = workerCount - 1
    BY <1>25 DEF LeaveJob
  <2> QED
    BY <2>1, <2>2, <2>3, <2>4, CountLowered DEF Typing
<1>26. ASSUME RemoveJobTaskSource PROVE AccountingInv'
  <2>1. Typing'
    BY <1>26 DEF Typing, RemoveJobTaskSource
  <2>2. SameThreads
    BY <1>26 DEF SameThreads, Counted, RemoveJobTaskSource
  <2> QED
    BY <2>1, <2>2, <1>a
<1>27. ASSUME NEW cancel \in BOOLEAN, DetachHandle(cancel) \/ JoinHandle(cancel)
      PROVE  AccountingInv'
  <2>1. Typing'
    BY <1>27 DEF Typing, DetachHandle, JoinHandle
  <2>2. SameThreads
    BY <1>27 DEF SameThreads, Counted, DetachHandle, JoinHandle
  <2> QED
    BY <2>1, <2>2, <1>a
<1>28. ASSUME SpuriousWakeup PROVE AccountingInv'
  <2>1. Typing'
    BY <1>28 DEF Typing, SpuriousWakeup, Spend, BudgetKinds
  <2>2. SameThreads
    BY <1>28 DEF SameThreads, Counted, SpuriousWakeup, Spend, BudgetKinds
  <2> QED
    BY <2>1, <2>2, <1>a
<1>29. ASSUME StartShutdown PROVE AccountingInv'
  <2>1. Typing'
    BY <1>29 DEF Typing, StartShutdown, Spend, BudgetKinds
  <2>2. SameThreads
    BY <1>29 DEF SameThreads, Counted, StartShutdown, Spend, BudgetKinds
  <2> QED
    BY <2>1, <2>2, <1>a
<1>30. CASE UNCHANGED vars
  <2>1. Typing'
    BY <1>30 DEF Typing, vars
  <2>2. SameThreads
    BY <1>30 DEF SameThreads, Counted, vars
  <2> QED
    BY <2>1, <2>2, <1>a
<1>31. ASSUME NEW t \in Threads, BodyStep(t) PROVE AccountingInv'
  BY <1>31, <1>10, <1>11, <1>12, <1>13, <1>14, <1>15 DEF BodyStep
<1>32. ASSUME NEW w \in Workers, WorkerStep(w) PROVE AccountingInv'
  BY <1>32, <1>1, <1>2, <1>3, <1>4, <1>5, <1>6, <1>7, <1>8, <1>9 DEF WorkerStep
<1>33. ASSUME JoinStep PROVE AccountingInv'
  BY <1>33, <1>16, <1>17, <1>18, <1>19, <1>20, <1>21,
     <1>22, <1>23, <1>24, <1>25, <1>26 DEF JoinStep
<1> HIDE DEF AccountingInv, Threads
<1> QED
  BY <1>30, <1>31, <1>32, <1>33, <1>27, <1>28, <1>29
  DEF Next, HandleStep

\* The worker count always equals the number of threads it stands for: the
\* lock-free increments of WillRunTask and WillJoin and the decrements of
\* DidProcessTask and of the joining thread never lose or invent one.
THEOREM Accounting == Spec => []AccountingInv
<1> QED
  BY AccountingInit, AccountingStep, PTL DEF Spec

\* In particular the worker count is accurate.
THEOREM CountIsAccurate == Spec => []CountAccurate
<1>1. AccountingInv => CountAccurate
  BY DEF AccountingInv
<1> QED
  BY <1>1, Accounting, PTL

-----------------------------------------------------------------------------
(* Queueing, signalling and cancelation.                                   *)

JobLockPCs == {"signal", "decide", "awaitMax", "leave", "moving"}

\* lock_ is a mutual exclusion lock.
JobLockExclusive ==
    \A t, u \in Threads : pc[t] \in JobLockPCs /\ pc[u] \in JobLockPCs => t = u

\* A thread that read the canceled bit as set read it from the word.
CanceledSeen == \A t \in Threads : seen[t].canceled => canceled

\* While a worker that left the count holds lock_, the count only grows.
ReleaseFloor == \A t \in Threads :
    pc[t] \in {"signal", "decide"} => seen[t].count <= workerCount + 1

\* So it does while the joining thread evaluates its condition.
AwaitFloor == pc[Owner] = "awaitMax" => seen[Owner].count <= workerCount

\* A worker's stale max concurrency is too small only if the thread that
\* raised it has still to enqueue.
TakeFloor == \A w \in Workers :
    pc[w] = "take" /\ maxConcurrency > seen[w].max =>
        \E t \in Threads : pc[t] \in {"raised", "push"}

\* A waiting thread has set the flag.
WaitFlag == pc[Owner] = "waiting" => joinFlag # NotWaiting

\* With the canceled bit seen, the count is frozen until the owner leaves,
\* and it is the owner alone that leaves.
CanceledCount ==
    seen[Owner].canceled =>
        /\ pc[Owner] \in {"awaitMax", "leave"} => workerCount = seen[Owner].count
        /\ pc[Owner] = "leave" => seen[Owner].count = 1
        /\ pc[Owner] \in {"remove", "joined"} => workerCount = 0

JobInv ==
    /\ JobLockExclusive
    /\ CanceledSeen
    /\ ReleaseFloor
    /\ AwaitFloor
    /\ TakeFloor
    /\ WaitFlag
    /\ CanceledCount
    /\ QueuedIfMoreCanRun
    /\ NoLostWakeup

\* A worker that is about to leave the count is part of it.
LEMMA DidPositive ==
    ASSUME AccountingInv, NEW w \in Workers, pc[w] = "did"
    PROVE  workerCount > 0
<1>1. w \in Threads /\ Counted(w)
  BY WorkersAssumption DEF Counted, Threads
<1> QED
  BY <1>1, CountedPositive DEF AccountingInv

\* The actions, expanded in the lemmas below, one lemma for each conjunct.
USE DEF BodyStep, WorkerStep, HandleStep, JoinStep, TakeBegin, TakeEnd,
    MayIncrement, RunOrClear, PoolAsksToYield, DidProcessTask,
    DidProcessTaskSignal, DidProcessTaskDecide, ReEnqueueTaskSource,
    PollJoinFlag, PollCanceled, ProcessItem, RaiseMaxConcurrency, NotifyLocked,
    Signaled, EnqueueJob, DetachHandle, JoinHandle, KeepThreadGroup,
    ChangeThreadGroup, PushToNewThreadGroup, WillJoin, RunJoinTaskLoad,
    CheckParticipation, AwaitLoad, AwaitDone, AwaitWorker, SpuriousWakeup,
    LeaveJob, RemoveJobTaskSource, StartShutdown, Goto, See, JobLockHeld,
    GroupLockHeld, Threads, vars, AccountingInv, TypeOK, PCsApart, Seen

\* lock_ stays exclusive: only a guarded step takes it.
LEMMA JobLockExclusiveStep ==
    AccountingInv /\ JobInv /\ [Next]_vars => JobLockExclusive'
  BY WorkersAssumption, SMTT(60)
  DEF Next, JobInv, JobLockExclusive, JobLockPCs

\* The canceled bit is never reset.
LEMMA CanceledSeenStep ==
    AccountingInv /\ JobInv /\ [Next]_vars => CanceledSeen'
  BY WorkersAssumption, SMTT(60)
  DEF Next, JobInv, CanceledSeen

\* Only a holder of lock_ lowers the count.
LEMMA ReleaseFloorStep ==
    AccountingInv /\ JobInv /\ [Next]_vars => ReleaseFloor'
  BY WorkersAssumption, SMTT(60)
  DEF Next, JobInv, ReleaseFloor, JobLockPCs, JobLockExclusive

\* The joining thread holds lock_ between its two reads.
LEMMA AwaitFloorStep ==
    AccountingInv /\ JobInv /\ [Next]_vars => AwaitFloor'
  BY WorkersAssumption, SMTT(60)
  DEF Next, JobInv, AwaitFloor, JobLockPCs, JobLockExclusive

\* Nobody enqueues while a worker holds the group's lock.
LEMMA TakeFloorStep ==
    AccountingInv /\ JobInv /\ [Next]_vars => TakeFloor'
  BY WorkersAssumption, SMTT(60)
  DEF Next, JobInv, TakeFloor

\* Whoever resets the flag also wakes the waiting thread.
LEMMA WaitFlagStep ==
    AccountingInv /\ JobInv /\ [Next]_vars => WaitFlag'
  BY WorkersAssumption, SMTT(60)
  DEF Next, JobInv, WaitFlag, WaitingForYield, NotWaiting, WaitingForSignal

\* With the canceled bit set nobody enters, and nobody else leaves.
LEMMA CanceledCountStep ==
    AccountingInv /\ JobInv /\ [Next]_vars => CanceledCount'
  BY WorkersAssumption, DidPositive, SMTT(60)
  DEF Next, JobInv, CanceledCount, CanceledSeen, JobLockPCs,
      JobLockExclusive, MayStopWaiting, CanParticipate

\* Where the source may leave the queue or the job may stop being saturated,
\* some thread is bound to queue it.
LEMMA QueuedStep ==
    AccountingInv /\ JobInv /\ [Next]_vars => QueuedIfMoreCanRun'
<1> SUFFICES ASSUME AccountingInv, JobInv, [Next]_vars,
                    MoreCanRun', pc'[Owner] \notin {"remove", "joined"}
             PROVE  queued' \/ \E t \in Threads : WillQueue(t)'
  BY DEF QueuedIfMoreCanRun
<1> DEFINE Goal == queued' \/ \E t \in Threads : WillQueue(t)'
<1> USE WorkersAssumption DEF JobInv, QueuedIfMoreCanRun, MoreCanRun, WillQueue,
    CanceledSeen
<1>1. ASSUME NEW w \in Workers, TakeEnd(w)
      PROVE  Goal
  \* The source is popped only when it looked saturated: TakeFloor.
  BY <1>1 DEF TakeFloor
<1>2. ASSUME NEW w \in Workers, DidProcessTask(w)
      PROVE  Goal
  \* The word before the decrement is at most the max concurrency.
  <2>1. WillQueue(w)'
    BY <1>2
  <2> QED
    BY <2>1
<1>3. ASSUME NEW t \in Threads, ProcessItem(t)
      PROVE  Goal
  \* A pending decision survives a lower max concurrency: ReleaseFloor.
  BY <1>3, SMTT(60) DEF ReleaseFloor
<1>4. ASSUME NEW t \in Threads, RaiseMaxConcurrency(t)
      PROVE  Goal
  BY <1>4
<1>5. ASSUME NEW t \in Threads, BodyStep(t),
             ~ProcessItem(t), ~RaiseMaxConcurrency(t)
      PROVE  Goal
  <2>1. MoreCanRun /\ pc[Owner] \notin {"remove", "joined"}
    BY <1>5
  <2>2. ASSUME NEW u \in Threads, WillQueue(u) PROVE Goal
    BY <1>5, <2>1, <2>2
  <2>3. queued => queued'
    BY <1>5
  <2> QED
    BY <2>1, <2>2, <2>3
<1>6. ASSUME NEW w \in Workers, WorkerStep(w), ~TakeEnd(w), ~DidProcessTask(w)
      PROVE  Goal
  <2>1. MoreCanRun /\ pc[Owner] \notin {"remove", "joined"}
    BY <1>6
  <2>2. ASSUME NEW u \in Threads, WillQueue(u) PROVE Goal
    BY <1>6, <2>1, <2>2
  <2>3. queued => queued'
    BY <1>6
  <2> QED
    BY <2>1, <2>2, <2>3
<1>7. ASSUME JoinStep PROVE Goal
  <2>1. MoreCanRun /\ pc[Owner] \notin {"remove", "joined"}
    BY <1>7
  <2>2. ASSUME NEW u \in Threads, WillQueue(u) PROVE Goal
    BY <1>7, <2>1, <2>2
  <2>3. queued => queued' \/ WillQueue(Owner)'
    BY <1>7
  <2> QED
    BY <2>1, <2>2, <2>3
<1>8. ASSUME HandleStep \/ SpuriousWakeup \/ StartShutdown \/ UNCHANGED vars
      PROVE  Goal
  <2>1. MoreCanRun /\ pc[Owner] \notin {"remove", "joined"}
    BY <1>8
  <2>2. ASSUME NEW u \in Threads, WillQueue(u) PROVE Goal
    BY <1>8, <2>1, <2>2
  <2>3. queued => queued'
    BY <1>8
  <2> QED
    BY <2>1, <2>2, <2>3
<1> QED
  BY <1>1, <1>2, <1>3, <1>4, <1>5, <1>6, <1>7, <1>8 DEF Next

\* The joining thread starts to wait only while its condition is false, and
\* whoever makes the condition true signals afterwards.
LEMMA NoLostWakeupStep ==
    AccountingInv /\ JobInv /\ [Next]_vars => NoLostWakeup'
<1> SUFFICES ASSUME AccountingInv, JobInv, [Next]_vars PROVE NoLostWakeup'
  OBVIOUS
<1> USE WorkersAssumption DEF JobInv, NoLostWakeup, MayStopWaiting, CanParticipate,
    NotWaiting, WaitingForSignal, WaitingForYield
<1>1. ASSUME AwaitWorker PROVE NoLostWakeup'
  BY <1>1 DEF AwaitFloor, CanceledSeen, OwnerSeen
<1>2. ASSUME ~AwaitWorker PROVE NoLostWakeup'
  BY <1>2, WaitFlagStep, SMTT(60) DEF Next, WaitFlag
<1> QED
  BY <1>1, <1>2

\* Nobody holds a lock or has seen anything yet.
LEMMA JobInit == Init => JobInv
<1> SUFFICES ASSUME Init PROVE JobInv
  OBVIOUS
<1>1. JobLockExclusive /\ CanceledSeen /\ ReleaseFloor /\ AwaitFloor /\ TakeFloor
  BY WorkersAssumption DEF Init, JobLockExclusive, JobLockPCs, CanceledSeen,
     ReleaseFloor, AwaitFloor, TakeFloor
<1>2. WaitFlag /\ CanceledCount /\ QueuedIfMoreCanRun /\ NoLostWakeup
  BY WorkersAssumption DEF Init, WaitFlag, CanceledCount, QueuedIfMoreCanRun,
     NoLostWakeup
<1> QED
  BY <1>1, <1>2 DEF JobInv

\* Every step preserves each of the nine conjuncts.
LEMMA JobStep == AccountingInv /\ JobInv /\ [Next]_vars => JobInv'
<1> QED
  BY JobLockExclusiveStep, CanceledSeenStep, ReleaseFloorStep, AwaitFloorStep,
     TakeFloorStep, WaitFlagStep, CanceledCountStep, QueuedStep, NoLostWakeupStep
  DEF JobInv

\* The inductive invariant of a job.
THEOREM JobInvariant == Spec => [](AccountingInv /\ JobInv)
<1> QED
  BY AccountingInit, AccountingStep, JobInit, JobStep, PTL DEF Spec

\* Types, for any workers and bounds.
THEOREM TypesHold == Spec => []TypeOK
<1>1. AccountingInv => TypeOK
  BY DEF AccountingInv
<1> QED
  BY <1>1, Accounting, PTL

\* If the job can run on more threads it is queued or some thread is bound to
\* queue it: no work is stranded.
THEOREM AlwaysQueuedIfMoreCanRun == Spec => []QueuedIfMoreCanRun
<1>1. JobInv => QueuedIfMoreCanRun
  BY DEF JobInv
<1> QED
  BY <1>1, JobInvariant, PTL

\* A joining thread that may stop waiting is owed a signal.
THEOREM NeverLostWakeup == Spec => []NoLostWakeup
<1>1. JobInv => NoLostWakeup
  BY DEF JobInv
<1> QED
  BY <1>1, JobInvariant, PTL

\* After JobHandle::Cancel returned no worker runs the job.
THEOREM CanceledJoinStaysFinal == Spec => []CanceledJoinIsFinal
<1>1. AccountingInv /\ JobInv => CanceledJoinIsFinal
  <2> SUFFICES ASSUME AccountingInv, JobInv, seen[Owner].canceled,
                      pc[Owner] \in {"remove", "joined"},
                      NEW w \in Workers, Counted(w)
               PROVE  FALSE
    BY DEF CanceledJoinIsFinal
  <2>1. workerCount = 0
    BY DEF JobInv, CanceledCount
  <2>2. workerCount > 0
    BY CountedPositive
  <2> QED
    BY <2>1, <2>2
<1> QED
  BY <1>1, JobInvariant, PTL

=============================================================================
