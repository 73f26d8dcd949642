------------------------- MODULE TaskTrackerProofs -------------------------
(***************************************************************************)
(* Theorems about TaskTracker for any threads, sequences, behaviours and   *)
(* bounds.                                                                 *)
(***************************************************************************)
EXTENDS TaskTracker, FiniteSetTheorems, TLAPS

AtSequence == {"before", "undo", "undoSignal", "clear", "take", "running",
               "after", "afterSignal", "did", "requeue"}
BeforeTake == {"before", "undo", "undoSignal", "clear", "take", "requeue"}
Locking == {"regCheck", "registering", "now", "push"} \cup UnregisterPCs
Locks(p) == pc[p] \in Locking \/ (pc[p] = "aborted" /\ op[p].fresh)

\* A worker that has a sequence is alone with it, and until it takes the task
\* there is one.
WorkersApart == \A w \in Workers : pc[w] \in AtSequence =>
    /\ op[w].src \notin inPool
    /\ hasWorker[op[w].src] <=> pc[w] # "requeue"
    /\ pc[w] \in BeforeTake => queue[op[w].src] > 0
    /\ \A v \in Workers \ {w} : pc[v] \in AtSequence => op[v].src # op[w].src

\* A sequence has tasks if it is in the pool; if it has tasks or a worker,
\* it is in the pool or at a worker.
SequencesScheduled == \A s \in Sequences :
    /\ s \in inPool => queue[s] > 0 /\ ~hasWorker[s]
    /\ queue[s] > 0 \/ hasWorker[s] =>
         s \in inPool \/ \E w \in Workers : pc[w] \in AtSequence /\ op[w].src = s

\* One poster locks a sequence; one that registers it finds it empty and
\* nowhere else.
PostersApart == \A p \in Posters : Locks(p) =>
    /\ \A q \in Posters \ {p} : Locks(q) => op[q].src # op[p].src
    /\ op[p].fresh => /\ queue[op[p].src] = 0
                      /\ ~hasWorker[op[p].src]
    /\ ~op[p].fresh => queue[op[p].src] > 0 \/ hasWorker[op[p].src]
    /\ pc[p] \in {"regCheck", "registering"} \cup UnregisterPCs => op[p].fresh
    /\ pc[p] \in {"regCheck", "unreg", "unregSignal"} => Blocks(op[p].src)

SchedulingInv == WorkersApart /\ SequencesScheduled /\ PostersApart

\* A fresh source is known only to the poster that registers it, and only
\* SKIP_ON_SHUTDOWN and BLOCK_SHUTDOWN tasks reach the steps that are theirs.
Steps ==
    /\ \A p \in Posters : pc[p] \in {"idle", "checkPost", "accepted"} => ~op[p].fresh
    /\ \A w \in Workers : /\ pc[w] \in {"undo", "undoSignal", "after", "afterSignal"}
                               => Skips(op[w].src)
                          /\ pc[w] \in {"unreg", "unregSignal"} => Blocks(op[w].src)
                          /\ pc[w] = "clear" => ~Blocks(op[w].src)

IdleThreads == \A t \in Threads : pc[t] = "idle" => op[t].src = None

\* Whatever shows that shutdown has begun agrees with where the main thread is.
ShutdownStages ==
    /\ started <=> main \in {"started", "wait", "notify", "callback", "down"}
    /\ event = "none" <=> main \in {"up", "stopped"}
    /\ event = "signaled" => started
    /\ \A t \in Threads : pc[t] \in SignalPCs \cup {"checkPost", "regCheck"} => started

EarlyHold == \A x \in Threads \cup Sequences : early[x] => Holds(x)

\* Once the event is signaled, or somebody is bound to signal it, nobody holds
\* an item that shutdown waits for.
NoEarlyOnceOver ==
    event = "signaled" \/ (\E t \in Threads : pc[t] \in SignalPCs)
      => \A x \in Threads \cup Sequences : ~early[x]

TrackerInv == /\ TypeOK /\ SchedulingInv /\ Steps /\ IdleThreads /\ ShutdownStages
              /\ ItemsExact /\ IncompleteExact /\ EarlyHold /\ NoEarlyOnceOver

-----------------------------------------------------------------------------
(* The steps.                                                              *)

\* What the invariant is about, the counts apart.
threadVars == <<behavior, started, items, event, incomplete, queue, hasWorker,
                inPool, delayed, pc, op, runStep, early>>

\* Fences, flushes and the parts of Shutdown that only wait or notify.
OtherStep ==
    /\ UNCHANGED threadVars
    /\ \/ main' = main
       \/ main = "up" /\ main' = "stopped"
       \/ main = "started" /\ main' = "wait"
       \/ main = "wait" /\ main' = "notify"
       \/ main = "notify" /\ main' = "callback"
       \/ main = "callback" /\ main' = "down"

\* Every step is one of those listed here.
LEMMA StepCases ==
    ASSUME [Next]_vars
    PROVE  \/ \E p \in Posters, s \in Sequences, parent \in Workers \cup {None} :
                PostTask(p, s, parent) \/ PostDelayedTask(p, s, parent)
           \/ \E s \in Sequences : ProcessRipeTask(s)
           \/ \E p \in Posters :
                \/ CheckPost(p) \/ RegisterTaskSource(p) \/ CheckRegister(p)
                \/ CountIncomplete(p) \/ WillPostTaskNow(p) \/ PushTask(p)
           \/ \E w \in Workers :
                \/ BeforeRunTask(w) \/ UndoBeforeRunTask(w) \/ TakeTask(w)
                \/ ClearTasks(w) \/ FinishTask(w) \/ AfterRunTask(w)
                \/ DidProcessTask(w) \/ ReEnqueue(w)
                \/ \E s \in Sequences : TakeTaskSource(w, s)
           \/ \E t \in Threads :
                \/ UnregisterItem(t) \/ SignalShutdownEvent(t)
                \/ DecrementIncomplete(t) \/ NotifyFlush(t) \/ CallFlushCallback(t)
           \/ StartShutdown \/ CreateShutdownEvent \/ OtherStep
<1> USE DEF OtherStep, threadVars, trackerVars, poolVars, flushVars, UnchangedButFlush
<1>1. ASSUME NEW kind \in {"all", "bestEffort"}, ChangeFence(kind) PROVE OtherStep
  BY <1>1 DEF ChangeFence
<1>2. ASSUME StopServiceThread \/ UpdateCanRunPolicy \/ WaitShutdownEvent PROVE OtherStep
  BY <1>2 DEF StopServiceThread, UpdateCanRunPolicy, WaitShutdownEvent
<1>3. ASSUME CompleteShutdownSignal \/ CompleteShutdownCallback PROVE OtherStep
  BY <1>3 DEF CompleteShutdownSignal, CompleteShutdownCallback
<1>4. ASSUME NEW f \in Flushers, StartFlush(f) \/ FlushLoad(f) \/ FlushCheck(f)
      PROVE  OtherStep
  BY <1>4 DEF StartFlush, FlushLoad, FlushCheck
<1>5. ASSUME FlushAsync \/ FlushAsyncLoad \/ FlushAsyncCheck \/ FlushAsyncTake
      PROVE  OtherStep
  BY <1>5 DEF FlushAsync, FlushAsyncLoad, FlushAsyncCheck, FlushAsyncTake
<1>6. ASSUME UNCHANGED vars PROVE OtherStep
  BY <1>6 DEF vars
<1> QED
  BY <1>1, <1>2, <1>3, <1>4, <1>5, <1>6
  DEF Next, Post, PosterStep, WorkerStep, ReleaseStep, MainStep, FlushStep, AsyncStep

-----------------------------------------------------------------------------
\* Every step keeps the operations where their threads are.
LEMMA StepsStep == ASSUME TrackerInv, [Next]_vars PROVE Steps'
<1> USE ThreadsAssumption DEF Threads, TrackerInv, TypeOK, Goto, Return, Blocks, Skips,
        Operation, NoOperation, Posting, Running,
        trackerVars, poolVars, flushVars, OtherStep, threadVars,
        PosterPCs, WorkerPCs, UnregisterPCs, SignalPCs, Steps
<1>1. ASSUME NEW p \in Posters, NEW s \in Sequences, NEW parent \in Workers \cup {None},
              PostTask(p, s, parent)
       PROVE   Steps'
  BY <1>1 DEF PostTask, MayPost
<1>2. ASSUME NEW p \in Posters, NEW s \in Sequences, NEW parent \in Workers \cup {None},
              PostDelayedTask(p, s, parent)
       PROVE   Steps'
  BY <1>2 DEF PostDelayedTask, MayPost
<1>3. ASSUME NEW s \in Sequences, ProcessRipeTask(s) PROVE Steps'
  BY <1>3 DEF ProcessRipeTask
<1>4. ASSUME NEW p \in Posters, CheckPost(p) PROVE Steps'
  BY <1>4 DEF CheckPost, CheckEvent
<1>5. ASSUME NEW p \in Posters, RegisterTaskSource(p) PROVE Steps'
  BY <1>5 DEF RegisterTaskSource, WillPushTask
<1>6. ASSUME NEW p \in Posters, CheckRegister(p) PROVE Steps'
  BY <1>6 DEF CheckRegister, CheckEvent
<1>7. ASSUME NEW p \in Posters, CountIncomplete(p) PROVE Steps'
  BY <1>7 DEF CountIncomplete
<1>8. ASSUME NEW p \in Posters, WillPostTaskNow(p) PROVE Steps'
  BY <1>8 DEF WillPostTaskNow
<1>9. ASSUME NEW p \in Posters, PushTask(p) PROVE Steps'
  BY <1>9 DEF PushTask
<1>10. ASSUME NEW w \in Workers, NEW s \in Sequences, TakeTaskSource(w, s)
       PROVE   Steps'
  BY <1>10 DEF TakeTaskSource
<1>11. ASSUME NEW w \in Workers, BeforeRunTask(w) PROVE Steps'
  BY <1>11 DEF BeforeRunTask
<1>12. ASSUME NEW w \in Workers, UndoBeforeRunTask(w) PROVE Steps'
  BY <1>12 DEF UndoBeforeRunTask, DecrementItems
<1>13. ASSUME NEW w \in Workers, TakeTask(w) PROVE Steps'
  BY <1>13 DEF TakeTask
<1>14. ASSUME NEW w \in Workers, ClearTasks(w) PROVE Steps'
  BY <1>14 DEF ClearTasks
<1>15. ASSUME NEW w \in Workers, FinishTask(w) PROVE Steps'
  BY <1>15 DEF FinishTask
<1>16. ASSUME NEW w \in Workers, AfterRunTask(w) PROVE Steps'
  BY <1>16 DEF AfterRunTask, DecrementItems
<1>17. ASSUME NEW w \in Workers, DidProcessTask(w) PROVE Steps'
  BY <1>17 DEF DidProcessTask
<1>18. ASSUME NEW w \in Workers, ReEnqueue(w) PROVE Steps'
  BY <1>18 DEF ReEnqueue
<1>19. ASSUME NEW t \in Threads, UnregisterItem(t) PROVE Steps'
  BY <1>19 DEF UnregisterItem, DecrementItems
<1>20. ASSUME NEW t \in Threads, SignalShutdownEvent(t) PROVE Steps'
  BY <1>20 DEF SignalShutdownEvent
<1>21. ASSUME NEW t \in Threads, DecrementIncomplete(t) PROVE Steps'
  BY <1>21 DEF DecrementIncomplete
<1>22. ASSUME NEW t \in Threads, NotifyFlush(t) PROVE Steps'
  BY <1>22 DEF NotifyFlush, SignalFlush
<1>23. ASSUME NEW t \in Threads, CallFlushCallback(t) PROVE Steps'
  BY <1>23 DEF CallFlushCallback, RunFlushCallback
<1>24. ASSUME StartShutdown PROVE Steps'
  BY <1>24 DEF StartShutdown
<1>25. ASSUME CreateShutdownEvent PROVE Steps'
  BY <1>25 DEF CreateShutdownEvent
<1>26. ASSUME OtherStep PROVE Steps'
  BY <1>26 DEF OtherStep
<1> HIDE ThreadsAssumption DEF Threads, TrackerInv, TypeOK, Goto, Return, Blocks, Skips,
        Operation, NoOperation, Posting, Running,
        trackerVars, poolVars, flushVars, OtherStep, threadVars,
        PosterPCs, WorkerPCs, UnregisterPCs, SignalPCs, Steps
<1> QED
  BY <1>1, <1>2, <1>3, <1>4, <1>5, <1>6, <1>7, <1>8, <1>9, <1>10, <1>11, <1>12, <1>13, <1>14, <1>15, <1>16, <1>17, <1>18, <1>19, <1>20, <1>21, <1>22, <1>23, <1>24, <1>25, <1>26, StepCases

\* An idle thread has no operation after any step.
LEMMA IdleStep == ASSUME TrackerInv, [Next]_vars PROVE IdleThreads'
<1> USE ThreadsAssumption DEF Threads, TrackerInv, TypeOK, Goto, Return, Blocks, Skips,
        Operation, NoOperation, Posting, Running,
        trackerVars, poolVars, flushVars, OtherStep, threadVars,
        PosterPCs, WorkerPCs, UnregisterPCs, SignalPCs, IdleThreads
<1>1. ASSUME NEW p \in Posters, NEW s \in Sequences, NEW parent \in Workers \cup {None},
              PostTask(p, s, parent)
       PROVE   IdleThreads'
  BY <1>1 DEF PostTask, MayPost
<1>2. ASSUME NEW p \in Posters, NEW s \in Sequences, NEW parent \in Workers \cup {None},
              PostDelayedTask(p, s, parent)
       PROVE   IdleThreads'
  BY <1>2 DEF PostDelayedTask, MayPost
<1>3. ASSUME NEW s \in Sequences, ProcessRipeTask(s) PROVE IdleThreads'
  BY <1>3 DEF ProcessRipeTask
<1>4. ASSUME NEW p \in Posters, CheckPost(p) PROVE IdleThreads'
  BY <1>4 DEF CheckPost, CheckEvent
<1>5. ASSUME NEW p \in Posters, RegisterTaskSource(p) PROVE IdleThreads'
  BY <1>5 DEF RegisterTaskSource, WillPushTask
<1>6. ASSUME NEW p \in Posters, CheckRegister(p) PROVE IdleThreads'
  BY <1>6 DEF CheckRegister, CheckEvent
<1>7. ASSUME NEW p \in Posters, CountIncomplete(p) PROVE IdleThreads'
  BY <1>7 DEF CountIncomplete
<1>8. ASSUME NEW p \in Posters, WillPostTaskNow(p) PROVE IdleThreads'
  BY <1>8 DEF WillPostTaskNow
<1>9. ASSUME NEW p \in Posters, PushTask(p) PROVE IdleThreads'
  BY <1>9 DEF PushTask
<1>10. ASSUME NEW w \in Workers, NEW s \in Sequences, TakeTaskSource(w, s)
       PROVE   IdleThreads'
  BY <1>10 DEF TakeTaskSource
<1>11. ASSUME NEW w \in Workers, BeforeRunTask(w) PROVE IdleThreads'
  BY <1>11 DEF BeforeRunTask
<1>12. ASSUME NEW w \in Workers, UndoBeforeRunTask(w) PROVE IdleThreads'
  BY <1>12 DEF UndoBeforeRunTask, DecrementItems
<1>13. ASSUME NEW w \in Workers, TakeTask(w) PROVE IdleThreads'
  BY <1>13 DEF TakeTask
<1>14. ASSUME NEW w \in Workers, ClearTasks(w) PROVE IdleThreads'
  BY <1>14 DEF ClearTasks
<1>15. ASSUME NEW w \in Workers, FinishTask(w) PROVE IdleThreads'
  BY <1>15 DEF FinishTask
<1>16. ASSUME NEW w \in Workers, AfterRunTask(w) PROVE IdleThreads'
  BY <1>16 DEF AfterRunTask, DecrementItems
<1>17. ASSUME NEW w \in Workers, DidProcessTask(w) PROVE IdleThreads'
  BY <1>17 DEF DidProcessTask
<1>18. ASSUME NEW w \in Workers, ReEnqueue(w) PROVE IdleThreads'
  BY <1>18 DEF ReEnqueue
<1>19. ASSUME NEW t \in Threads, UnregisterItem(t) PROVE IdleThreads'
  BY <1>19 DEF UnregisterItem, DecrementItems
<1>20. ASSUME NEW t \in Threads, SignalShutdownEvent(t) PROVE IdleThreads'
  BY <1>20 DEF SignalShutdownEvent
<1>21. ASSUME NEW t \in Threads, DecrementIncomplete(t) PROVE IdleThreads'
  BY <1>21 DEF DecrementIncomplete
<1>22. ASSUME NEW t \in Threads, NotifyFlush(t) PROVE IdleThreads'
  BY <1>22 DEF NotifyFlush, SignalFlush
<1>23. ASSUME NEW t \in Threads, CallFlushCallback(t) PROVE IdleThreads'
  BY <1>23 DEF CallFlushCallback, RunFlushCallback
<1>24. ASSUME StartShutdown PROVE IdleThreads'
  BY <1>24 DEF StartShutdown
<1>25. ASSUME CreateShutdownEvent PROVE IdleThreads'
  BY <1>25 DEF CreateShutdownEvent
<1>26. ASSUME OtherStep PROVE IdleThreads'
  BY <1>26 DEF OtherStep
<1> HIDE ThreadsAssumption DEF Threads, TrackerInv, TypeOK, Goto, Return, Blocks, Skips,
        Operation, NoOperation, Posting, Running,
        trackerVars, poolVars, flushVars, OtherStep, threadVars,
        PosterPCs, WorkerPCs, UnregisterPCs, SignalPCs, IdleThreads
<1> QED
  BY <1>1, <1>2, <1>3, <1>4, <1>5, <1>6, <1>7, <1>8, <1>9, <1>10, <1>11, <1>12, <1>13, <1>14, <1>15, <1>16, <1>17, <1>18, <1>19, <1>20, <1>21, <1>22, <1>23, <1>24, <1>25, <1>26, StepCases

\* Every step keeps the workers apart.
LEMMA WorkersStep == ASSUME TrackerInv, [Next]_vars PROVE WorkersApart'
<1> USE ThreadsAssumption DEF Threads, TrackerInv, TypeOK, Goto, Return, Blocks, Skips,
        Operation, NoOperation, Posting, Running,
        trackerVars, poolVars, flushVars, OtherStep, threadVars,
        PosterPCs, WorkerPCs, UnregisterPCs, SignalPCs,
        SchedulingInv, WorkersApart, SequencesScheduled, PostersApart, Steps,
        AtSequence, BeforeTake, Locks, Locking, SequenceLockHeld
<1>1. ASSUME NEW p \in Posters, NEW s \in Sequences, NEW parent \in Workers \cup {None},
              PostTask(p, s, parent)
       PROVE   WorkersApart'
  BY <1>1 DEF PostTask, MayPost
<1>2. ASSUME NEW p \in Posters, NEW s \in Sequences, NEW parent \in Workers \cup {None},
              PostDelayedTask(p, s, parent)
       PROVE   WorkersApart'
  BY <1>2 DEF PostDelayedTask, MayPost
<1>3. ASSUME NEW s \in Sequences, ProcessRipeTask(s) PROVE WorkersApart'
  BY <1>3 DEF ProcessRipeTask
<1>4. ASSUME NEW p \in Posters, CheckPost(p) PROVE WorkersApart'
  BY <1>4 DEF CheckPost, CheckEvent
<1>5. ASSUME NEW p \in Posters, RegisterTaskSource(p) PROVE WorkersApart'
  BY <1>5 DEF RegisterTaskSource, WillPushTask
<1>6. ASSUME NEW p \in Posters, CheckRegister(p) PROVE WorkersApart'
  BY <1>6 DEF CheckRegister, CheckEvent
<1>7. ASSUME NEW p \in Posters, CountIncomplete(p) PROVE WorkersApart'
  BY <1>7 DEF CountIncomplete
<1>8. ASSUME NEW p \in Posters, WillPostTaskNow(p) PROVE WorkersApart'
  BY <1>8 DEF WillPostTaskNow
<1>9. ASSUME NEW p \in Posters, PushTask(p) PROVE WorkersApart'
  <2>1. CASE op[p].fresh
    <3>1. \A w \in Workers : pc[w] \in AtSequence => op[w].src # op[p].src
      BY <2>1, <1>9 DEF PushTask
    <3> QED
      BY <2>1, <3>1, <1>9 DEF PushTask
  <2>2. CASE ~op[p].fresh
    BY <2>2, <1>9 DEF PushTask
  <2> QED
    BY <2>1, <2>2
<1>10. ASSUME NEW w \in Workers, NEW s \in Sequences, TakeTaskSource(w, s)
       PROVE   WorkersApart'
  BY <1>10 DEF TakeTaskSource
<1>11. ASSUME NEW w \in Workers, BeforeRunTask(w) PROVE WorkersApart'
  BY <1>11 DEF BeforeRunTask
<1>12. ASSUME NEW w \in Workers, UndoBeforeRunTask(w) PROVE WorkersApart'
  BY <1>12 DEF UndoBeforeRunTask, DecrementItems
<1>13. ASSUME NEW w \in Workers, TakeTask(w) PROVE WorkersApart'
  BY <1>13 DEF TakeTask
<1>14. ASSUME NEW w \in Workers, ClearTasks(w) PROVE WorkersApart'
  BY <1>14 DEF ClearTasks
<1>15. ASSUME NEW w \in Workers, FinishTask(w) PROVE WorkersApart'
  BY <1>15 DEF FinishTask
<1>16. ASSUME NEW w \in Workers, AfterRunTask(w) PROVE WorkersApart'
  BY <1>16 DEF AfterRunTask, DecrementItems
<1>17. ASSUME NEW w \in Workers, DidProcessTask(w) PROVE WorkersApart'
  BY <1>17 DEF DidProcessTask
<1>18. ASSUME NEW w \in Workers, ReEnqueue(w) PROVE WorkersApart'
  BY <1>18 DEF ReEnqueue
<1>19. ASSUME NEW t \in Threads, UnregisterItem(t) PROVE WorkersApart'
  BY <1>19 DEF UnregisterItem, DecrementItems
<1>20. ASSUME NEW t \in Threads, SignalShutdownEvent(t) PROVE WorkersApart'
  BY <1>20 DEF SignalShutdownEvent
<1>21. ASSUME NEW t \in Threads, DecrementIncomplete(t) PROVE WorkersApart'
  BY <1>21 DEF DecrementIncomplete
<1>22. ASSUME NEW t \in Threads, NotifyFlush(t) PROVE WorkersApart'
  BY <1>22 DEF NotifyFlush, SignalFlush
<1>23. ASSUME NEW t \in Threads, CallFlushCallback(t) PROVE WorkersApart'
  BY <1>23 DEF CallFlushCallback, RunFlushCallback
<1>24. ASSUME StartShutdown PROVE WorkersApart'
  BY <1>24 DEF StartShutdown
<1>25. ASSUME CreateShutdownEvent PROVE WorkersApart'
  BY <1>25 DEF CreateShutdownEvent
<1>26. ASSUME OtherStep PROVE WorkersApart'
  BY <1>26 DEF OtherStep
<1> HIDE ThreadsAssumption DEF Threads, TrackerInv, TypeOK, Goto, Return, Blocks, Skips,
        Operation, NoOperation, Posting, Running,
        trackerVars, poolVars, flushVars, OtherStep, threadVars,
        PosterPCs, WorkerPCs, UnregisterPCs, SignalPCs,
        SchedulingInv, WorkersApart, SequencesScheduled, PostersApart, Steps,
        AtSequence, BeforeTake, Locks, Locking, SequenceLockHeld
<1> QED
  BY <1>1, <1>2, <1>3, <1>4, <1>5, <1>6, <1>7, <1>8, <1>9, <1>10, <1>11, <1>12, <1>13, <1>14, <1>15, <1>16, <1>17, <1>18, <1>19, <1>20, <1>21, <1>22, <1>23, <1>24, <1>25, <1>26, StepCases

\* Sequences stay scheduled when nothing they depend on changes.
LEMMA SequencesKept ==
    ASSUME SequencesScheduled, UNCHANGED <<inPool, queue, hasWorker>>,
           \A w \in Workers : pc'[w] = pc[w] /\ op'[w] = op[w]
    PROVE  SequencesScheduled'
BY DEF SequencesScheduled

\* Sequences stay scheduled when a task is pushed to one that is, or that then
\* enters the pool.
LEMMA SequencesPushed ==
    ASSUME SequencesScheduled, queue \in [Sequences -> Nat], NEW s \in Sequences,
           queue' = [queue EXCEPT ![s] = @ + 1], UNCHANGED hasWorker,
           \/ inPool' = inPool \cup {s} /\ ~hasWorker[s]
           \/ inPool' = inPool /\ (queue[s] > 0 \/ hasWorker[s]),
           \A w \in Workers : pc'[w] = pc[w] /\ op'[w] = op[w]
    PROVE  SequencesScheduled'
BY DEF SequencesScheduled

\* Every step keeps sequences scheduled.
LEMMA SequencesStep == ASSUME TrackerInv, [Next]_vars PROVE SequencesScheduled'
<1> USE ThreadsAssumption DEF Threads, TrackerInv, TypeOK, Goto, Return, Blocks, Skips,
        Operation, NoOperation, Posting, Running,
        trackerVars, poolVars, flushVars, OtherStep, threadVars,
        PosterPCs, WorkerPCs, UnregisterPCs, SignalPCs,
        SchedulingInv, WorkersApart, SequencesScheduled, PostersApart, Steps,
        AtSequence, BeforeTake, Locks, Locking, SequenceLockHeld
<1>1. ASSUME NEW p \in Posters, NEW s \in Sequences, NEW parent \in Workers \cup {None},
              PostTask(p, s, parent)
       PROVE   SequencesScheduled'
  <2>1. \A w \in Workers : pc'[w] = pc[w] /\ op'[w] = op[w]
    BY <1>1 DEF PostTask, MayPost
  <2>2. UNCHANGED <<inPool, queue, hasWorker>>
    BY <1>1 DEF PostTask, MayPost
  <2> QED
    BY <2>1, <2>2, SequencesKept
<1>2. ASSUME NEW p \in Posters, NEW s \in Sequences, NEW parent \in Workers \cup {None},
              PostDelayedTask(p, s, parent)
       PROVE   SequencesScheduled'
  BY <1>2 DEF PostDelayedTask, MayPost
<1>3. ASSUME NEW s \in Sequences, ProcessRipeTask(s) PROVE SequencesScheduled'
  BY <1>3 DEF ProcessRipeTask
<1>4. ASSUME NEW p \in Posters, CheckPost(p) PROVE SequencesScheduled'
  <2>1. \A w \in Workers : pc'[w] = pc[w] /\ op'[w] = op[w]
    BY <1>4 DEF CheckPost, CheckEvent
  <2>2. UNCHANGED <<inPool, queue, hasWorker>>
    BY <1>4 DEF CheckPost, CheckEvent
  <2> QED
    BY <2>1, <2>2, SequencesKept
<1>5. ASSUME NEW p \in Posters, RegisterTaskSource(p) PROVE SequencesScheduled'
  <2>1. \A w \in Workers : pc'[w] = pc[w] /\ op'[w] = op[w]
    BY <1>5 DEF RegisterTaskSource, WillPushTask
  <2>2. UNCHANGED <<inPool, queue, hasWorker>>
    BY <1>5 DEF RegisterTaskSource, WillPushTask
  <2> QED
    BY <2>1, <2>2, SequencesKept
<1>6. ASSUME NEW p \in Posters, CheckRegister(p) PROVE SequencesScheduled'
  <2>1. \A w \in Workers : pc'[w] = pc[w] /\ op'[w] = op[w]
    BY <1>6 DEF CheckRegister, CheckEvent
  <2>2. UNCHANGED <<inPool, queue, hasWorker>>
    BY <1>6 DEF CheckRegister, CheckEvent
  <2> QED
    BY <2>1, <2>2, SequencesKept
<1>7. ASSUME NEW p \in Posters, CountIncomplete(p) PROVE SequencesScheduled'
  BY <1>7 DEF CountIncomplete
<1>8. ASSUME NEW p \in Posters, WillPostTaskNow(p) PROVE SequencesScheduled'
  <2>1. \A w \in Workers : pc'[w] = pc[w] /\ op'[w] = op[w]
    BY <1>8 DEF WillPostTaskNow
  <2>2. UNCHANGED <<inPool, queue, hasWorker>>
    BY <1>8 DEF WillPostTaskNow
  <2> QED
    BY <2>1, <2>2, SequencesKept
<1>9. ASSUME NEW p \in Posters, PushTask(p) PROVE SequencesScheduled'
  <2>1. \A w \in Workers : pc'[w] = pc[w] /\ op'[w] = op[w]
    BY <1>9 DEF PushTask
  <2>2. /\ op[p].src \in Sequences /\ queue \in [Sequences -> Nat]
        /\ queue' = [queue EXCEPT ![op[p].src] = @ + 1] /\ UNCHANGED hasWorker
    BY <1>9 DEF PushTask
  <2>3. \/ inPool' = inPool \cup {op[p].src} /\ ~hasWorker[op[p].src]
        \/ inPool' = inPool /\ (queue[op[p].src] > 0 \/ hasWorker[op[p].src])
    BY <1>9 DEF PushTask
  <2>4. SequencesScheduled
    OBVIOUS
  <2> QED
    BY <2>1, <2>2, <2>3, <2>4, SequencesPushed
<1>10. ASSUME NEW w \in Workers, NEW s \in Sequences, TakeTaskSource(w, s)
       PROVE   SequencesScheduled'
  BY <1>10 DEF TakeTaskSource
<1>11. ASSUME NEW w \in Workers, BeforeRunTask(w) PROVE SequencesScheduled'
  BY <1>11 DEF BeforeRunTask
<1>12. ASSUME NEW w \in Workers, UndoBeforeRunTask(w) PROVE SequencesScheduled'
  BY <1>12 DEF UndoBeforeRunTask, DecrementItems
<1>13. ASSUME NEW w \in Workers, TakeTask(w) PROVE SequencesScheduled'
  BY <1>13 DEF TakeTask
<1>14. ASSUME NEW w \in Workers, ClearTasks(w) PROVE SequencesScheduled'
  BY <1>14 DEF ClearTasks
<1>15. ASSUME NEW w \in Workers, FinishTask(w) PROVE SequencesScheduled'
  BY <1>15 DEF FinishTask
<1>16. ASSUME NEW w \in Workers, AfterRunTask(w) PROVE SequencesScheduled'
  BY <1>16 DEF AfterRunTask, DecrementItems
<1>17. ASSUME NEW w \in Workers, DidProcessTask(w) PROVE SequencesScheduled'
  BY <1>17 DEF DidProcessTask
<1>18. ASSUME NEW w \in Workers, ReEnqueue(w) PROVE SequencesScheduled'
  BY <1>18 DEF ReEnqueue
<1>19. ASSUME NEW t \in Threads, UnregisterItem(t) PROVE SequencesScheduled'
  BY <1>19 DEF UnregisterItem, DecrementItems
<1>20. ASSUME NEW t \in Threads, SignalShutdownEvent(t)
       PROVE   SequencesScheduled'
  BY <1>20 DEF SignalShutdownEvent
<1>21. ASSUME NEW t \in Threads, DecrementIncomplete(t)
       PROVE   SequencesScheduled'
  BY <1>21 DEF DecrementIncomplete
<1>22. ASSUME NEW t \in Threads, NotifyFlush(t) PROVE SequencesScheduled'
  BY <1>22 DEF NotifyFlush, SignalFlush
<1>23. ASSUME NEW t \in Threads, CallFlushCallback(t) PROVE SequencesScheduled'
  BY <1>23 DEF CallFlushCallback, RunFlushCallback
<1>24. ASSUME StartShutdown PROVE SequencesScheduled'
  BY <1>24 DEF StartShutdown
<1>25. ASSUME CreateShutdownEvent PROVE SequencesScheduled'
  BY <1>25 DEF CreateShutdownEvent
<1>26. ASSUME OtherStep PROVE SequencesScheduled'
  BY <1>26 DEF OtherStep
<1> HIDE ThreadsAssumption DEF Threads, TrackerInv, TypeOK, Goto, Return, Blocks, Skips,
        Operation, NoOperation, Posting, Running,
        trackerVars, poolVars, flushVars, OtherStep, threadVars,
        PosterPCs, WorkerPCs, UnregisterPCs, SignalPCs,
        SchedulingInv, WorkersApart, SequencesScheduled, PostersApart, Steps,
        AtSequence, BeforeTake, Locks, Locking, SequenceLockHeld
<1> QED
  BY <1>1, <1>2, <1>3, <1>4, <1>5, <1>6, <1>7, <1>8, <1>9, <1>10, <1>11, <1>12, <1>13, <1>14, <1>15, <1>16, <1>17, <1>18, <1>19, <1>20, <1>21, <1>22, <1>23, <1>24, <1>25, <1>26, StepCases

\* Every step keeps the posters apart.
LEMMA PostersStep == ASSUME TrackerInv, [Next]_vars PROVE PostersApart'
<1> USE ThreadsAssumption DEF Threads, TrackerInv, TypeOK, Goto, Return, Blocks, Skips,
        Operation, NoOperation, Posting, Running,
        trackerVars, poolVars, flushVars, OtherStep, threadVars,
        PosterPCs, WorkerPCs, UnregisterPCs, SignalPCs,
        SchedulingInv, WorkersApart, SequencesScheduled, PostersApart, Steps,
        AtSequence, BeforeTake, Locks, Locking, SequenceLockHeld
<1>1. ASSUME NEW p \in Posters, NEW s \in Sequences, NEW parent \in Workers \cup {None},
              PostTask(p, s, parent)
       PROVE   PostersApart'
  BY <1>1 DEF PostTask, MayPost
<1>2. ASSUME NEW p \in Posters, NEW s \in Sequences, NEW parent \in Workers \cup {None},
              PostDelayedTask(p, s, parent)
       PROVE   PostersApart'
  BY <1>2 DEF PostDelayedTask, MayPost
<1>3. ASSUME NEW s \in Sequences, ProcessRipeTask(s) PROVE PostersApart'
  BY <1>3 DEF ProcessRipeTask
<1>4. ASSUME NEW p \in Posters, CheckPost(p) PROVE PostersApart'
  BY <1>4 DEF CheckPost, CheckEvent
<1>5. ASSUME NEW p \in Posters, RegisterTaskSource(p) PROVE PostersApart'
  BY <1>5 DEF RegisterTaskSource, WillPushTask
<1>6. ASSUME NEW p \in Posters, CheckRegister(p) PROVE PostersApart'
  BY <1>6 DEF CheckRegister, CheckEvent
<1>7. ASSUME NEW p \in Posters, CountIncomplete(p) PROVE PostersApart'
  BY <1>7 DEF CountIncomplete
<1>8. ASSUME NEW p \in Posters, WillPostTaskNow(p) PROVE PostersApart'
  BY <1>8 DEF WillPostTaskNow
<1>9. ASSUME NEW p \in Posters, PushTask(p) PROVE PostersApart'
  BY <1>9 DEF PushTask
<1>10. ASSUME NEW w \in Workers, NEW s \in Sequences, TakeTaskSource(w, s)
       PROVE   PostersApart'
  BY <1>10 DEF TakeTaskSource
<1>11. ASSUME NEW w \in Workers, BeforeRunTask(w) PROVE PostersApart'
  BY <1>11 DEF BeforeRunTask
<1>12. ASSUME NEW w \in Workers, UndoBeforeRunTask(w) PROVE PostersApart'
  BY <1>12 DEF UndoBeforeRunTask, DecrementItems
<1>13. ASSUME NEW w \in Workers, TakeTask(w) PROVE PostersApart'
  BY <1>13 DEF TakeTask
<1>14. ASSUME NEW w \in Workers, ClearTasks(w) PROVE PostersApart'
  BY <1>14 DEF ClearTasks
<1>15. ASSUME NEW w \in Workers, FinishTask(w) PROVE PostersApart'
  BY <1>15 DEF FinishTask
<1>16. ASSUME NEW w \in Workers, AfterRunTask(w) PROVE PostersApart'
  BY <1>16 DEF AfterRunTask, DecrementItems
<1>17. ASSUME NEW w \in Workers, DidProcessTask(w) PROVE PostersApart'
  BY <1>17 DEF DidProcessTask
<1>18. ASSUME NEW w \in Workers, ReEnqueue(w) PROVE PostersApart'
  BY <1>18 DEF ReEnqueue
<1>19. ASSUME NEW t \in Threads, UnregisterItem(t) PROVE PostersApart'
  BY <1>19 DEF UnregisterItem, DecrementItems
<1>20. ASSUME NEW t \in Threads, SignalShutdownEvent(t) PROVE PostersApart'
  BY <1>20 DEF SignalShutdownEvent
<1>21. ASSUME NEW t \in Threads, DecrementIncomplete(t) PROVE PostersApart'
  BY <1>21 DEF DecrementIncomplete
<1>22. ASSUME NEW t \in Threads, NotifyFlush(t) PROVE PostersApart'
  BY <1>22 DEF NotifyFlush, SignalFlush
<1>23. ASSUME NEW t \in Threads, CallFlushCallback(t) PROVE PostersApart'
  BY <1>23 DEF CallFlushCallback, RunFlushCallback
<1>24. ASSUME StartShutdown PROVE PostersApart'
  BY <1>24 DEF StartShutdown
<1>25. ASSUME CreateShutdownEvent PROVE PostersApart'
  BY <1>25 DEF CreateShutdownEvent
<1>26. ASSUME OtherStep PROVE PostersApart'
  BY <1>26 DEF OtherStep
<1> HIDE ThreadsAssumption DEF Threads, TrackerInv, TypeOK, Goto, Return, Blocks, Skips,
        Operation, NoOperation, Posting, Running,
        trackerVars, poolVars, flushVars, OtherStep, threadVars,
        PosterPCs, WorkerPCs, UnregisterPCs, SignalPCs,
        SchedulingInv, WorkersApart, SequencesScheduled, PostersApart, Steps,
        AtSequence, BeforeTake, Locks, Locking, SequenceLockHeld
<1> QED
  BY <1>1, <1>2, <1>3, <1>4, <1>5, <1>6, <1>7, <1>8, <1>9, <1>10, <1>11, <1>12, <1>13, <1>14, <1>15, <1>16, <1>17, <1>18, <1>19, <1>20, <1>21, <1>22, <1>23, <1>24, <1>25, <1>26, StepCases

\* Every step agrees with the stages of Shutdown.
LEMMA StagesStep == ASSUME TrackerInv, [Next]_vars PROVE ShutdownStages'
<1> USE ThreadsAssumption DEF Threads, TrackerInv, TypeOK, Goto, Return, Blocks, Skips,
        Operation, NoOperation, Posting, Running,
        trackerVars, poolVars, flushVars, OtherStep, threadVars,
        PosterPCs, WorkerPCs, UnregisterPCs, SignalPCs, ShutdownStages, ShutdownLockHeld
<1>1. ASSUME NEW p \in Posters, NEW s \in Sequences, NEW parent \in Workers \cup {None},
              PostTask(p, s, parent)
       PROVE   ShutdownStages'
  BY <1>1 DEF PostTask, MayPost
<1>2. ASSUME NEW p \in Posters, NEW s \in Sequences, NEW parent \in Workers \cup {None},
              PostDelayedTask(p, s, parent)
       PROVE   ShutdownStages'
  BY <1>2 DEF PostDelayedTask, MayPost
<1>3. ASSUME NEW s \in Sequences, ProcessRipeTask(s) PROVE ShutdownStages'
  BY <1>3 DEF ProcessRipeTask
<1>4. ASSUME NEW p \in Posters, CheckPost(p) PROVE ShutdownStages'
  BY <1>4 DEF CheckPost, CheckEvent
<1>5. ASSUME NEW p \in Posters, RegisterTaskSource(p) PROVE ShutdownStages'
  BY <1>5 DEF RegisterTaskSource, WillPushTask
<1>6. ASSUME NEW p \in Posters, CheckRegister(p) PROVE ShutdownStages'
  BY <1>6 DEF CheckRegister, CheckEvent
<1>7. ASSUME NEW p \in Posters, CountIncomplete(p) PROVE ShutdownStages'
  BY <1>7 DEF CountIncomplete
<1>8. ASSUME NEW p \in Posters, WillPostTaskNow(p) PROVE ShutdownStages'
  BY <1>8 DEF WillPostTaskNow
<1>9. ASSUME NEW p \in Posters, PushTask(p) PROVE ShutdownStages'
  BY <1>9 DEF PushTask
<1>10. ASSUME NEW w \in Workers, NEW s \in Sequences, TakeTaskSource(w, s)
       PROVE   ShutdownStages'
  BY <1>10 DEF TakeTaskSource
<1>11. ASSUME NEW w \in Workers, BeforeRunTask(w) PROVE ShutdownStages'
  BY <1>11 DEF BeforeRunTask
<1>12. ASSUME NEW w \in Workers, UndoBeforeRunTask(w) PROVE ShutdownStages'
  BY <1>12 DEF UndoBeforeRunTask, DecrementItems
<1>13. ASSUME NEW w \in Workers, TakeTask(w) PROVE ShutdownStages'
  BY <1>13 DEF TakeTask
<1>14. ASSUME NEW w \in Workers, ClearTasks(w) PROVE ShutdownStages'
  BY <1>14 DEF ClearTasks
<1>15. ASSUME NEW w \in Workers, FinishTask(w) PROVE ShutdownStages'
  BY <1>15 DEF FinishTask
<1>16. ASSUME NEW w \in Workers, AfterRunTask(w) PROVE ShutdownStages'
  BY <1>16 DEF AfterRunTask, DecrementItems
<1>17. ASSUME NEW w \in Workers, DidProcessTask(w) PROVE ShutdownStages'
  BY <1>17 DEF DidProcessTask
<1>18. ASSUME NEW w \in Workers, ReEnqueue(w) PROVE ShutdownStages'
  BY <1>18 DEF ReEnqueue
<1>19. ASSUME NEW t \in Threads, UnregisterItem(t) PROVE ShutdownStages'
  BY <1>19 DEF UnregisterItem, DecrementItems
<1>20. ASSUME NEW t \in Threads, SignalShutdownEvent(t) PROVE ShutdownStages'
  BY <1>20 DEF SignalShutdownEvent
<1>21. ASSUME NEW t \in Threads, DecrementIncomplete(t) PROVE ShutdownStages'
  BY <1>21 DEF DecrementIncomplete
<1>22. ASSUME NEW t \in Threads, NotifyFlush(t) PROVE ShutdownStages'
  BY <1>22 DEF NotifyFlush, SignalFlush
<1>23. ASSUME NEW t \in Threads, CallFlushCallback(t) PROVE ShutdownStages'
  BY <1>23 DEF CallFlushCallback, RunFlushCallback
<1>24. ASSUME StartShutdown PROVE ShutdownStages'
  BY <1>24 DEF StartShutdown
<1>25. ASSUME CreateShutdownEvent PROVE ShutdownStages'
  BY <1>25 DEF CreateShutdownEvent
<1>26. ASSUME OtherStep PROVE ShutdownStages'
  BY <1>26 DEF OtherStep
<1> HIDE ThreadsAssumption DEF Threads, TrackerInv, TypeOK, Goto, Return, Blocks, Skips,
        Operation, NoOperation, Posting, Running,
        trackerVars, poolVars, flushVars, OtherStep, threadVars,
        PosterPCs, WorkerPCs, UnregisterPCs, SignalPCs, ShutdownStages, ShutdownLockHeld
<1> QED
  BY <1>1, <1>2, <1>3, <1>4, <1>5, <1>6, <1>7, <1>8, <1>9, <1>10, <1>11, <1>12, <1>13, <1>14, <1>15, <1>16, <1>17, <1>18, <1>19, <1>20, <1>21, <1>22, <1>23, <1>24, <1>25, <1>26, StepCases

-----------------------------------------------------------------------------
(* The counts.                                                             *)

\* There are finitely many holders of an item and of a registration.
LEMMA HoldersFinite ==
    /\ IsFiniteSet(Threads \cup Sequences)
    /\ IsFiniteSet(Holders) /\ IsFiniteSet(Registered)
<1>1. IsFiniteSet(Threads \cup Sequences)
  BY ThreadsAssumption, FS_Union DEF Threads
<1>2. Holders \subseteq Threads \cup Sequences /\ Registered \subseteq Threads \cup Sequences
  BY DEF Holders, Registered
<1> QED
  BY <1>1, <1>2, FS_Subset

\* Handing over from one holder to another keeps the number of holders.
LEMMA HandedOver ==
    ASSUME NEW S, IsFiniteSet(S), NEW a \in S, NEW b, b \notin S
    PROVE  Cardinality((S \ {a}) \cup {b}) = Cardinality(S)
<1>1. IsFiniteSet(S \ {a}) /\ Cardinality(S \ {a}) = Cardinality(S) - 1
  BY FS_RemoveElement
<1>2. b \notin S \ {a}
  OBVIOUS
<1>3. Cardinality((S \ {a}) \cup {b}) = Cardinality(S \ {a}) + 1
  BY <1>1, <1>2, FS_AddElement
<1>4. Cardinality(S) \in Nat
  BY FS_CardinalityType
<1> QED
  BY <1>1, <1>3, <1>4

\* items stays exact when the holders of items do not change ...
LEMMA ItemsExactKept ==
    ASSUME ItemsExact, items' = items,
           \A x \in Threads \cup Sequences : Holds(x)' <=> Holds(x)
    PROVE  ItemsExact'
<1>1. Holders' = Holders
  BY DEF Holders
<1> QED
  BY <1>1 DEF ItemsExact

\* ... when one hands over to another ...
LEMMA ItemsExactMoved ==
    ASSUME ItemsExact, items' = items,
           NEW a \in Threads \cup Sequences, NEW b \in Threads \cup Sequences,
           Holds(a), ~Holds(b), ~Holds(a)', Holds(b)',
           \A x \in (Threads \cup Sequences) \ {a, b} : Holds(x)' <=> Holds(x)
    PROVE  ItemsExact'
<1>1. Holders' = (Holders \ {a}) \cup {b}
  BY DEF Holders
<1>2. a \in Holders /\ b \notin Holders
  BY DEF Holders
<1> QED
  BY <1>1, <1>2, HoldersFinite, HandedOver DEF ItemsExact

\* ... when one is added ...
LEMMA ItemsExactRaised ==
    ASSUME ItemsExact, items' = items + 1,
           NEW a \in Threads \cup Sequences, ~Holds(a), Holds(a)',
           \A x \in (Threads \cup Sequences) \ {a} : Holds(x)' <=> Holds(x)
    PROVE  ItemsExact'
<1>1. Holders' = Holders \cup {a} /\ a \notin Holders
  BY DEF Holders
<1> QED
  BY <1>1, HoldersFinite, FS_AddElement DEF ItemsExact

\* ... and when one is removed.
LEMMA ItemsExactLowered ==
    ASSUME ItemsExact, items' = items - 1,
           NEW a \in Threads \cup Sequences, Holds(a), ~Holds(a)',
           \A x \in (Threads \cup Sequences) \ {a} : Holds(x)' <=> Holds(x)
    PROVE  ItemsExact'
<1>1. Holders' = Holders \ {a} /\ a \in Holders
  BY DEF Holders
<1> QED
  BY <1>1, HoldersFinite, FS_RemoveElement DEF ItemsExact

\* A holder makes the count positive, and a count of one leaves no other.
LEMMA ItemsExactPositive ==
    ASSUME ItemsExact, NEW a \in Threads \cup Sequences, Holds(a)
    PROVE  /\ items \in Nat /\ items > 0
           /\ items = 1 => \A x \in Threads \cup Sequences : Holds(x) => x = a
<1>1. a \in Holders
  BY DEF Holders
<1>2. items \in Nat /\ items # 0
  BY <1>1, HoldersFinite, FS_CardinalityType, FS_EmptySet DEF ItemsExact
<1>3. ASSUME items = 1, NEW x \in Threads \cup Sequences, Holds(x), x # a PROVE FALSE
  <2>1. Cardinality(Holders \ {a}) = Cardinality(Holders) - 1 /\ IsFiniteSet(Holders \ {a})
    BY <1>1, HoldersFinite, FS_RemoveElement
  <2>2. Cardinality(Holders) = 1
    BY <1>3 DEF ItemsExact
  <2>3. x \in Holders \ {a}
    BY <1>3 DEF Holders
  <2> QED
    BY <2>1, <2>2, <2>3, FS_EmptySet
<1> QED
  BY <1>2, <1>3

\* incomplete stays exact when the registered sources do not change ...
LEMMA IncompleteExactKept ==
    ASSUME IncompleteExact, incomplete' = incomplete,
           \A x \in Threads \cup Sequences : HasSource(x)' <=> HasSource(x)
    PROVE  IncompleteExact'
<1>1. Registered' = Registered
  BY DEF Registered
<1> QED
  BY <1>1 DEF IncompleteExact

\* ... when one hands over to another ...
LEMMA IncompleteExactMoved ==
    ASSUME IncompleteExact, incomplete' = incomplete,
           NEW a \in Threads \cup Sequences, NEW b \in Threads \cup Sequences,
           HasSource(a), ~HasSource(b), ~HasSource(a)', HasSource(b)',
           \A x \in (Threads \cup Sequences) \ {a, b} : HasSource(x)' <=> HasSource(x)
    PROVE  IncompleteExact'
<1>1. Registered' = (Registered \ {a}) \cup {b}
  BY DEF Registered
<1>2. a \in Registered /\ b \notin Registered
  BY DEF Registered
<1> QED
  BY <1>1, <1>2, HoldersFinite, HandedOver DEF IncompleteExact

\* ... when one is added ...
LEMMA IncompleteExactRaised ==
    ASSUME IncompleteExact, incomplete' = incomplete + 1,
           NEW a \in Threads \cup Sequences, ~HasSource(a), HasSource(a)',
           \A x \in (Threads \cup Sequences) \ {a} : HasSource(x)' <=> HasSource(x)
    PROVE  IncompleteExact'
<1>1. Registered' = Registered \cup {a} /\ a \notin Registered
  BY DEF Registered
<1> QED
  BY <1>1, HoldersFinite, FS_AddElement DEF IncompleteExact

\* ... and when one is removed.
LEMMA IncompleteExactLowered ==
    ASSUME IncompleteExact, incomplete' = incomplete - 1,
           NEW a \in Threads \cup Sequences, HasSource(a), ~HasSource(a)',
           \A x \in (Threads \cup Sequences) \ {a} : HasSource(x)' <=> HasSource(x)
    PROVE  IncompleteExact'
<1>1. Registered' = Registered \ {a} /\ a \in Registered
  BY DEF Registered
<1> QED
  BY <1>1, HoldersFinite, FS_RemoveElement DEF IncompleteExact

\* A holder makes the count positive, and a count of one leaves no other.
LEMMA IncompleteExactPositive ==
    ASSUME IncompleteExact, NEW a \in Threads \cup Sequences, HasSource(a)
    PROVE  /\ incomplete \in Nat /\ incomplete > 0
           /\ incomplete = 1 => \A x \in Threads \cup Sequences : HasSource(x) => x = a
<1>1. a \in Registered
  BY DEF Registered
<1>2. incomplete \in Nat /\ incomplete # 0
  BY <1>1, HoldersFinite, FS_CardinalityType, FS_EmptySet DEF IncompleteExact
<1>3. ASSUME incomplete = 1, NEW x \in Threads \cup Sequences, HasSource(x), x # a PROVE FALSE
  <2>1. Cardinality(Registered \ {a}) = Cardinality(Registered) - 1 /\ IsFiniteSet(Registered \ {a})
    BY <1>1, HoldersFinite, FS_RemoveElement
  <2>2. Cardinality(Registered) = 1
    BY <1>3 DEF IncompleteExact
  <2>3. x \in Registered \ {a}
    BY <1>3 DEF Registered
  <2> QED
    BY <2>1, <2>2, <2>3, FS_EmptySet
<1> QED
  BY <1>2, <1>3

\* Every step keeps the count of items exact.
LEMMA ItemsStep == ASSUME TrackerInv, [Next]_vars PROVE ItemsExact'
<1> USE ThreadsAssumption DEF Threads, TrackerInv, TypeOK, Goto, Return, Blocks, Skips,
        Operation, NoOperation, Posting, Running,
        trackerVars, poolVars, flushVars, OtherStep, threadVars,
        PosterPCs, WorkerPCs, UnregisterPCs, SignalPCs,
        SchedulingInv, WorkersApart, SequencesScheduled, PostersApart, Steps,
        AtSequence, BeforeTake, Locks, Locking, SequenceLockHeld
<1>1. ASSUME NEW p \in Posters, NEW s \in Sequences, NEW parent \in Workers \cup {None},
              PostTask(p, s, parent)
       PROVE   ItemsExact'
  <2>1. \A x \in Threads \cup Sequences : Holds(x)' <=> Holds(x)
    BY <1>1 DEF PostTask, MayPost, Holds, WorkerHolds, PosterHolds
  <2>2. items' = items
    BY <1>1 DEF PostTask, MayPost
  <2> QED
    BY <2>1, <2>2, ItemsExactKept
<1>2. ASSUME NEW p \in Posters, NEW s \in Sequences, NEW parent \in Workers \cup {None},
              PostDelayedTask(p, s, parent)
       PROVE   ItemsExact'
  <2>1. \A x \in Threads \cup Sequences : Holds(x)' <=> Holds(x)
    BY <1>2 DEF PostDelayedTask, MayPost, Holds, WorkerHolds, PosterHolds
  <2>2. items' = items
    BY <1>2 DEF PostDelayedTask, MayPost
  <2> QED
    BY <2>1, <2>2, ItemsExactKept
<1>3. ASSUME NEW s \in Sequences, ProcessRipeTask(s) PROVE ItemsExact'
  <2>1. \A x \in Threads \cup Sequences : Holds(x)' <=> Holds(x)
    BY <1>3 DEF ProcessRipeTask, Holds, WorkerHolds, PosterHolds
  <2>2. items' = items
    BY <1>3 DEF ProcessRipeTask
  <2> QED
    BY <2>1, <2>2, ItemsExactKept
<1>4. ASSUME NEW p \in Posters, CheckPost(p) PROVE ItemsExact'
  <2>1. \A x \in Threads \cup Sequences : Holds(x)' <=> Holds(x)
    BY <1>4 DEF CheckPost, CheckEvent, Holds, WorkerHolds, PosterHolds
  <2>2. items' = items
    BY <1>4 DEF CheckPost, CheckEvent
  <2> QED
    BY <2>1, <2>2, ItemsExactKept
<1>5. ASSUME NEW p \in Posters, RegisterTaskSource(p) PROVE ItemsExact'
  <2>1. CASE WillPushTask(op[p].src) /\ Blocks(op[p].src)
    <3>1. ~Holds(p) /\ Holds(p)' /\ p \in Threads \cup Sequences
      BY <2>1, <1>5 DEF RegisterTaskSource, WillPushTask, Holds, WorkerHolds, PosterHolds
    <3>2. \A x \in (Threads \cup Sequences) \ {p} : Holds(x)' <=> Holds(x)
      BY <2>1, <1>5 DEF RegisterTaskSource, WillPushTask, Holds, WorkerHolds, PosterHolds
    <3>3. items' = items + 1
      BY <2>1, <1>5 DEF RegisterTaskSource, WillPushTask
    <3> QED
      BY <3>1, <3>2, <3>3, ItemsExactRaised
  <2>2. CASE ~(WillPushTask(op[p].src) /\ Blocks(op[p].src))
    <3>1. \A x \in Threads \cup Sequences : Holds(x)' <=> Holds(x)
      BY <2>2, <1>5 DEF RegisterTaskSource, WillPushTask, Holds, WorkerHolds, PosterHolds
    <3>2. items' = items
      BY <2>2, <1>5 DEF RegisterTaskSource, WillPushTask
    <3> QED
      BY <3>1, <3>2, ItemsExactKept
  <2> QED
    BY <2>1, <2>2
<1>6. ASSUME NEW p \in Posters, CheckRegister(p) PROVE ItemsExact'
  <2>1. \A x \in Threads \cup Sequences : Holds(x)' <=> Holds(x)
    BY <1>6 DEF CheckRegister, CheckEvent, Holds, WorkerHolds, PosterHolds
  <2>2. items' = items
    BY <1>6 DEF CheckRegister, CheckEvent
  <2> QED
    BY <2>1, <2>2, ItemsExactKept
<1>7. ASSUME NEW p \in Posters, CountIncomplete(p) PROVE ItemsExact'
  <2>1. \A x \in Threads \cup Sequences : Holds(x)' <=> Holds(x)
    BY <1>7 DEF CountIncomplete, Holds, WorkerHolds, PosterHolds
  <2>2. items' = items
    BY <1>7 DEF CountIncomplete
  <2> QED
    BY <2>1, <2>2, ItemsExactKept
<1>8. ASSUME NEW p \in Posters, WillPostTaskNow(p) PROVE ItemsExact'
  <2>1. \A x \in Threads \cup Sequences : Holds(x)' <=> Holds(x)
    BY <1>8 DEF WillPostTaskNow, Holds, WorkerHolds, PosterHolds
  <2>2. items' = items
    BY <1>8 DEF WillPostTaskNow
  <2> QED
    BY <2>1, <2>2, ItemsExactKept
<1>9. ASSUME NEW p \in Posters, PushTask(p) PROVE ItemsExact'
  <2>0. PICK s \in Sequences : s = op[p].src
    BY <1>9 DEF PushTask
  <2>1. CASE op[p].fresh /\ Blocks(op[p].src)
    <3>1. p \in Threads \cup Sequences /\ s \in Threads \cup Sequences
      BY <2>1, <2>0, <1>9 DEF PushTask
    <3>2. Holds(p) /\ ~Holds(p)'
      BY <2>1, <2>0, <1>9 DEF PushTask, Holds, WorkerHolds, PosterHolds
    <3>3. ~Holds(s) /\ Holds(s)'
      BY <2>1, <2>0, <1>9 DEF PushTask, Holds, WorkerHolds, PosterHolds
    <3>4. \A x \in (Threads \cup Sequences) \ {p, s} : Holds(x)' <=> Holds(x)
      BY <2>1, <2>0, <1>9 DEF PushTask, Holds, WorkerHolds, PosterHolds
    <3>5. items' = items
      BY <2>1, <2>0, <1>9 DEF PushTask
    <3> QED
      BY <3>1, <3>2, <3>3, <3>4, <3>5, ItemsExactMoved
  <2>2. CASE op[p].fresh /\ ~Blocks(op[p].src)
    <3>1. \A x \in Threads \cup Sequences : Holds(x)' <=> Holds(x)
      BY <2>0, <2>2, <1>9 DEF PushTask, Holds, WorkerHolds, PosterHolds
    <3>2. items' = items
      BY <2>0, <2>2, <1>9 DEF PushTask
    <3> QED
      BY <3>1, <3>2, ItemsExactKept
  <2>3. CASE ~op[p].fresh
    <3>1. \A x \in Threads \cup Sequences : Holds(x)' <=> Holds(x)
      BY <2>3, <1>9 DEF PushTask, Holds, WorkerHolds, PosterHolds
    <3>2. items' = items
      BY <2>3, <1>9 DEF PushTask
    <3> QED
      BY <3>1, <3>2, ItemsExactKept
  <2> QED
    BY <2>1, <2>2, <2>3
<1>10. ASSUME NEW w \in Workers, NEW s \in Sequences, TakeTaskSource(w, s)
       PROVE   ItemsExact'
  <2>1. CASE Blocks(s)
    <3>1. s \in Threads \cup Sequences /\ w \in Threads \cup Sequences
      BY <2>1, <1>10 DEF TakeTaskSource
    <3>2. Holds(s) /\ ~Holds(s)'
      BY <2>1, <1>10 DEF TakeTaskSource, Holds, WorkerHolds, PosterHolds
    <3>3. ~Holds(w) /\ Holds(w)'
      BY <2>1, <1>10 DEF TakeTaskSource, Holds, WorkerHolds, PosterHolds
    <3>4. \A x \in (Threads \cup Sequences) \ {s, w} : Holds(x)' <=> Holds(x)
      BY <2>1, <1>10 DEF TakeTaskSource, Holds, WorkerHolds, PosterHolds
    <3>5. items' = items
      BY <2>1, <1>10 DEF TakeTaskSource
    <3> QED
      BY <3>1, <3>2, <3>3, <3>4, <3>5, ItemsExactMoved
  <2>2. CASE ~Blocks(s)
    <3>1. \A x \in Threads \cup Sequences : Holds(x)' <=> Holds(x)
      BY <2>2, <1>10 DEF TakeTaskSource, Holds, WorkerHolds, PosterHolds
    <3>2. items' = items
      BY <2>2, <1>10 DEF TakeTaskSource
    <3> QED
      BY <3>1, <3>2, ItemsExactKept
  <2> QED
    BY <2>1, <2>2
<1>11. ASSUME NEW w \in Workers, BeforeRunTask(w) PROVE ItemsExact'
  <2>1. CASE Skips(op[w].src)
    <3>1. ~Holds(w) /\ Holds(w)' /\ w \in Threads \cup Sequences
      BY <2>1, <1>11 DEF BeforeRunTask, Holds, WorkerHolds, PosterHolds
    <3>2. \A x \in (Threads \cup Sequences) \ {w} : Holds(x)' <=> Holds(x)
      BY <2>1, <1>11 DEF BeforeRunTask, Holds, WorkerHolds, PosterHolds
    <3>3. items' = items + 1
      BY <2>1, <1>11 DEF BeforeRunTask
    <3> QED
      BY <3>1, <3>2, <3>3, ItemsExactRaised
  <2>2. CASE ~Skips(op[w].src)
    <3>1. \A x \in Threads \cup Sequences : Holds(x)' <=> Holds(x)
      BY <2>2, <1>11 DEF BeforeRunTask, Holds, WorkerHolds, PosterHolds
    <3>2. items' = items
      BY <2>2, <1>11 DEF BeforeRunTask
    <3> QED
      BY <3>1, <3>2, ItemsExactKept
  <2> QED
    BY <2>1, <2>2
<1>12. ASSUME NEW w \in Workers, UndoBeforeRunTask(w) PROVE ItemsExact'
  <2>1. Holds(w) /\ ~Holds(w)' /\ w \in Threads \cup Sequences
    BY <1>12 DEF UndoBeforeRunTask, DecrementItems, Holds, WorkerHolds, PosterHolds
  <2>2. \A x \in (Threads \cup Sequences) \ {w} : Holds(x)' <=> Holds(x)
    BY <1>12 DEF UndoBeforeRunTask, DecrementItems, Holds, WorkerHolds, PosterHolds
  <2>3. items' = items - 1
    BY <1>12 DEF UndoBeforeRunTask, DecrementItems
  <2> QED
    BY <2>1, <2>2, <2>3, ItemsExactLowered
<1>13. ASSUME NEW w \in Workers, TakeTask(w) PROVE ItemsExact'
  <2>1. \A x \in Threads \cup Sequences : Holds(x)' <=> Holds(x)
    BY <1>13 DEF TakeTask, Holds, WorkerHolds, PosterHolds
  <2>2. items' = items
    BY <1>13 DEF TakeTask
  <2> QED
    BY <2>1, <2>2, ItemsExactKept
<1>14. ASSUME NEW w \in Workers, ClearTasks(w) PROVE ItemsExact'
  <2>1. \A x \in Threads \cup Sequences : Holds(x)' <=> Holds(x)
    BY <1>14 DEF ClearTasks, Holds, WorkerHolds, PosterHolds
  <2>2. items' = items
    BY <1>14 DEF ClearTasks
  <2> QED
    BY <2>1, <2>2, ItemsExactKept
<1>15. ASSUME NEW w \in Workers, FinishTask(w) PROVE ItemsExact'
  <2>1. \A x \in Threads \cup Sequences : Holds(x)' <=> Holds(x)
    BY <1>15 DEF FinishTask, Holds, WorkerHolds, PosterHolds
  <2>2. items' = items
    BY <1>15 DEF FinishTask
  <2> QED
    BY <2>1, <2>2, ItemsExactKept
<1>16. ASSUME NEW w \in Workers, AfterRunTask(w) PROVE ItemsExact'
  <2>1. Holds(w) /\ ~Holds(w)' /\ w \in Threads \cup Sequences
    BY <1>16 DEF AfterRunTask, DecrementItems, Holds, WorkerHolds, PosterHolds
  <2>2. \A x \in (Threads \cup Sequences) \ {w} : Holds(x)' <=> Holds(x)
    BY <1>16 DEF AfterRunTask, DecrementItems, Holds, WorkerHolds, PosterHolds
  <2>3. items' = items - 1
    BY <1>16 DEF AfterRunTask, DecrementItems
  <2> QED
    BY <2>1, <2>2, <2>3, ItemsExactLowered
<1>17. ASSUME NEW w \in Workers, DidProcessTask(w) PROVE ItemsExact'
  <2>1. \A x \in Threads \cup Sequences : Holds(x)' <=> Holds(x)
    BY <1>17 DEF DidProcessTask, Holds, WorkerHolds, PosterHolds
  <2>2. items' = items
    BY <1>17 DEF DidProcessTask
  <2> QED
    BY <2>1, <2>2, ItemsExactKept
<1>18. ASSUME NEW w \in Workers, ReEnqueue(w) PROVE ItemsExact'
  <2>0. PICK s \in Sequences : s = op[w].src
    BY <1>18 DEF ReEnqueue
  <2>1. CASE Blocks(op[w].src)
    <3>1. w \in Threads \cup Sequences /\ s \in Threads \cup Sequences
      BY <2>1, <2>0, <1>18 DEF ReEnqueue
    <3>2. Holds(w) /\ ~Holds(w)'
      BY <2>1, <2>0, <1>18 DEF ReEnqueue, Holds, WorkerHolds, PosterHolds
    <3>3. ~Holds(s) /\ Holds(s)'
      BY <2>1, <2>0, <1>18 DEF ReEnqueue, Holds, WorkerHolds, PosterHolds
    <3>4. \A x \in (Threads \cup Sequences) \ {w, s} : Holds(x)' <=> Holds(x)
      BY <2>1, <2>0, <1>18 DEF ReEnqueue, Holds, WorkerHolds, PosterHolds
    <3>5. items' = items
      BY <2>1, <2>0, <1>18 DEF ReEnqueue
    <3> QED
      BY <3>1, <3>2, <3>3, <3>4, <3>5, ItemsExactMoved
  <2>2. CASE ~Blocks(op[w].src)
    <3>1. \A x \in Threads \cup Sequences : Holds(x)' <=> Holds(x)
      BY <2>0, <2>2, <1>18 DEF ReEnqueue, Holds, WorkerHolds, PosterHolds
    <3>2. items' = items
      BY <2>0, <2>2, <1>18 DEF ReEnqueue
    <3> QED
      BY <3>1, <3>2, ItemsExactKept
  <2> QED
    BY <2>1, <2>2
<1>19. ASSUME NEW t \in Threads, UnregisterItem(t) PROVE ItemsExact'
  <2>1. Holds(t) /\ ~Holds(t)' /\ t \in Threads \cup Sequences
    BY <1>19 DEF UnregisterItem, DecrementItems, Holds, WorkerHolds, PosterHolds
  <2>2. \A x \in (Threads \cup Sequences) \ {t} : Holds(x)' <=> Holds(x)
    BY <1>19 DEF UnregisterItem, DecrementItems, Holds, WorkerHolds, PosterHolds
  <2>3. items' = items - 1
    BY <1>19 DEF UnregisterItem, DecrementItems
  <2> QED
    BY <2>1, <2>2, <2>3, ItemsExactLowered
<1>20. ASSUME NEW t \in Threads, SignalShutdownEvent(t) PROVE ItemsExact'
  <2>1. \A x \in Threads \cup Sequences : Holds(x)' <=> Holds(x)
    BY <1>20 DEF SignalShutdownEvent, Holds, WorkerHolds, PosterHolds
  <2>2. items' = items
    BY <1>20 DEF SignalShutdownEvent
  <2> QED
    BY <2>1, <2>2, ItemsExactKept
<1>21. ASSUME NEW t \in Threads, DecrementIncomplete(t) PROVE ItemsExact'
  <2>1. \A x \in Threads \cup Sequences : Holds(x)' <=> Holds(x)
    BY <1>21 DEF DecrementIncomplete, Holds, WorkerHolds, PosterHolds
  <2>2. items' = items
    BY <1>21 DEF DecrementIncomplete
  <2> QED
    BY <2>1, <2>2, ItemsExactKept
<1>22. ASSUME NEW t \in Threads, NotifyFlush(t) PROVE ItemsExact'
  <2>1. \A x \in Threads \cup Sequences : Holds(x)' <=> Holds(x)
    BY <1>22 DEF NotifyFlush, SignalFlush, Holds, WorkerHolds, PosterHolds
  <2>2. items' = items
    BY <1>22 DEF NotifyFlush, SignalFlush
  <2> QED
    BY <2>1, <2>2, ItemsExactKept
<1>23. ASSUME NEW t \in Threads, CallFlushCallback(t) PROVE ItemsExact'
  <2>1. \A x \in Threads \cup Sequences : Holds(x)' <=> Holds(x)
    BY <1>23 DEF CallFlushCallback, RunFlushCallback, Holds, WorkerHolds, PosterHolds
  <2>2. items' = items
    BY <1>23 DEF CallFlushCallback, RunFlushCallback
  <2> QED
    BY <2>1, <2>2, ItemsExactKept
<1>24. ASSUME StartShutdown PROVE ItemsExact'
  <2>1. \A x \in Threads \cup Sequences : Holds(x)' <=> Holds(x)
    BY <1>24 DEF StartShutdown, Holds, WorkerHolds, PosterHolds
  <2>2. items' = items
    BY <1>24 DEF StartShutdown
  <2> QED
    BY <2>1, <2>2, ItemsExactKept
<1>25. ASSUME CreateShutdownEvent PROVE ItemsExact'
  <2>1. \A x \in Threads \cup Sequences : Holds(x)' <=> Holds(x)
    BY <1>25 DEF CreateShutdownEvent, Holds, WorkerHolds, PosterHolds
  <2>2. items' = items
    BY <1>25 DEF CreateShutdownEvent
  <2> QED
    BY <2>1, <2>2, ItemsExactKept
<1>26. ASSUME OtherStep PROVE ItemsExact'
  <2>1. \A x \in Threads \cup Sequences : Holds(x)' <=> Holds(x)
    BY <1>26 DEF OtherStep, Holds, WorkerHolds, PosterHolds
  <2>2. items' = items
    BY <1>26 DEF OtherStep
  <2> QED
    BY <2>1, <2>2, ItemsExactKept
<1> HIDE ThreadsAssumption DEF Threads, TrackerInv, TypeOK, Goto, Return, Blocks, Skips,
        Operation, NoOperation, Posting, Running,
        trackerVars, poolVars, flushVars, OtherStep, threadVars,
        PosterPCs, WorkerPCs, UnregisterPCs, SignalPCs,
        SchedulingInv, WorkersApart, SequencesScheduled, PostersApart, Steps,
        AtSequence, BeforeTake, Locks, Locking, SequenceLockHeld
<1> QED
  BY <1>1, <1>2, <1>3, <1>4, <1>5, <1>6, <1>7, <1>8, <1>9, <1>10, <1>11, <1>12, <1>13, <1>14, <1>15, <1>16, <1>17, <1>18, <1>19, <1>20, <1>21, <1>22, <1>23, <1>24, <1>25, <1>26, StepCases

\* Every step keeps the count of registered sources exact.
LEMMA IncompleteStep == ASSUME TrackerInv, [Next]_vars PROVE IncompleteExact'
<1> USE ThreadsAssumption DEF Threads, TrackerInv, TypeOK, Goto, Return, Blocks, Skips,
        Operation, NoOperation, Posting, Running,
        trackerVars, poolVars, flushVars, OtherStep, threadVars,
        PosterPCs, WorkerPCs, UnregisterPCs, SignalPCs,
        SchedulingInv, WorkersApart, SequencesScheduled, PostersApart, Steps,
        AtSequence, BeforeTake, Locks, Locking, SequenceLockHeld
<1>1. ASSUME NEW p \in Posters, NEW s \in Sequences, NEW parent \in Workers \cup {None},
              PostTask(p, s, parent)
       PROVE   IncompleteExact'
  <2>1. \A x \in Threads \cup Sequences : HasSource(x)' <=> HasSource(x)
    BY <1>1 DEF PostTask, MayPost, HasSource
  <2>2. incomplete' = incomplete
    BY <1>1 DEF PostTask, MayPost
  <2> QED
    BY <2>1, <2>2, IncompleteExactKept
<1>2. ASSUME NEW p \in Posters, NEW s \in Sequences, NEW parent \in Workers \cup {None},
              PostDelayedTask(p, s, parent)
       PROVE   IncompleteExact'
  <2>1. \A x \in Threads \cup Sequences : HasSource(x)' <=> HasSource(x)
    BY <1>2 DEF PostDelayedTask, MayPost, HasSource
  <2>2. incomplete' = incomplete
    BY <1>2 DEF PostDelayedTask, MayPost
  <2> QED
    BY <2>1, <2>2, IncompleteExactKept
<1>3. ASSUME NEW s \in Sequences, ProcessRipeTask(s) PROVE IncompleteExact'
  <2>1. \A x \in Threads \cup Sequences : HasSource(x)' <=> HasSource(x)
    BY <1>3 DEF ProcessRipeTask, HasSource
  <2>2. incomplete' = incomplete
    BY <1>3 DEF ProcessRipeTask
  <2> QED
    BY <2>1, <2>2, IncompleteExactKept
<1>4. ASSUME NEW p \in Posters, CheckPost(p) PROVE IncompleteExact'
  <2>1. \A x \in Threads \cup Sequences : HasSource(x)' <=> HasSource(x)
    BY <1>4 DEF CheckPost, CheckEvent, HasSource
  <2>2. incomplete' = incomplete
    BY <1>4 DEF CheckPost, CheckEvent
  <2> QED
    BY <2>1, <2>2, IncompleteExactKept
<1>5. ASSUME NEW p \in Posters, RegisterTaskSource(p) PROVE IncompleteExact'
  <2>1. \A x \in Threads \cup Sequences : HasSource(x)' <=> HasSource(x)
    BY <1>5 DEF RegisterTaskSource, WillPushTask, HasSource
  <2>2. incomplete' = incomplete
    BY <1>5 DEF RegisterTaskSource, WillPushTask
  <2> QED
    BY <2>1, <2>2, IncompleteExactKept
<1>6. ASSUME NEW p \in Posters, CheckRegister(p) PROVE IncompleteExact'
  <2>1. \A x \in Threads \cup Sequences : HasSource(x)' <=> HasSource(x)
    BY <1>6 DEF CheckRegister, CheckEvent, HasSource
  <2>2. incomplete' = incomplete
    BY <1>6 DEF CheckRegister, CheckEvent
  <2> QED
    BY <2>1, <2>2, IncompleteExactKept
<1>7. ASSUME NEW p \in Posters, CountIncomplete(p) PROVE IncompleteExact'
  <2>1. ~HasSource(p) /\ HasSource(p)' /\ p \in Threads \cup Sequences
    BY <1>7 DEF CountIncomplete, HasSource
  <2>2. \A x \in (Threads \cup Sequences) \ {p} : HasSource(x)' <=> HasSource(x)
    BY <1>7 DEF CountIncomplete, HasSource
  <2>3. incomplete' = incomplete + 1
    BY <1>7 DEF CountIncomplete
  <2> QED
    BY <2>1, <2>2, <2>3, IncompleteExactRaised
<1>8. ASSUME NEW p \in Posters, WillPostTaskNow(p) PROVE IncompleteExact'
  <2>1. \A x \in Threads \cup Sequences : HasSource(x)' <=> HasSource(x)
    BY <1>8 DEF WillPostTaskNow, HasSource
  <2>2. incomplete' = incomplete
    BY <1>8 DEF WillPostTaskNow
  <2> QED
    BY <2>1, <2>2, IncompleteExactKept
<1>9. ASSUME NEW p \in Posters, PushTask(p) PROVE IncompleteExact'
  <2>0. PICK s \in Sequences : s = op[p].src
    BY <1>9 DEF PushTask
  <2>1. CASE op[p].fresh
    <3>1. p \in Threads \cup Sequences /\ s \in Threads \cup Sequences
      BY <2>1, <2>0, <1>9 DEF PushTask
    <3>2. HasSource(p) /\ ~HasSource(p)'
      BY <2>1, <2>0, <1>9 DEF PushTask, HasSource
    <3>3. ~HasSource(s) /\ HasSource(s)'
      BY <2>1, <2>0, <1>9 DEF PushTask, HasSource
    <3>4. \A x \in (Threads \cup Sequences) \ {p, s} : HasSource(x)' <=> HasSource(x)
      BY <2>1, <2>0, <1>9 DEF PushTask, HasSource
    <3>5. incomplete' = incomplete
      BY <2>1, <2>0, <1>9 DEF PushTask
    <3> QED
      BY <3>1, <3>2, <3>3, <3>4, <3>5, IncompleteExactMoved
  <2>2. CASE ~op[p].fresh
    <3>1. \A x \in Threads \cup Sequences : HasSource(x)' <=> HasSource(x)
      BY <2>2, <1>9 DEF PushTask, HasSource
    <3>2. incomplete' = incomplete
      BY <2>2, <1>9 DEF PushTask
    <3> QED
      BY <3>1, <3>2, IncompleteExactKept
  <2> QED
    BY <2>1, <2>2
<1>10. ASSUME NEW w \in Workers, NEW s \in Sequences, TakeTaskSource(w, s)
       PROVE   IncompleteExact'
  <2>1. s \in Threads \cup Sequences /\ w \in Threads \cup Sequences
    BY <1>10 DEF TakeTaskSource
  <2>2. HasSource(s) /\ ~HasSource(s)'
    BY <1>10 DEF TakeTaskSource, HasSource
  <2>3. ~HasSource(w) /\ HasSource(w)'
    BY <1>10 DEF TakeTaskSource, HasSource
  <2>4. \A x \in (Threads \cup Sequences) \ {s, w} : HasSource(x)' <=> HasSource(x)
    BY <1>10 DEF TakeTaskSource, HasSource
  <2>5. incomplete' = incomplete
    BY <1>10 DEF TakeTaskSource
  <2> QED
    BY <2>1, <2>2, <2>3, <2>4, <2>5, IncompleteExactMoved
<1>11. ASSUME NEW w \in Workers, BeforeRunTask(w) PROVE IncompleteExact'
  <2>1. \A x \in Threads \cup Sequences : HasSource(x)' <=> HasSource(x)
    BY <1>11 DEF BeforeRunTask, HasSource
  <2>2. incomplete' = incomplete
    BY <1>11 DEF BeforeRunTask
  <2> QED
    BY <2>1, <2>2, IncompleteExactKept
<1>12. ASSUME NEW w \in Workers, UndoBeforeRunTask(w) PROVE IncompleteExact'
  <2>1. \A x \in Threads \cup Sequences : HasSource(x)' <=> HasSource(x)
    BY <1>12 DEF UndoBeforeRunTask, DecrementItems, HasSource
  <2>2. incomplete' = incomplete
    BY <1>12 DEF UndoBeforeRunTask, DecrementItems
  <2> QED
    BY <2>1, <2>2, IncompleteExactKept
<1>13. ASSUME NEW w \in Workers, TakeTask(w) PROVE IncompleteExact'
  <2>1. \A x \in Threads \cup Sequences : HasSource(x)' <=> HasSource(x)
    BY <1>13 DEF TakeTask, HasSource
  <2>2. incomplete' = incomplete
    BY <1>13 DEF TakeTask
  <2> QED
    BY <2>1, <2>2, IncompleteExactKept
<1>14. ASSUME NEW w \in Workers, ClearTasks(w) PROVE IncompleteExact'
  <2>1. \A x \in Threads \cup Sequences : HasSource(x)' <=> HasSource(x)
    BY <1>14 DEF ClearTasks, HasSource
  <2>2. incomplete' = incomplete
    BY <1>14 DEF ClearTasks
  <2> QED
    BY <2>1, <2>2, IncompleteExactKept
<1>15. ASSUME NEW w \in Workers, FinishTask(w) PROVE IncompleteExact'
  <2>1. \A x \in Threads \cup Sequences : HasSource(x)' <=> HasSource(x)
    BY <1>15 DEF FinishTask, HasSource
  <2>2. incomplete' = incomplete
    BY <1>15 DEF FinishTask
  <2> QED
    BY <2>1, <2>2, IncompleteExactKept
<1>16. ASSUME NEW w \in Workers, AfterRunTask(w) PROVE IncompleteExact'
  <2>1. \A x \in Threads \cup Sequences : HasSource(x)' <=> HasSource(x)
    BY <1>16 DEF AfterRunTask, DecrementItems, HasSource
  <2>2. incomplete' = incomplete
    BY <1>16 DEF AfterRunTask, DecrementItems
  <2> QED
    BY <2>1, <2>2, IncompleteExactKept
<1>17. ASSUME NEW w \in Workers, DidProcessTask(w) PROVE IncompleteExact'
  <2>1. \A x \in Threads \cup Sequences : HasSource(x)' <=> HasSource(x)
    BY <1>17 DEF DidProcessTask, HasSource
  <2>2. incomplete' = incomplete
    BY <1>17 DEF DidProcessTask
  <2> QED
    BY <2>1, <2>2, IncompleteExactKept
<1>18. ASSUME NEW w \in Workers, ReEnqueue(w) PROVE IncompleteExact'
  <2>0. PICK s \in Sequences : s = op[w].src
    BY <1>18 DEF ReEnqueue
  <2>1. w \in Threads \cup Sequences /\ s \in Threads \cup Sequences
    BY <2>0, <1>18 DEF ReEnqueue
  <2>2. HasSource(w) /\ ~HasSource(w)'
    BY <2>0, <1>18 DEF ReEnqueue, HasSource
  <2>3. ~HasSource(s) /\ HasSource(s)'
    BY <2>0, <1>18 DEF ReEnqueue, HasSource
  <2>4. \A x \in (Threads \cup Sequences) \ {w, s} : HasSource(x)' <=> HasSource(x)
    BY <2>0, <1>18 DEF ReEnqueue, HasSource
  <2>5. incomplete' = incomplete
    BY <2>0, <1>18 DEF ReEnqueue
  <2> QED
    BY <2>1, <2>2, <2>3, <2>4, <2>5, IncompleteExactMoved
<1>19. ASSUME NEW t \in Threads, UnregisterItem(t) PROVE IncompleteExact'
  <2>1. \A x \in Threads \cup Sequences : HasSource(x)' <=> HasSource(x)
    BY <1>19 DEF UnregisterItem, DecrementItems, HasSource
  <2>2. incomplete' = incomplete
    BY <1>19 DEF UnregisterItem, DecrementItems
  <2> QED
    BY <2>1, <2>2, IncompleteExactKept
<1>20. ASSUME NEW t \in Threads, SignalShutdownEvent(t) PROVE IncompleteExact'
  <2>1. \A x \in Threads \cup Sequences : HasSource(x)' <=> HasSource(x)
    BY <1>20 DEF SignalShutdownEvent, HasSource
  <2>2. incomplete' = incomplete
    BY <1>20 DEF SignalShutdownEvent
  <2> QED
    BY <2>1, <2>2, IncompleteExactKept
<1>21. ASSUME NEW t \in Threads, DecrementIncomplete(t) PROVE IncompleteExact'
  <2>1. HasSource(t) /\ ~HasSource(t)' /\ t \in Threads \cup Sequences
    BY <1>21 DEF DecrementIncomplete, HasSource
  <2>2. \A x \in (Threads \cup Sequences) \ {t} : HasSource(x)' <=> HasSource(x)
    BY <1>21 DEF DecrementIncomplete, HasSource
  <2>3. incomplete' = incomplete - 1
    BY <1>21 DEF DecrementIncomplete
  <2> QED
    BY <2>1, <2>2, <2>3, IncompleteExactLowered
<1>22. ASSUME NEW t \in Threads, NotifyFlush(t) PROVE IncompleteExact'
  <2>1. \A x \in Threads \cup Sequences : HasSource(x)' <=> HasSource(x)
    BY <1>22 DEF NotifyFlush, SignalFlush, HasSource
  <2>2. incomplete' = incomplete
    BY <1>22 DEF NotifyFlush, SignalFlush
  <2> QED
    BY <2>1, <2>2, IncompleteExactKept
<1>23. ASSUME NEW t \in Threads, CallFlushCallback(t) PROVE IncompleteExact'
  <2>1. \A x \in Threads \cup Sequences : HasSource(x)' <=> HasSource(x)
    BY <1>23 DEF CallFlushCallback, RunFlushCallback, HasSource
  <2>2. incomplete' = incomplete
    BY <1>23 DEF CallFlushCallback, RunFlushCallback
  <2> QED
    BY <2>1, <2>2, IncompleteExactKept
<1>24. ASSUME StartShutdown PROVE IncompleteExact'
  <2>1. \A x \in Threads \cup Sequences : HasSource(x)' <=> HasSource(x)
    BY <1>24 DEF StartShutdown, HasSource
  <2>2. incomplete' = incomplete
    BY <1>24 DEF StartShutdown
  <2> QED
    BY <2>1, <2>2, IncompleteExactKept
<1>25. ASSUME CreateShutdownEvent PROVE IncompleteExact'
  <2>1. \A x \in Threads \cup Sequences : HasSource(x)' <=> HasSource(x)
    BY <1>25 DEF CreateShutdownEvent, HasSource
  <2>2. incomplete' = incomplete
    BY <1>25 DEF CreateShutdownEvent
  <2> QED
    BY <2>1, <2>2, IncompleteExactKept
<1>26. ASSUME OtherStep PROVE IncompleteExact'
  <2>1. \A x \in Threads \cup Sequences : HasSource(x)' <=> HasSource(x)
    BY <1>26 DEF OtherStep, HasSource
  <2>2. incomplete' = incomplete
    BY <1>26 DEF OtherStep
  <2> QED
    BY <2>1, <2>2, IncompleteExactKept
<1> HIDE ThreadsAssumption DEF Threads, TrackerInv, TypeOK, Goto, Return, Blocks, Skips,
        Operation, NoOperation, Posting, Running,
        trackerVars, poolVars, flushVars, OtherStep, threadVars,
        PosterPCs, WorkerPCs, UnregisterPCs, SignalPCs,
        SchedulingInv, WorkersApart, SequencesScheduled, PostersApart, Steps,
        AtSequence, BeforeTake, Locks, Locking, SequenceLockHeld
<1> QED
  BY <1>1, <1>2, <1>3, <1>4, <1>5, <1>6, <1>7, <1>8, <1>9, <1>10, <1>11, <1>12, <1>13, <1>14, <1>15, <1>16, <1>17, <1>18, <1>19, <1>20, <1>21, <1>22, <1>23, <1>24, <1>25, <1>26, StepCases

-----------------------------------------------------------------------------
(* Types.                                                                  *)

StateTyped ==
    /\ behavior \in Behaviors
    /\ started \in BOOLEAN
    /\ event \in {"none", "unsignaled", "signaled"}
    /\ queue \in [Sequences -> Nat] /\ delayed \in [Sequences -> Nat]
    /\ hasWorker \in [Sequences -> BOOLEAN]
    /\ inPool \subseteq Sequences
    /\ runStep \in [Workers -> {"kInitial", "kReady", "kTaskAcquired"}]
    /\ early \in [Threads \cup Sequences -> BOOLEAN]
PCsTyped ==
    /\ pc \in [Threads -> PosterPCs \cup WorkerPCs]
    /\ \A w \in Workers : pc[w] \in WorkerPCs
    /\ \A p \in Posters : pc[p] \in PosterPCs
OpsTyped ==
    /\ op \in [Threads -> Operation]
    /\ \A t \in Threads : pc[t] # "idle" => op[t].src # None
CountsTyped == items \in Nat /\ incomplete \in Nat
OthersTyped ==
    /\ policy \in {"kAll", "kForegroundOnly", "kNone"}
    /\ fences \subseteq {"all", "bestEffort"}
    /\ main \in MainPCs
    /\ flusher \in [Flushers -> {"idle", "load", "check", "waiting", "flushed"}]
    /\ async \in {"idle", "load", "check", "take", "done"}
    /\ callback \in {"none", "pending", "ran"}
    /\ posts \in Nat /\ changes \in Nat

\* The parts of the type invariant.
LEMMA TypeParts ==
    TypeOK <=> StateTyped /\ PCsTyped /\ OpsTyped /\ CountsTyped /\ OthersTyped
BY DEF TypeOK, StateTyped, PCsTyped, OpsTyped, CountsTyped, OthersTyped

\* The operations a thread may begin are operations.
LEMMA OperationsTyped ==
    /\ NoOperation \in Operation
    /\ \A s \in Sequences : Running(s) \in Operation /\ Running(s).src # None
    /\ \A s \in Sequences, t \in Threads \cup {None}, late \in BOOLEAN :
         Posting(s, t, late) \in Operation /\ Posting(s, t, late).src # None
    /\ \A x \in Operation : /\ [x EXCEPT !.fresh = TRUE] \in Operation
                            /\ [x EXCEPT !.fresh = TRUE].src = x.src
BY ThreadsAssumption DEF NoOperation, Running, Posting, Operation

\* Operations keep their type when one thread's operation is set ...
LEMMA OpsSet ==
    ASSUME OpsTyped, NEW t \in Threads, NEW x \in Operation,
           op' = [op EXCEPT ![t] = x], x.src # None \/ pc'[t] = "idle",
           \A u \in Threads \ {t} : pc'[u] = pc[u]
    PROVE  OpsTyped'
BY DEF OpsTyped

\* ... or when none changes and no idle thread starts.
LEMMA OpsKept ==
    ASSUME OpsTyped, op' = op, \A u \in Threads : pc[u] = "idle" => pc'[u] = "idle"
    PROVE  OpsTyped'
BY DEF OpsTyped
\* Every step keeps the types of the shared state.
LEMMA StateTypeStep == ASSUME TrackerInv, [Next]_vars PROVE StateTyped'
<1> USE ThreadsAssumption DEF Threads, TrackerInv, TypeOK, Goto, Return, Blocks, Skips,
        Operation, NoOperation, Posting, Running,
        trackerVars, poolVars, flushVars, OtherStep, threadVars,
        PosterPCs, WorkerPCs, UnregisterPCs, SignalPCs,
        SchedulingInv, WorkersApart, SequencesScheduled, PostersApart, Steps,
        AtSequence, BeforeTake, Locks, Locking, SequenceLockHeld, StateTyped
<1>1. ASSUME NEW p \in Posters, NEW s \in Sequences, NEW parent \in Workers \cup {None},
              PostTask(p, s, parent)
       PROVE   StateTyped'
  BY <1>1 DEF PostTask, MayPost
<1>2. ASSUME NEW p \in Posters, NEW s \in Sequences, NEW parent \in Workers \cup {None},
              PostDelayedTask(p, s, parent)
       PROVE   StateTyped'
  BY <1>2 DEF PostDelayedTask, MayPost
<1>3. ASSUME NEW s \in Sequences, ProcessRipeTask(s) PROVE StateTyped'
  BY <1>3 DEF ProcessRipeTask
<1>4. ASSUME NEW p \in Posters, CheckPost(p) PROVE StateTyped'
  BY <1>4 DEF CheckPost, CheckEvent
<1>5. ASSUME NEW p \in Posters, RegisterTaskSource(p) PROVE StateTyped'
  <2>1. Early(p) \in BOOLEAN
    BY DEF Early
  <2>2. early' = early \/ early' = [early EXCEPT ![p] = Early(p)]
    BY <1>5 DEF RegisterTaskSource
  <2>3. early' \in [Threads \cup Sequences -> BOOLEAN]
    BY <2>1, <2>2
  <2>4. UNCHANGED <<behavior, started, event, queue, delayed, hasWorker, inPool, runStep>>
    BY <1>5 DEF RegisterTaskSource
  <2> QED
    BY <2>3, <2>4
<1>6. ASSUME NEW p \in Posters, CheckRegister(p) PROVE StateTyped'
  BY <1>6 DEF CheckRegister, CheckEvent
<1>7. ASSUME NEW p \in Posters, CountIncomplete(p) PROVE StateTyped'
  BY <1>7 DEF CountIncomplete
<1>8. ASSUME NEW p \in Posters, WillPostTaskNow(p) PROVE StateTyped'
  BY <1>8 DEF WillPostTaskNow
<1>9. ASSUME NEW p \in Posters, PushTask(p) PROVE StateTyped'
  <2>1. /\ op[p].src \in Sequences /\ op[p].src \in Threads \cup Sequences
        /\ p \in Threads \cup Sequences
        /\ early \in [Threads \cup Sequences -> BOOLEAN]
    BY <1>9 DEF PushTask
  <2>2. early' = early \/ early' = [early EXCEPT ![op[p].src] = early[p], ![p] = FALSE]
    BY <1>9 DEF PushTask
  <2>3. early' \in [Threads \cup Sequences -> BOOLEAN]
    <3>1. CASE early' = early
      BY <2>1, <3>1
    <3>2. CASE early' = [early EXCEPT ![op[p].src] = early[p], ![p] = FALSE]
      <4>1. early[p] \in BOOLEAN
        BY <2>1
      <4> QED
        BY <2>1, <3>2, <4>1
    <3> QED
      BY <2>2, <3>1, <3>2
  <2>4. UNCHANGED <<behavior, started, event, delayed, hasWorker, runStep>>
    BY <1>9 DEF PushTask
  <2>5. inPool' \subseteq Sequences /\ queue' \in [Sequences -> Nat]
    <3>1. inPool' = inPool \/ inPool' = inPool \cup {op[p].src}
      BY <1>9 DEF PushTask
    <3>2. queue' = [queue EXCEPT ![op[p].src] = @ + 1]
      BY <1>9 DEF PushTask
    <3> QED
      BY <2>1, <3>1, <3>2
  <2> QED
    BY <2>3, <2>4, <2>5
<1>10. ASSUME NEW w \in Workers, NEW s \in Sequences, TakeTaskSource(w, s)
       PROVE   StateTyped'
  BY <1>10 DEF TakeTaskSource
<1>11. ASSUME NEW w \in Workers, BeforeRunTask(w) PROVE StateTyped'
  BY <1>11 DEF BeforeRunTask
<1>12. ASSUME NEW w \in Workers, UndoBeforeRunTask(w) PROVE StateTyped'
  BY <1>12 DEF UndoBeforeRunTask, DecrementItems
<1>13. ASSUME NEW w \in Workers, TakeTask(w) PROVE StateTyped'
  BY <1>13 DEF TakeTask
<1>14. ASSUME NEW w \in Workers, ClearTasks(w) PROVE StateTyped'
  BY <1>14 DEF ClearTasks
<1>15. ASSUME NEW w \in Workers, FinishTask(w) PROVE StateTyped'
  BY <1>15 DEF FinishTask
<1>16. ASSUME NEW w \in Workers, AfterRunTask(w) PROVE StateTyped'
  BY <1>16 DEF AfterRunTask, DecrementItems
<1>17. ASSUME NEW w \in Workers, DidProcessTask(w) PROVE StateTyped'
  BY <1>17 DEF DidProcessTask
<1>18. ASSUME NEW w \in Workers, ReEnqueue(w) PROVE StateTyped'
  BY <1>18 DEF ReEnqueue
<1>19. ASSUME NEW t \in Threads, UnregisterItem(t) PROVE StateTyped'
  BY <1>19 DEF UnregisterItem, DecrementItems
<1>20. ASSUME NEW t \in Threads, SignalShutdownEvent(t) PROVE StateTyped'
  BY <1>20 DEF SignalShutdownEvent
<1>21. ASSUME NEW t \in Threads, DecrementIncomplete(t) PROVE StateTyped'
  BY <1>21 DEF DecrementIncomplete
<1>22. ASSUME NEW t \in Threads, NotifyFlush(t) PROVE StateTyped'
  BY <1>22 DEF NotifyFlush, SignalFlush
<1>23. ASSUME NEW t \in Threads, CallFlushCallback(t) PROVE StateTyped'
  BY <1>23 DEF CallFlushCallback, RunFlushCallback
<1>24. ASSUME StartShutdown PROVE StateTyped'
  BY <1>24 DEF StartShutdown
<1>25. ASSUME CreateShutdownEvent PROVE StateTyped'
  BY <1>25 DEF CreateShutdownEvent
<1>26. ASSUME OtherStep PROVE StateTyped'
  BY <1>26 DEF OtherStep
<1> HIDE ThreadsAssumption DEF Threads, TrackerInv, TypeOK, Goto, Return, Blocks, Skips,
        Operation, NoOperation, Posting, Running,
        trackerVars, poolVars, flushVars, OtherStep, threadVars,
        PosterPCs, WorkerPCs, UnregisterPCs, SignalPCs,
        SchedulingInv, WorkersApart, SequencesScheduled, PostersApart, Steps,
        AtSequence, BeforeTake, Locks, Locking, SequenceLockHeld, StateTyped
<1> QED
  BY <1>1, <1>2, <1>3, <1>4, <1>5, <1>6, <1>7, <1>8, <1>9, <1>10, <1>11, <1>12, <1>13, <1>14, <1>15, <1>16, <1>17, <1>18, <1>19, <1>20, <1>21, <1>22, <1>23, <1>24, <1>25, <1>26, StepCases

\* Every step keeps the types of the program counters.
LEMMA PCTypeStep == ASSUME TrackerInv, [Next]_vars PROVE PCsTyped'
<1> USE ThreadsAssumption DEF Threads, TrackerInv, TypeOK, Goto, Return, Blocks, Skips,
        Operation, NoOperation, Posting, Running,
        trackerVars, poolVars, flushVars, OtherStep, threadVars,
        PosterPCs, WorkerPCs, UnregisterPCs, SignalPCs, PCsTyped
<1>1. ASSUME NEW p \in Posters, NEW s \in Sequences, NEW parent \in Workers \cup {None},
              PostTask(p, s, parent)
       PROVE   PCsTyped'
  BY <1>1 DEF PostTask, MayPost
<1>2. ASSUME NEW p \in Posters, NEW s \in Sequences, NEW parent \in Workers \cup {None},
              PostDelayedTask(p, s, parent)
       PROVE   PCsTyped'
  BY <1>2 DEF PostDelayedTask, MayPost
<1>3. ASSUME NEW s \in Sequences, ProcessRipeTask(s) PROVE PCsTyped'
  BY <1>3 DEF ProcessRipeTask
<1>4. ASSUME NEW p \in Posters, CheckPost(p) PROVE PCsTyped'
  BY <1>4 DEF CheckPost, CheckEvent
<1>5. ASSUME NEW p \in Posters, RegisterTaskSource(p) PROVE PCsTyped'
  BY <1>5 DEF RegisterTaskSource, WillPushTask
<1>6. ASSUME NEW p \in Posters, CheckRegister(p) PROVE PCsTyped'
  BY <1>6 DEF CheckRegister, CheckEvent
<1>7. ASSUME NEW p \in Posters, CountIncomplete(p) PROVE PCsTyped'
  BY <1>7 DEF CountIncomplete
<1>8. ASSUME NEW p \in Posters, WillPostTaskNow(p) PROVE PCsTyped'
  BY <1>8 DEF WillPostTaskNow
<1>9. ASSUME NEW p \in Posters, PushTask(p) PROVE PCsTyped'
  BY <1>9 DEF PushTask
<1>10. ASSUME NEW w \in Workers, NEW s \in Sequences, TakeTaskSource(w, s)
       PROVE   PCsTyped'
  BY <1>10 DEF TakeTaskSource
<1>11. ASSUME NEW w \in Workers, BeforeRunTask(w) PROVE PCsTyped'
  BY <1>11 DEF BeforeRunTask
<1>12. ASSUME NEW w \in Workers, UndoBeforeRunTask(w) PROVE PCsTyped'
  BY <1>12 DEF UndoBeforeRunTask, DecrementItems
<1>13. ASSUME NEW w \in Workers, TakeTask(w) PROVE PCsTyped'
  BY <1>13 DEF TakeTask
<1>14. ASSUME NEW w \in Workers, ClearTasks(w) PROVE PCsTyped'
  BY <1>14 DEF ClearTasks
<1>15. ASSUME NEW w \in Workers, FinishTask(w) PROVE PCsTyped'
  BY <1>15 DEF FinishTask
<1>16. ASSUME NEW w \in Workers, AfterRunTask(w) PROVE PCsTyped'
  BY <1>16 DEF AfterRunTask, DecrementItems
<1>17. ASSUME NEW w \in Workers, DidProcessTask(w) PROVE PCsTyped'
  BY <1>17 DEF DidProcessTask
<1>18. ASSUME NEW w \in Workers, ReEnqueue(w) PROVE PCsTyped'
  BY <1>18 DEF ReEnqueue
<1>19. ASSUME NEW t \in Threads, UnregisterItem(t) PROVE PCsTyped'
  BY <1>19 DEF UnregisterItem, DecrementItems
<1>20. ASSUME NEW t \in Threads, SignalShutdownEvent(t) PROVE PCsTyped'
  BY <1>20 DEF SignalShutdownEvent
<1>21. ASSUME NEW t \in Threads, DecrementIncomplete(t) PROVE PCsTyped'
  BY <1>21 DEF DecrementIncomplete
<1>22. ASSUME NEW t \in Threads, NotifyFlush(t) PROVE PCsTyped'
  BY <1>22 DEF NotifyFlush, SignalFlush
<1>23. ASSUME NEW t \in Threads, CallFlushCallback(t) PROVE PCsTyped'
  BY <1>23 DEF CallFlushCallback, RunFlushCallback
<1>24. ASSUME StartShutdown PROVE PCsTyped'
  BY <1>24 DEF StartShutdown
<1>25. ASSUME CreateShutdownEvent PROVE PCsTyped'
  BY <1>25 DEF CreateShutdownEvent
<1>26. ASSUME OtherStep PROVE PCsTyped'
  BY <1>26 DEF OtherStep
<1> HIDE ThreadsAssumption DEF Threads, TrackerInv, TypeOK, Goto, Return, Blocks, Skips,
        Operation, NoOperation, Posting, Running,
        trackerVars, poolVars, flushVars, OtherStep, threadVars,
        PosterPCs, WorkerPCs, UnregisterPCs, SignalPCs, PCsTyped
<1> QED
  BY <1>1, <1>2, <1>3, <1>4, <1>5, <1>6, <1>7, <1>8, <1>9, <1>10, <1>11, <1>12, <1>13, <1>14, <1>15, <1>16, <1>17, <1>18, <1>19, <1>20, <1>21, <1>22, <1>23, <1>24, <1>25, <1>26, StepCases

\* Every step keeps the types of the operations.
LEMMA OpTypeStep == ASSUME TrackerInv, [Next]_vars PROVE OpsTyped'
<1> USE ThreadsAssumption DEF Threads, TrackerInv, trackerVars, poolVars, flushVars, OtherStep, threadVars, TypeOK, Goto, Return
<1>1. ASSUME NEW p \in Posters, NEW s \in Sequences, NEW parent \in Workers \cup {None},
              PostTask(p, s, parent)
       PROVE   OpsTyped'
  <2>1. CASE op' # op
    <3>1. p \in Threads /\ Posting(s, parent, FALSE) \in Operation /\ op' = [op EXCEPT ![p] = Posting(s, parent, FALSE)]
      BY <2>1, <1>1, OperationsTyped DEF PostTask, MayPost, Return, Threads
    <3>2. Posting(s, parent, FALSE).src # None \/ pc'[p] = "idle"
      BY <2>1, <1>1, OperationsTyped DEF PostTask, MayPost, Goto, Return, TypeOK
    <3>3. \A u \in Threads \ {p} : pc'[u] = pc[u]
      BY <2>1, <1>1 DEF PostTask, MayPost, Goto, Return, TypeOK
    <3> QED
      BY <3>1, <3>2, <3>3, OpsSet, TypeParts DEF TrackerInv
  <2>2. CASE op' = op
    <3>1. pc' = pc \/ op' = [op EXCEPT ![p] = Posting(s, parent, FALSE)]
      BY <1>1 DEF PostTask, MayPost
    <3>2. CASE pc' = pc
      BY <2>2, <3>2, OpsKept, TypeParts
    <3>3. CASE op' = [op EXCEPT ![p] = Posting(s, parent, FALSE)]
      <4>1. p \in Threads /\ Posting(s, parent, FALSE) \in Operation /\ op' = [op EXCEPT ![p] = Posting(s, parent, FALSE)]
        BY <3>3, <2>2, <1>1, OperationsTyped DEF PostTask, MayPost, Return, Threads
      <4>2. Posting(s, parent, FALSE).src # None \/ pc'[p] = "idle"
        BY <3>3, <2>2, <1>1, OperationsTyped DEF PostTask, MayPost, Goto, Return, TypeOK
      <4>3. \A u \in Threads \ {p} : pc'[u] = pc[u]
        BY <3>3, <2>2, <1>1 DEF PostTask, MayPost, Goto, Return, TypeOK
      <4> QED
        BY <4>1, <4>2, <4>3, OpsSet, TypeParts DEF TrackerInv
    <3> QED
      BY <3>1, <3>2, <3>3
  <2> QED
    BY <2>1, <2>2
<1>2. ASSUME NEW p \in Posters, NEW s \in Sequences, NEW parent \in Workers \cup {None},
              PostDelayedTask(p, s, parent)
       PROVE   OpsTyped'
  <2>1. op' = op /\ \A u \in Threads : pc[u] = "idle" => pc'[u] = "idle"
    BY <1>2 DEF PostDelayedTask, MayPost, TypeOK, PCsTyped, Goto, Threads
  <2> QED
    BY <2>1, OpsKept, TypeParts DEF TrackerInv
<1>3. ASSUME NEW s \in Sequences, ProcessRipeTask(s) PROVE OpsTyped'
  <2>1. ServiceThread \in Threads /\ Posting(s, None, TRUE) \in Operation /\ op' = [op EXCEPT ![ServiceThread] = Posting(s, None, TRUE)]
    BY <1>3, OperationsTyped DEF ProcessRipeTask, Return, Threads
  <2>2. Posting(s, None, TRUE).src # None \/ pc'[ServiceThread] = "idle"
    BY <1>3, OperationsTyped DEF ProcessRipeTask, Goto, Return, TypeOK
  <2>3. \A u \in Threads \ {ServiceThread} : pc'[u] = pc[u]
    BY <1>3 DEF ProcessRipeTask, Goto, Return, TypeOK
  <2> QED
    BY <2>1, <2>2, <2>3, OpsSet, TypeParts DEF TrackerInv
<1>4. ASSUME NEW p \in Posters, CheckPost(p) PROVE OpsTyped'
  <2>1. op' = op /\ \A u \in Threads : pc[u] = "idle" => pc'[u] = "idle"
    BY <1>4 DEF CheckPost, CheckEvent, TypeOK, PCsTyped, Goto, Threads
  <2> QED
    BY <2>1, OpsKept, TypeParts DEF TrackerInv
<1>5. ASSUME NEW p \in Posters, RegisterTaskSource(p) PROVE OpsTyped'
  <2>1. CASE WillPushTask(op[p].src) /\ ~Blocks(op[p].src) /\ started
    <3>1. p \in Threads /\ NoOperation \in Operation /\ op' = [op EXCEPT ![p] = NoOperation]
      BY <2>1, <1>5, OperationsTyped DEF RegisterTaskSource, Return, Threads
    <3>2. NoOperation.src # None \/ pc'[p] = "idle"
      BY <2>1, <1>5, OperationsTyped DEF RegisterTaskSource, Goto, Return, TypeOK
    <3>3. \A u \in Threads \ {p} : pc'[u] = pc[u]
      BY <2>1, <1>5 DEF RegisterTaskSource, Goto, Return, TypeOK
    <3> QED
      BY <3>1, <3>2, <3>3, OpsSet, TypeParts DEF TrackerInv
  <2>2. CASE WillPushTask(op[p].src) /\ (Blocks(op[p].src) \/ ~started)
    <3>1. op' = [op EXCEPT ![p].fresh = TRUE] /\ pc[p] = "accepted"
      BY <2>2, <1>5 DEF RegisterTaskSource
    <3>2. op[p] \in Operation /\ op[p].src # None
      BY <3>1
    <3>3. op' = [op EXCEPT ![p] = [op[p] EXCEPT !.fresh = TRUE]]
      BY <3>1
    <3>4. [op[p] EXCEPT !.fresh = TRUE] \in Operation /\ [op[p] EXCEPT !.fresh = TRUE].src # None
      BY <3>2, OperationsTyped
    <3>5. \A u \in Threads \ {p} : pc'[u] = pc[u]
      BY <2>2, <1>5 DEF RegisterTaskSource
    <3> QED
      BY <3>3, <3>4, <3>5, OpsSet, TypeParts
  <2>3. CASE ~WillPushTask(op[p].src)
    <3>1. op' = op /\ \A u \in Threads : pc[u] = "idle" => pc'[u] = "idle"
      BY <2>3, <1>5 DEF RegisterTaskSource, TypeOK, PCsTyped, Goto, Threads
    <3> QED
      BY <3>1, OpsKept, TypeParts DEF TrackerInv
  <2> QED
    BY <2>1, <2>2, <2>3
<1>6. ASSUME NEW p \in Posters, CheckRegister(p) PROVE OpsTyped'
  <2>1. op' = op /\ \A u \in Threads : pc[u] = "idle" => pc'[u] = "idle"
    BY <1>6 DEF CheckRegister, CheckEvent, TypeOK, PCsTyped, Goto, Threads
  <2> QED
    BY <2>1, OpsKept, TypeParts DEF TrackerInv
<1>7. ASSUME NEW p \in Posters, CountIncomplete(p) PROVE OpsTyped'
  <2>1. op' = op /\ \A u \in Threads : pc[u] = "idle" => pc'[u] = "idle"
    BY <1>7 DEF CountIncomplete, TypeOK, PCsTyped, Goto, Threads
  <2> QED
    BY <2>1, OpsKept, TypeParts DEF TrackerInv
<1>8. ASSUME NEW p \in Posters, WillPostTaskNow(p) PROVE OpsTyped'
  <2>1. CASE started /\ ~op[p].fresh
    <3>1. p \in Threads /\ NoOperation \in Operation /\ op' = [op EXCEPT ![p] = NoOperation]
      BY <2>1, <1>8, OperationsTyped DEF WillPostTaskNow, Return, Threads
    <3>2. NoOperation.src # None \/ pc'[p] = "idle"
      BY <2>1, <1>8, OperationsTyped DEF WillPostTaskNow, Goto, Return, TypeOK
    <3>3. \A u \in Threads \ {p} : pc'[u] = pc[u]
      BY <2>1, <1>8 DEF WillPostTaskNow, Goto, Return, TypeOK
    <3> QED
      BY <3>1, <3>2, <3>3, OpsSet, TypeParts DEF TrackerInv
  <2>2. CASE ~(started /\ ~op[p].fresh)
    <3>1. op' = op /\ \A u \in Threads : pc[u] = "idle" => pc'[u] = "idle"
      BY <2>2, <1>8 DEF WillPostTaskNow, TypeOK, PCsTyped, Goto, Threads
    <3> QED
      BY <3>1, OpsKept, TypeParts DEF TrackerInv
  <2> QED
    BY <2>1, <2>2
<1>9. ASSUME NEW p \in Posters, PushTask(p) PROVE OpsTyped'
  <2>1. p \in Threads /\ NoOperation \in Operation /\ op' = [op EXCEPT ![p] = NoOperation]
    BY <1>9, OperationsTyped DEF PushTask, Return, Threads
  <2>2. NoOperation.src # None \/ pc'[p] = "idle"
    BY <1>9, OperationsTyped DEF PushTask, Goto, Return, TypeOK
  <2>3. \A u \in Threads \ {p} : pc'[u] = pc[u]
    BY <1>9 DEF PushTask, Goto, Return, TypeOK
  <2> QED
    BY <2>1, <2>2, <2>3, OpsSet, TypeParts DEF TrackerInv
<1>10. ASSUME NEW w \in Workers, NEW s \in Sequences, TakeTaskSource(w, s)
       PROVE   OpsTyped'
  <2>1. w \in Threads /\ Running(s) \in Operation /\ op' = [op EXCEPT ![w] = Running(s)]
    BY <1>10, OperationsTyped DEF TakeTaskSource, Return, Threads
  <2>2. Running(s).src # None \/ pc'[w] = "idle"
    BY <1>10, OperationsTyped DEF TakeTaskSource, Goto, Return, TypeOK
  <2>3. \A u \in Threads \ {w} : pc'[u] = pc[u]
    BY <1>10 DEF TakeTaskSource, Goto, Return, TypeOK
  <2> QED
    BY <2>1, <2>2, <2>3, OpsSet, TypeParts DEF TrackerInv
<1>11. ASSUME NEW w \in Workers, BeforeRunTask(w) PROVE OpsTyped'
  <2>1. op' = op /\ \A u \in Threads : pc[u] = "idle" => pc'[u] = "idle"
    BY <1>11 DEF BeforeRunTask, TypeOK, PCsTyped, Goto, Threads
  <2> QED
    BY <2>1, OpsKept, TypeParts DEF TrackerInv
<1>12. ASSUME NEW w \in Workers, UndoBeforeRunTask(w) PROVE OpsTyped'
  <2>1. op' = op /\ \A u \in Threads : pc[u] = "idle" => pc'[u] = "idle"
    BY <1>12 DEF UndoBeforeRunTask, DecrementItems, TypeOK, PCsTyped, Goto, Threads
  <2> QED
    BY <2>1, OpsKept, TypeParts DEF TrackerInv
<1>13. ASSUME NEW w \in Workers, TakeTask(w) PROVE OpsTyped'
  <2>1. op' = op /\ \A u \in Threads : pc[u] = "idle" => pc'[u] = "idle"
    BY <1>13 DEF TakeTask, TypeOK, PCsTyped, Goto, Threads
  <2> QED
    BY <2>1, OpsKept, TypeParts DEF TrackerInv
<1>14. ASSUME NEW w \in Workers, ClearTasks(w) PROVE OpsTyped'
  <2>1. op' = op /\ \A u \in Threads : pc[u] = "idle" => pc'[u] = "idle"
    BY <1>14 DEF ClearTasks, TypeOK, PCsTyped, Goto, Threads
  <2> QED
    BY <2>1, OpsKept, TypeParts DEF TrackerInv
<1>15. ASSUME NEW w \in Workers, FinishTask(w) PROVE OpsTyped'
  <2>1. op' = op /\ \A u \in Threads : pc[u] = "idle" => pc'[u] = "idle"
    BY <1>15 DEF FinishTask, TypeOK, PCsTyped, Goto, Threads
  <2> QED
    BY <2>1, OpsKept, TypeParts DEF TrackerInv
<1>16. ASSUME NEW w \in Workers, AfterRunTask(w) PROVE OpsTyped'
  <2>1. op' = op /\ \A u \in Threads : pc[u] = "idle" => pc'[u] = "idle"
    BY <1>16 DEF AfterRunTask, DecrementItems, TypeOK, PCsTyped, Goto, Threads
  <2> QED
    BY <2>1, OpsKept, TypeParts DEF TrackerInv
<1>17. ASSUME NEW w \in Workers, DidProcessTask(w) PROVE OpsTyped'
  <2>1. op' = op /\ \A u \in Threads : pc[u] = "idle" => pc'[u] = "idle"
    BY <1>17 DEF DidProcessTask, TypeOK, PCsTyped, Goto, Threads
  <2> QED
    BY <2>1, OpsKept, TypeParts DEF TrackerInv
<1>18. ASSUME NEW w \in Workers, ReEnqueue(w) PROVE OpsTyped'
  <2>1. w \in Threads /\ NoOperation \in Operation /\ op' = [op EXCEPT ![w] = NoOperation]
    BY <1>18, OperationsTyped DEF ReEnqueue, Return, Threads
  <2>2. NoOperation.src # None \/ pc'[w] = "idle"
    BY <1>18, OperationsTyped DEF ReEnqueue, Goto, Return, TypeOK
  <2>3. \A u \in Threads \ {w} : pc'[u] = pc[u]
    BY <1>18 DEF ReEnqueue, Goto, Return, TypeOK
  <2> QED
    BY <2>1, <2>2, <2>3, OpsSet, TypeParts DEF TrackerInv
<1>19. ASSUME NEW t \in Threads, UnregisterItem(t) PROVE OpsTyped'
  <2>1. op' = op /\ \A u \in Threads : pc[u] = "idle" => pc'[u] = "idle"
    BY <1>19 DEF UnregisterItem, DecrementItems, TypeOK, PCsTyped, Goto, Threads
  <2> QED
    BY <2>1, OpsKept, TypeParts DEF TrackerInv
<1>20. ASSUME NEW t \in Threads, SignalShutdownEvent(t) PROVE OpsTyped'
  <2>1. op' = op /\ pc[t] # "idle" /\ \A u \in Threads \ {t} : pc'[u] = pc[u]
    BY <1>20 DEF SignalShutdownEvent, SignalPCs
  <2> QED
    BY <2>1, OpsKept, TypeParts
<1>21. ASSUME NEW t \in Threads, DecrementIncomplete(t) PROVE OpsTyped'
  <2>1. CASE incomplete # 1
    <3>1. t \in Threads /\ NoOperation \in Operation /\ op' = [op EXCEPT ![t] = NoOperation]
      BY <2>1, <1>21, OperationsTyped DEF DecrementIncomplete, Return, Threads
    <3>2. NoOperation.src # None \/ pc'[t] = "idle"
      BY <2>1, <1>21, OperationsTyped DEF DecrementIncomplete, Goto, Return, TypeOK
    <3>3. \A u \in Threads \ {t} : pc'[u] = pc[u]
      BY <2>1, <1>21 DEF DecrementIncomplete, Goto, Return, TypeOK
    <3> QED
      BY <3>1, <3>2, <3>3, OpsSet, TypeParts DEF TrackerInv
  <2>2. CASE incomplete = 1
    <3>1. op' = op /\ \A u \in Threads : pc[u] = "idle" => pc'[u] = "idle"
      BY <2>2, <1>21 DEF DecrementIncomplete, TypeOK, PCsTyped, Goto, Threads
    <3> QED
      BY <3>1, OpsKept, TypeParts DEF TrackerInv
  <2> QED
    BY <2>1, <2>2
<1>22. ASSUME NEW t \in Threads, NotifyFlush(t) PROVE OpsTyped'
  <2>1. op' = op /\ \A u \in Threads : pc[u] = "idle" => pc'[u] = "idle"
    BY <1>22 DEF NotifyFlush, SignalFlush, TypeOK, PCsTyped, Goto, Threads
  <2> QED
    BY <2>1, OpsKept, TypeParts DEF TrackerInv
<1>23. ASSUME NEW t \in Threads, CallFlushCallback(t) PROVE OpsTyped'
  <2>1. t \in Threads /\ NoOperation \in Operation /\ op' = [op EXCEPT ![t] = NoOperation]
    BY <1>23, OperationsTyped DEF CallFlushCallback, RunFlushCallback, Return, Threads
  <2>2. NoOperation.src # None \/ pc'[t] = "idle"
    BY <1>23, OperationsTyped DEF CallFlushCallback, RunFlushCallback, Goto, Return, TypeOK
  <2>3. \A u \in Threads \ {t} : pc'[u] = pc[u]
    BY <1>23 DEF CallFlushCallback, RunFlushCallback, Goto, Return, TypeOK
  <2> QED
    BY <2>1, <2>2, <2>3, OpsSet, TypeParts DEF TrackerInv
<1>24. ASSUME StartShutdown PROVE OpsTyped'
  <2>1. op' = op /\ \A u \in Threads : pc[u] = "idle" => pc'[u] = "idle"
    BY <1>24 DEF StartShutdown, TypeOK, PCsTyped, Goto, Threads
  <2> QED
    BY <2>1, OpsKept, TypeParts DEF TrackerInv
<1>25. ASSUME CreateShutdownEvent PROVE OpsTyped'
  <2>1. op' = op /\ \A u \in Threads : pc[u] = "idle" => pc'[u] = "idle"
    BY <1>25 DEF CreateShutdownEvent, TypeOK, PCsTyped, Goto, Threads
  <2> QED
    BY <2>1, OpsKept, TypeParts DEF TrackerInv
<1>26. ASSUME OtherStep PROVE OpsTyped'
  <2>1. op' = op /\ \A u \in Threads : pc[u] = "idle" => pc'[u] = "idle"
    BY <1>26 DEF OtherStep, TypeOK, PCsTyped, Goto, Threads
  <2> QED
    BY <2>1, OpsKept, TypeParts DEF TrackerInv
<1> HIDE ThreadsAssumption DEF Threads, TrackerInv, trackerVars, poolVars, flushVars, OtherStep, threadVars, TypeOK, Goto, Return
<1> QED
  BY <1>1, <1>2, <1>3, <1>4, <1>5, <1>6, <1>7, <1>8, <1>9, <1>10, <1>11, <1>12, <1>13, <1>14, <1>15, <1>16, <1>17, <1>18, <1>19, <1>20, <1>21, <1>22, <1>23, <1>24, <1>25, <1>26, StepCases

\* Every step keeps the types of the counts.
LEMMA CountTypeStep == ASSUME TrackerInv, [Next]_vars PROVE CountsTyped'
<1> USE ThreadsAssumption DEF Threads, TrackerInv, TypeOK, Goto, Return, Blocks, Skips,
        Operation, NoOperation, Posting, Running,
        trackerVars, poolVars, flushVars, OtherStep, threadVars,
        PosterPCs, WorkerPCs, UnregisterPCs, SignalPCs,
        SchedulingInv, WorkersApart, SequencesScheduled, PostersApart, Steps,
        AtSequence, BeforeTake, Locks, Locking, SequenceLockHeld, CountsTyped
<1>1. ASSUME NEW p \in Posters, NEW s \in Sequences, NEW parent \in Workers \cup {None},
              PostTask(p, s, parent)
       PROVE   CountsTyped'
  BY <1>1 DEF PostTask, MayPost
<1>2. ASSUME NEW p \in Posters, NEW s \in Sequences, NEW parent \in Workers \cup {None},
              PostDelayedTask(p, s, parent)
       PROVE   CountsTyped'
  BY <1>2 DEF PostDelayedTask, MayPost
<1>3. ASSUME NEW s \in Sequences, ProcessRipeTask(s) PROVE CountsTyped'
  BY <1>3 DEF ProcessRipeTask
<1>4. ASSUME NEW p \in Posters, CheckPost(p) PROVE CountsTyped'
  BY <1>4 DEF CheckPost, CheckEvent
<1>5. ASSUME NEW p \in Posters, RegisterTaskSource(p) PROVE CountsTyped'
  BY <1>5 DEF RegisterTaskSource, WillPushTask
<1>6. ASSUME NEW p \in Posters, CheckRegister(p) PROVE CountsTyped'
  BY <1>6 DEF CheckRegister, CheckEvent
<1>7. ASSUME NEW p \in Posters, CountIncomplete(p) PROVE CountsTyped'
  BY <1>7 DEF CountIncomplete
<1>8. ASSUME NEW p \in Posters, WillPostTaskNow(p) PROVE CountsTyped'
  BY <1>8 DEF WillPostTaskNow
<1>9. ASSUME NEW p \in Posters, PushTask(p) PROVE CountsTyped'
  BY <1>9 DEF PushTask
<1>10. ASSUME NEW w \in Workers, NEW s \in Sequences, TakeTaskSource(w, s)
       PROVE   CountsTyped'
  BY <1>10 DEF TakeTaskSource
<1>11. ASSUME NEW w \in Workers, BeforeRunTask(w) PROVE CountsTyped'
  BY <1>11 DEF BeforeRunTask
<1>12. ASSUME NEW w \in Workers, UndoBeforeRunTask(w) PROVE CountsTyped'
  <2>1. Holds(w) /\ w \in Threads \cup Sequences
    BY <1>12 DEF UndoBeforeRunTask, DecrementItems, Holds, WorkerHolds, PosterHolds
  <2>2. items \in Nat /\ items > 0
    BY <2>1, ItemsExactPositive
  <2> QED
    BY <2>2, <1>12 DEF UndoBeforeRunTask, DecrementItems
<1>13. ASSUME NEW w \in Workers, TakeTask(w) PROVE CountsTyped'
  BY <1>13 DEF TakeTask
<1>14. ASSUME NEW w \in Workers, ClearTasks(w) PROVE CountsTyped'
  BY <1>14 DEF ClearTasks
<1>15. ASSUME NEW w \in Workers, FinishTask(w) PROVE CountsTyped'
  BY <1>15 DEF FinishTask
<1>16. ASSUME NEW w \in Workers, AfterRunTask(w) PROVE CountsTyped'
  <2>1. Holds(w) /\ w \in Threads \cup Sequences
    BY <1>16 DEF AfterRunTask, DecrementItems, Holds, WorkerHolds, PosterHolds
  <2>2. items \in Nat /\ items > 0
    BY <2>1, ItemsExactPositive
  <2> QED
    BY <2>2, <1>16 DEF AfterRunTask, DecrementItems
<1>17. ASSUME NEW w \in Workers, DidProcessTask(w) PROVE CountsTyped'
  BY <1>17 DEF DidProcessTask
<1>18. ASSUME NEW w \in Workers, ReEnqueue(w) PROVE CountsTyped'
  BY <1>18 DEF ReEnqueue
<1>19. ASSUME NEW t \in Threads, UnregisterItem(t) PROVE CountsTyped'
  <2>1. Holds(t) /\ t \in Threads \cup Sequences
    BY <1>19 DEF UnregisterItem, DecrementItems, Holds, WorkerHolds, PosterHolds
  <2>2. items \in Nat /\ items > 0
    BY <2>1, ItemsExactPositive
  <2> QED
    BY <2>2, <1>19 DEF UnregisterItem, DecrementItems
<1>20. ASSUME NEW t \in Threads, SignalShutdownEvent(t) PROVE CountsTyped'
  BY <1>20 DEF SignalShutdownEvent
<1>21. ASSUME NEW t \in Threads, DecrementIncomplete(t) PROVE CountsTyped'
  <2>1. HasSource(t) /\ t \in Threads \cup Sequences
    BY <1>21 DEF DecrementIncomplete, HasSource
  <2>2. incomplete \in Nat /\ incomplete > 0
    BY <2>1, IncompleteExactPositive
  <2> QED
    BY <2>2, <1>21 DEF DecrementIncomplete
<1>22. ASSUME NEW t \in Threads, NotifyFlush(t) PROVE CountsTyped'
  BY <1>22 DEF NotifyFlush, SignalFlush
<1>23. ASSUME NEW t \in Threads, CallFlushCallback(t) PROVE CountsTyped'
  BY <1>23 DEF CallFlushCallback, RunFlushCallback
<1>24. ASSUME StartShutdown PROVE CountsTyped'
  BY <1>24 DEF StartShutdown
<1>25. ASSUME CreateShutdownEvent PROVE CountsTyped'
  BY <1>25 DEF CreateShutdownEvent
<1>26. ASSUME OtherStep PROVE CountsTyped'
  BY <1>26 DEF OtherStep
<1> HIDE ThreadsAssumption DEF Threads, TrackerInv, TypeOK, Goto, Return, Blocks, Skips,
        Operation, NoOperation, Posting, Running,
        trackerVars, poolVars, flushVars, OtherStep, threadVars,
        PosterPCs, WorkerPCs, UnregisterPCs, SignalPCs,
        SchedulingInv, WorkersApart, SequencesScheduled, PostersApart, Steps,
        AtSequence, BeforeTake, Locks, Locking, SequenceLockHeld, CountsTyped
<1> QED
  BY <1>1, <1>2, <1>3, <1>4, <1>5, <1>6, <1>7, <1>8, <1>9, <1>10, <1>11, <1>12, <1>13, <1>14, <1>15, <1>16, <1>17, <1>18, <1>19, <1>20, <1>21, <1>22, <1>23, <1>24, <1>25, <1>26, StepCases

\* A post spends one of the posts left; a ripe task was counted before.
LEMMA PostsSpent ==
    ASSUME Post PROVE posts' = posts \/ (posts > 0 /\ posts' = posts - 1)
<1> DEFINE Spent == posts > 0 /\ posts' = posts - 1
<1>1. ASSUME NEW p \in Posters, NEW s \in Sequences, NEW x \in Workers \cup {None},
             PostTask(p, s, x) \/ PostDelayedTask(p, s, x)
      PROVE  Spent
  BY <1>1 DEF PostTask, PostDelayedTask, MayPost
<1>2. ASSUME NEW s \in Sequences, ProcessRipeTask(s) PROVE posts' = posts
  BY <1>2 DEF ProcessRipeTask
<1> HIDE DEF Spent
<1>3. Spent \/ posts' = posts
  BY <1>1, <1>2 DEF Post
<1> QED
  BY <1>3 DEF Spent

\* Every step keeps the types of the other variables.
LEMMA OthersTypeStep == ASSUME OthersTyped, [Next]_vars PROVE OthersTyped'
<1> USE DEF OthersTyped, trackerVars, poolVars, flushVars, UnchangedButFlush, MainPCs
<1>1. ASSUME Post PROVE OthersTyped'
  <2>1. UNCHANGED <<policy, fences, main, flusher, async, callback, changes>>
    BY <1>1 DEF Post, PostTask, PostDelayedTask, ProcessRipeTask
  <2>2. posts' = posts \/ (posts > 0 /\ posts' = posts - 1)
    BY <1>1, PostsSpent
  <2> QED
    BY <2>1, <2>2
<1>2. ASSUME NEW p \in Posters, PosterStep(p) PROVE OthersTyped'
  BY <1>2 DEF PosterStep, CheckPost, CheckRegister, CheckEvent, RegisterTaskSource,
      CountIncomplete, WillPostTaskNow, PushTask
<1>3. ASSUME NEW w \in Workers, WorkerStep(w) PROVE OthersTyped'
  <2>1. UNCHANGED <<policy, fences, main, flusher, async, callback, posts, changes>>
    BY <1>3 DEF WorkerStep, BeforeRunTask, UndoBeforeRunTask, TakeTask, ClearTasks,
        FinishTask, AfterRunTask, DidProcessTask, ReEnqueue, TakeTaskSource,
        DecrementItems
  <2> QED
    BY <2>1
<1>4. ASSUME NEW t \in Threads, ReleaseStep(t) PROVE OthersTyped'
  BY <1>4 DEF ReleaseStep, UnregisterItem, DecrementItems, SignalShutdownEvent,
      DecrementIncomplete, NotifyFlush, SignalFlush, CallFlushCallback, RunFlushCallback
<1>5. ASSUME NEW kind \in {"all", "bestEffort"}, ChangeFence(kind) PROVE OthersTyped'
  BY <1>5 DEF ChangeFence, PolicyFor
<1>6. ASSUME StopServiceThread \/ MainStep PROVE OthersTyped'
  BY <1>6 DEF StopServiceThread, MainStep, CreateShutdownEvent, StartShutdown,
      UpdateCanRunPolicy, PolicyFor, WaitShutdownEvent, CompleteShutdownSignal,
      SignalFlush, CompleteShutdownCallback, RunFlushCallback
<1>7. ASSUME NEW f \in Flushers, StartFlush(f) \/ FlushStep(f) PROVE OthersTyped'
  BY <1>7 DEF StartFlush, FlushStep, FlushLoad, FlushCheck
<1>8. ASSUME FlushAsync \/ AsyncStep PROVE OthersTyped'
  BY <1>8 DEF FlushAsync, AsyncStep, FlushAsyncLoad, FlushAsyncCheck, FlushAsyncTake,
      RunFlushCallback
<1>9. ASSUME UNCHANGED vars PROVE OthersTyped'
  BY <1>9 DEF vars
<1> HIDE DEF OthersTyped, trackerVars, poolVars, flushVars, UnchangedButFlush, MainPCs
<1> QED
  BY <1>1, <1>2, <1>3, <1>4, <1>5, <1>6, <1>7, <1>8, <1>9 DEF Next

\* Every step keeps the type invariant.
LEMMA TypeStep == ASSUME TrackerInv, [Next]_vars PROVE TypeOK'
<1>1. OthersTyped
  BY TypeParts DEF TrackerInv
<1>2. TypeOK' <=> (StateTyped /\ PCsTyped /\ OpsTyped /\ CountsTyped /\ OthersTyped)'
  BY DEF TypeOK, StateTyped, PCsTyped, OpsTyped, CountsTyped, OthersTyped
<1> QED
  BY <1>1, <1>2, StateTypeStep, PCTypeStep, OpTypeStep, CountTypeStep, OthersTypeStep

\* Every step leaves early items with those who hold an item.
LEMMA EarlyStep == ASSUME TrackerInv, [Next]_vars PROVE EarlyHold'
<1> USE ThreadsAssumption DEF Threads, TrackerInv, TypeOK, Goto, Return, Blocks, Skips,
        Operation, NoOperation, Posting, Running,
        trackerVars, poolVars, flushVars, OtherStep, threadVars,
        PosterPCs, WorkerPCs, UnregisterPCs, SignalPCs,
        SchedulingInv, WorkersApart, SequencesScheduled, PostersApart, Steps,
        AtSequence, BeforeTake, Locks, Locking, SequenceLockHeld,
        EarlyHold, Early, Holds, WorkerHolds, PosterHolds
<1>1. ASSUME NEW p \in Posters, NEW s \in Sequences, NEW parent \in Workers \cup {None},
              PostTask(p, s, parent)
       PROVE   EarlyHold'
  BY <1>1 DEF PostTask, MayPost
<1>2. ASSUME NEW p \in Posters, NEW s \in Sequences, NEW parent \in Workers \cup {None},
              PostDelayedTask(p, s, parent)
       PROVE   EarlyHold'
  BY <1>2 DEF PostDelayedTask, MayPost
<1>3. ASSUME NEW s \in Sequences, ProcessRipeTask(s) PROVE EarlyHold'
  BY <1>3 DEF ProcessRipeTask
<1>4. ASSUME NEW p \in Posters, CheckPost(p) PROVE EarlyHold'
  BY <1>4 DEF CheckPost, CheckEvent
<1>5. ASSUME NEW p \in Posters, RegisterTaskSource(p) PROVE EarlyHold'
  BY <1>5 DEF RegisterTaskSource, WillPushTask
<1>6. ASSUME NEW p \in Posters, CheckRegister(p) PROVE EarlyHold'
  BY <1>6 DEF CheckRegister, CheckEvent
<1>7. ASSUME NEW p \in Posters, CountIncomplete(p) PROVE EarlyHold'
  BY <1>7 DEF CountIncomplete
<1>8. ASSUME NEW p \in Posters, WillPostTaskNow(p) PROVE EarlyHold'
  BY <1>8 DEF WillPostTaskNow
<1>9. ASSUME NEW p \in Posters, PushTask(p) PROVE EarlyHold'
  <2>0. PICK s \in Sequences : s = op[p].src
    BY <1>9 DEF PushTask
  <2>1. CASE op[p].fresh
    <3>1. early' = [early EXCEPT ![s] = early[p], ![p] = FALSE] /\ pc[p] = "push"
      BY <2>0, <2>1, <1>9 DEF PushTask
    <3>2. early[p] => Blocks(s)
      BY <2>0, <2>1, <3>1 DEF SignalPCs
    <3>3. inPool' = inPool \cup {s} /\ s \notin Threads /\ behavior' = behavior
      BY <2>0, <2>1, <1>9 DEF PushTask
    <3>4. \A x \in (Threads \cup Sequences) \ {s, p} : Holds(x) => Holds(x)'
      BY <2>0, <2>1, <1>9 DEF PushTask
    <3>5. early'[s] => Holds(s)'
      BY <2>0, <3>1, <3>2, <3>3
    <3>6. ~early'[p] /\ \A x \in (Threads \cup Sequences) \ {s, p} : early'[x] = early[x]
      BY <2>0, <3>1, <3>3
    <3> QED
      BY <3>4, <3>5, <3>6
  <2>2. CASE ~op[p].fresh
    <3>1. early' = early
      BY <2>2, <1>9 DEF PushTask
    <3>2. \A x \in Threads \cup Sequences : Holds(x) => Holds(x)'
      BY <2>2, <1>9 DEF PushTask
    <3> QED
      BY <3>1, <3>2
  <2> QED
    BY <2>1, <2>2
<1>10. ASSUME NEW w \in Workers, NEW s \in Sequences, TakeTaskSource(w, s)
       PROVE   EarlyHold'
  BY <1>10 DEF TakeTaskSource
<1>11. ASSUME NEW w \in Workers, BeforeRunTask(w) PROVE EarlyHold'
  BY <1>11 DEF BeforeRunTask
<1>12. ASSUME NEW w \in Workers, UndoBeforeRunTask(w) PROVE EarlyHold'
  BY <1>12 DEF UndoBeforeRunTask, DecrementItems
<1>13. ASSUME NEW w \in Workers, TakeTask(w) PROVE EarlyHold'
  BY <1>13 DEF TakeTask
<1>14. ASSUME NEW w \in Workers, ClearTasks(w) PROVE EarlyHold'
  BY <1>14 DEF ClearTasks
<1>15. ASSUME NEW w \in Workers, FinishTask(w) PROVE EarlyHold'
  BY <1>15 DEF FinishTask
<1>16. ASSUME NEW w \in Workers, AfterRunTask(w) PROVE EarlyHold'
  BY <1>16 DEF AfterRunTask, DecrementItems
<1>17. ASSUME NEW w \in Workers, DidProcessTask(w) PROVE EarlyHold'
  BY <1>17 DEF DidProcessTask
<1>18. ASSUME NEW w \in Workers, ReEnqueue(w) PROVE EarlyHold'
  BY <1>18 DEF ReEnqueue
<1>19. ASSUME NEW t \in Threads, UnregisterItem(t) PROVE EarlyHold'
  BY <1>19 DEF UnregisterItem, DecrementItems
<1>20. ASSUME NEW t \in Threads, SignalShutdownEvent(t) PROVE EarlyHold'
  BY <1>20 DEF SignalShutdownEvent
<1>21. ASSUME NEW t \in Threads, DecrementIncomplete(t) PROVE EarlyHold'
  BY <1>21 DEF DecrementIncomplete
<1>22. ASSUME NEW t \in Threads, NotifyFlush(t) PROVE EarlyHold'
  BY <1>22 DEF NotifyFlush, SignalFlush
<1>23. ASSUME NEW t \in Threads, CallFlushCallback(t) PROVE EarlyHold'
  BY <1>23 DEF CallFlushCallback, RunFlushCallback
<1>24. ASSUME StartShutdown PROVE EarlyHold'
  BY <1>24 DEF StartShutdown
<1>25. ASSUME CreateShutdownEvent PROVE EarlyHold'
  BY <1>25 DEF CreateShutdownEvent
<1>26. ASSUME OtherStep PROVE EarlyHold'
  BY <1>26 DEF OtherStep
<1> HIDE ThreadsAssumption DEF Threads, TrackerInv, TypeOK, Goto, Return, Blocks, Skips,
        Operation, NoOperation, Posting, Running,
        trackerVars, poolVars, flushVars, OtherStep, threadVars,
        PosterPCs, WorkerPCs, UnregisterPCs, SignalPCs,
        SchedulingInv, WorkersApart, SequencesScheduled, PostersApart, Steps,
        AtSequence, BeforeTake, Locks, Locking, SequenceLockHeld,
        EarlyHold, Early, Holds, WorkerHolds, PosterHolds
<1> QED
  BY <1>1, <1>2, <1>3, <1>4, <1>5, <1>6, <1>7, <1>8, <1>9, <1>10, <1>11, <1>12, <1>13, <1>14, <1>15, <1>16, <1>17, <1>18, <1>19, <1>20, <1>21, <1>22, <1>23, <1>24, <1>25, <1>26, StepCases

\* No step brings an early item back once shutdown is over.
LEMMA OverStep == ASSUME TrackerInv, [Next]_vars PROVE NoEarlyOnceOver'
<1> USE ThreadsAssumption DEF Threads, TrackerInv, TypeOK, Goto, Return, Blocks, Skips,
        Operation, NoOperation, Posting, Running,
        trackerVars, poolVars, flushVars, OtherStep, threadVars,
        PosterPCs, WorkerPCs, UnregisterPCs, SignalPCs,
        SchedulingInv, WorkersApart, SequencesScheduled, PostersApart, Steps,
        AtSequence, BeforeTake, Locks, Locking, SequenceLockHeld,
        NoEarlyOnceOver, ShutdownStages, Early
<1>1. ASSUME NEW p \in Posters, NEW s \in Sequences, NEW parent \in Workers \cup {None},
              PostTask(p, s, parent)
       PROVE   NoEarlyOnceOver'
  BY <1>1 DEF PostTask, MayPost
<1>2. ASSUME NEW p \in Posters, NEW s \in Sequences, NEW parent \in Workers \cup {None},
              PostDelayedTask(p, s, parent)
       PROVE   NoEarlyOnceOver'
  BY <1>2 DEF PostDelayedTask, MayPost
<1>3. ASSUME NEW s \in Sequences, ProcessRipeTask(s) PROVE NoEarlyOnceOver'
  BY <1>3 DEF ProcessRipeTask
<1>4. ASSUME NEW p \in Posters, CheckPost(p) PROVE NoEarlyOnceOver'
  BY <1>4 DEF CheckPost, CheckEvent
<1>5. ASSUME NEW p \in Posters, RegisterTaskSource(p) PROVE NoEarlyOnceOver'
  BY <1>5 DEF RegisterTaskSource, WillPushTask
<1>6. ASSUME NEW p \in Posters, CheckRegister(p) PROVE NoEarlyOnceOver'
  BY <1>6 DEF CheckRegister, CheckEvent
<1>7. ASSUME NEW p \in Posters, CountIncomplete(p) PROVE NoEarlyOnceOver'
  BY <1>7 DEF CountIncomplete
<1>8. ASSUME NEW p \in Posters, WillPostTaskNow(p) PROVE NoEarlyOnceOver'
  BY <1>8 DEF WillPostTaskNow
<1>9. ASSUME NEW p \in Posters, PushTask(p) PROVE NoEarlyOnceOver'
  <2>1. UNCHANGED event /\ \A t \in Threads : pc'[t] \in SignalPCs => pc[t] \in SignalPCs
    BY <1>9 DEF PushTask
  <2>2. \/ early' = early
        \/ early' = [early EXCEPT ![op[p].src] = early[p], ![p] = FALSE]
    BY <1>9 DEF PushTask
  <2>3. /\ op[p].src \in Threads \cup Sequences /\ p \in Threads \cup Sequences
        /\ early \in [Threads \cup Sequences -> BOOLEAN]
    BY <1>9 DEF PushTask
  <2>4. (\A x \in Threads \cup Sequences : ~early[x]) => \A x \in Threads \cup Sequences : ~early'[x]
    <3>1. CASE early' = early
      BY <3>1
    <3>2. CASE early' = [early EXCEPT ![op[p].src] = early[p], ![p] = FALSE]
      BY <2>3, <3>2
    <3> QED
      BY <2>2, <3>1, <3>2
  <2> QED
    BY <2>1, <2>4
<1>10. ASSUME NEW w \in Workers, NEW s \in Sequences, TakeTaskSource(w, s)
       PROVE   NoEarlyOnceOver'
  BY <1>10 DEF TakeTaskSource
<1>11. ASSUME NEW w \in Workers, BeforeRunTask(w) PROVE NoEarlyOnceOver'
  BY <1>11 DEF BeforeRunTask
<1>12. ASSUME NEW w \in Workers, UndoBeforeRunTask(w) PROVE NoEarlyOnceOver'
  <2>1. Holds(w) /\ w \in Threads \cup Sequences
    BY <1>12 DEF UndoBeforeRunTask, DecrementItems, Holds, WorkerHolds, PosterHolds
  <2>2. CASE started /\ items = 1
    <3>1. \A x \in Threads \cup Sequences : early[x] => x = w
      BY <2>1, <2>2, ItemsExactPositive DEF EarlyHold
    <3>2. early' = [early EXCEPT ![w] = FALSE]
      BY <1>12 DEF UndoBeforeRunTask, DecrementItems
    <3> QED
      BY <2>1, <3>1, <3>2
  <2>3. CASE ~(started /\ items = 1)
    BY <2>3, <1>12 DEF UndoBeforeRunTask, DecrementItems
  <2> QED
    BY <2>2, <2>3
<1>13. ASSUME NEW w \in Workers, TakeTask(w) PROVE NoEarlyOnceOver'
  BY <1>13 DEF TakeTask
<1>14. ASSUME NEW w \in Workers, ClearTasks(w) PROVE NoEarlyOnceOver'
  BY <1>14 DEF ClearTasks
<1>15. ASSUME NEW w \in Workers, FinishTask(w) PROVE NoEarlyOnceOver'
  BY <1>15 DEF FinishTask
<1>16. ASSUME NEW w \in Workers, AfterRunTask(w) PROVE NoEarlyOnceOver'
  <2>1. Holds(w) /\ w \in Threads \cup Sequences
    BY <1>16 DEF AfterRunTask, DecrementItems, Holds, WorkerHolds, PosterHolds
  <2>2. CASE started /\ items = 1
    <3>1. \A x \in Threads \cup Sequences : early[x] => x = w
      BY <2>1, <2>2, ItemsExactPositive DEF EarlyHold
    <3>2. early' = [early EXCEPT ![w] = FALSE]
      BY <1>16 DEF AfterRunTask, DecrementItems
    <3> QED
      BY <2>1, <3>1, <3>2
  <2>3. CASE ~(started /\ items = 1)
    BY <2>3, <1>16 DEF AfterRunTask, DecrementItems
  <2> QED
    BY <2>2, <2>3
<1>17. ASSUME NEW w \in Workers, DidProcessTask(w) PROVE NoEarlyOnceOver'
  BY <1>17 DEF DidProcessTask
<1>18. ASSUME NEW w \in Workers, ReEnqueue(w) PROVE NoEarlyOnceOver'
  BY <1>18 DEF ReEnqueue
<1>19. ASSUME NEW t \in Threads, UnregisterItem(t) PROVE NoEarlyOnceOver'
  <2>1. Holds(t) /\ t \in Threads \cup Sequences
    BY <1>19 DEF UnregisterItem, DecrementItems, Holds, WorkerHolds, PosterHolds
  <2>2. CASE started /\ items = 1
    <3>1. \A x \in Threads \cup Sequences : early[x] => x = t
      BY <2>1, <2>2, ItemsExactPositive DEF EarlyHold
    <3>2. early' = [early EXCEPT ![t] = FALSE]
      BY <1>19 DEF UnregisterItem, DecrementItems
    <3> QED
      BY <2>1, <3>1, <3>2
  <2>3. CASE ~(started /\ items = 1)
    BY <2>3, <1>19 DEF UnregisterItem, DecrementItems
  <2> QED
    BY <2>2, <2>3
<1>20. ASSUME NEW t \in Threads, SignalShutdownEvent(t) PROVE NoEarlyOnceOver'
  BY <1>20 DEF SignalShutdownEvent
<1>21. ASSUME NEW t \in Threads, DecrementIncomplete(t) PROVE NoEarlyOnceOver'
  BY <1>21 DEF DecrementIncomplete
<1>22. ASSUME NEW t \in Threads, NotifyFlush(t) PROVE NoEarlyOnceOver'
  BY <1>22 DEF NotifyFlush, SignalFlush
<1>23. ASSUME NEW t \in Threads, CallFlushCallback(t) PROVE NoEarlyOnceOver'
  BY <1>23 DEF CallFlushCallback, RunFlushCallback
<1>24. ASSUME StartShutdown PROVE NoEarlyOnceOver'
  <2>1. early' = early /\ pc' = pc
    BY <1>24 DEF StartShutdown
  <2>2. CASE items = 0
    <3>1. \A x \in Threads \cup Sequences : ~Holds(x)
      BY <2>2, ItemsExactPositive
    <3> QED
      BY <2>1, <3>1 DEF EarlyHold
  <2>3. CASE items # 0
    BY <2>1, <2>3, <1>24 DEF StartShutdown
  <2> QED
    BY <2>2, <2>3
<1>25. ASSUME CreateShutdownEvent PROVE NoEarlyOnceOver'
  BY <1>25 DEF CreateShutdownEvent
<1>26. ASSUME OtherStep PROVE NoEarlyOnceOver'
  BY <1>26 DEF OtherStep
<1> HIDE ThreadsAssumption DEF Threads, TrackerInv, TypeOK, Goto, Return, Blocks, Skips,
        Operation, NoOperation, Posting, Running,
        trackerVars, poolVars, flushVars, OtherStep, threadVars,
        PosterPCs, WorkerPCs, UnregisterPCs, SignalPCs,
        SchedulingInv, WorkersApart, SequencesScheduled, PostersApart, Steps,
        AtSequence, BeforeTake, Locks, Locking, SequenceLockHeld,
        NoEarlyOnceOver, ShutdownStages, Early
<1> QED
  BY <1>1, <1>2, <1>3, <1>4, <1>5, <1>6, <1>7, <1>8, <1>9, <1>10, <1>11, <1>12, <1>13, <1>14, <1>15, <1>16, <1>17, <1>18, <1>19, <1>20, <1>21, <1>22, <1>23, <1>24, <1>25, <1>26, StepCases

-----------------------------------------------------------------------------
(* The theorems.                                                           *)

\* The invariant holds initially.
LEMMA TrackerInit == Init => TrackerInv
<1> SUFFICES ASSUME Init PROVE TrackerInv
  OBVIOUS
<1> USE ThreadsAssumption, BoundsAssumption DEF Init, Threads
<1>1. TypeOK
  BY DEF TypeOK, PosterPCs, WorkerPCs, MainPCs, NoOperation, Posting, Operation
<1>2. SchedulingInv /\ Steps /\ IdleThreads /\ ShutdownStages
  BY DEF SchedulingInv, WorkersApart, SequencesScheduled, PostersApart, Steps,
     IdleThreads, ShutdownStages, AtSequence, Locks, Locking, UnregisterPCs,
     SignalPCs, NoOperation, Posting
<1>3. EarlyHold /\ NoEarlyOnceOver
  BY DEF EarlyHold, NoEarlyOnceOver
<1>4. Holders = {} /\ Registered = {}
  BY DEF Holders, Holds, WorkerHolds, PosterHolds, Registered, HasSource, NoOperation,
     Posting
<1>5. ItemsExact /\ IncompleteExact
  BY <1>4, FS_EmptySet DEF ItemsExact, IncompleteExact
<1> QED
  BY <1>1, <1>2, <1>3, <1>5 DEF TrackerInv

\* The invariant is inductive, so it holds always.
THEOREM TrackerInvariant == Spec => []TrackerInv
<1>1. TrackerInv /\ [Next]_vars => TrackerInv'
  <2> SUFFICES ASSUME TrackerInv, [Next]_vars PROVE TrackerInv'
    OBVIOUS
  <2>1. SchedulingInv'
    BY WorkersStep, SequencesStep, PostersStep DEF SchedulingInv
  <2>2. Steps' /\ IdleThreads' /\ ShutdownStages' /\ TypeOK'
    BY StepsStep, IdleStep, StagesStep, TypeStep
  <2>3. ItemsExact' /\ IncompleteExact' /\ EarlyHold' /\ NoEarlyOnceOver'
    BY ItemsStep, IncompleteStep, EarlyStep, OverStep
  <2> QED
    BY <2>1, <2>2, <2>3 DEF TrackerInv
<1> QED
  BY TrackerInit, <1>1, PTL DEF Spec

\* The types hold.
THEOREM TypesHold == Spec => []TypeOK
<1>1. TrackerInv => TypeOK
  BY DEF TrackerInv
<1> QED
  BY <1>1, TrackerInvariant, PTL

\* The items in State::bits_ are exactly those held.
THEOREM ItemsAreExact == Spec => []ItemsExact
<1>1. TrackerInv => ItemsExact
  BY DEF TrackerInv
<1> QED
  BY <1>1, TrackerInvariant, PTL

\* num_incomplete_task_sources_ counts exactly the registered sources.
THEOREM IncompleteIsExact == Spec => []IncompleteExact
<1>1. TrackerInv => IncompleteExact
  BY DEF TrackerInv
<1> QED
  BY <1>1, TrackerInvariant, PTL

\* When shutdown is complete, what was to be waited for is done.
THEOREM ShutdownCompletesLast == Spec => []ShutdownMeansDone
<1>1. TrackerInv => ShutdownMeansDone
  BY DEF TrackerInv, NoEarlyOnceOver, ShutdownMeansDone, Holders
<1> QED
  BY <1>1, TrackerInvariant, PTL

\* The event exists for whoever may use it.
THEOREM EventAlwaysExists == Spec => []EventExists
<1>1. TrackerInv => EventExists
  BY DEF TrackerInv, ShutdownStages, EventExists, ShutdownLockHeld
<1> QED
  BY <1>1, TrackerInvariant, PTL

\* A sequence with tasks is in one place, the pool or a worker.
THEOREM AlwaysScheduledOnce == Spec => []ScheduledOnce
<1>1. ASSUME TrackerInv PROVE ScheduledOnce
  <2> SUFFICES ASSUME NEW s \in Sequences
               PROVE  /\ Cardinality(InCharge(s)) + (IF s \in inPool THEN 1 ELSE 0) <= 1
                      /\ queue[s] > 0 => s \in inPool \/ InCharge(s) # {}
    BY DEF ScheduledOnce
  <2> USE <1>1, ThreadsAssumption DEF TrackerInv, SchedulingInv
  <2>1. InCharge(s) = {w \in Workers : pc[w] \in AtSequence /\ op[w].src = s}
    BY DEF InCharge, AtSequence, IdleThreads, TypeOK, WorkerPCs, UnregisterPCs, Threads
  <2>2. queue[s] > 0 => s \in inPool \/ InCharge(s) # {}
    BY <2>1 DEF SequencesScheduled
  <2>3. CASE InCharge(s) = {}
    BY <2>2, <2>3, FS_EmptySet
  <2>4. ASSUME NEW w \in InCharge(s) PROVE Cardinality(InCharge(s)) = 1 /\ s \notin inPool
    <3>1. InCharge(s) = {w} /\ s \notin inPool
      BY <2>1, <2>4 DEF WorkersApart
    <3> QED
      BY <3>1, FS_Singleton
  <2> QED
    BY <2>2, <2>3, <2>4
<1> QED
  BY <1>1, TrackerInvariant, PTL
=============================================================================
