--------------------------- MODULE JobTaskSource ---------------------------
(***************************************************************************)
(* A parallel job of the thread pool: task/thread_pool/job_task_source,    *)
(* the JobHandle and JobDelegate of task/post_job, and the parts of        *)
(* ThreadGroup, TaskTracker and ThreadPoolImpl that queue, run and remove  *)
(* the job.  Pool workers and the thread that owns the JobHandle run       *)
(* concurrently.  A step is one access to state that another thread can    *)
(* observe: an operation on the atomic word, on the join flag, or a call   *)
(* of the max concurrency callback.  The two locks involved (lock_ of the  *)
(* task source, lock_ of the thread group) are held in the pcs listed by   *)
(* JobLockHeld and GroupLockHeld.                                          *)
(***************************************************************************)
EXTENDS Naturals, FiniteSets

CONSTANTS
    Workers,         \* threads of the pool
    Owner,           \* the thread that holds the JobHandle
    MaxConcurrency,  \* largest value max_concurrency_callback may return
    Budget           \* bounds on the optional events, see BudgetKinds

BudgetKinds == {"raise", "poolYield", "spuriousWakeup", "shutdown"}

ASSUME WorkersAssumption == IsFiniteSet(Workers) /\ Owner \notin Workers
ASSUME BoundsAssumption ==
    MaxConcurrency \in Nat /\ Budget \in [BudgetKinds -> Nat]

Threads == Workers \cup {Owner}

\* JoinFlag::kNotWaiting, kWaitingForWorkerToSignal, kWaitingForWorkerToYield.
NotWaiting == 0
WaitingForSignal == 1
WaitingForYield == 3

VARIABLES
    workerCount,     \* State::value_ >> 1
    canceled,        \* State::value_ & kCanceledMask
    joinFlag,        \* join_flag_
    maxConcurrency,  \* what max_concurrency_callback returns now
    queued,          \* the task source's heap_handle is valid
    shutdown,        \* TaskTracker's shutdown has started
    pc,              \* where each thread is
    seen,            \* the word and max concurrency each thread last read
    budget           \* optional events left

vars == <<workerCount, canceled, joinFlag, maxConcurrency, queued, shutdown,
          pc, seen, budget>>

WorkerPCs == {"idle", "take", "taken"}
BodyPCs == {"poll", "pollCancel", "item", "raised", "push"}
DonePCs == {"did", "signal", "decide", "requeue"}
OwnerPCs == {"holding", "promote", "moving", "join", "check", "await", "awaitMax",
             "waiting", "leave", "remove", "joined", "detached"}

Seen == [count: Nat, canceled: BOOLEAN, max: Nat]

TypeOK ==
    /\ workerCount \in Nat
    /\ canceled \in BOOLEAN
    /\ joinFlag \in {NotWaiting, WaitingForSignal, WaitingForYield}
    /\ maxConcurrency \in 0..MaxConcurrency
    /\ queued \in BOOLEAN
    /\ shutdown \in BOOLEAN
    /\ pc \in [Threads -> WorkerPCs \cup BodyPCs \cup DonePCs \cup OwnerPCs]
    /\ seen \in [Threads -> Seen]
    /\ budget \in [BudgetKinds -> Nat]

JobLockHeld == \E t \in Threads :
    pc[t] \in {"signal", "decide", "awaitMax", "leave", "moving"}
GroupLockHeld == \E w \in Workers : pc[w] = "take"

Goto(t, label) == pc' = [pc EXCEPT ![t] = label]
See(t, n, c, m) ==
    seen' = [seen EXCEPT ![t] = [count |-> n, canceled |-> c, max |-> m]]
Spend(kind) ==
    /\ budget[kind] > 0
    /\ budget' = [budget EXCEPT ![kind] = @ - 1]

\* PostJob registered and pushed the new task source.
Init ==
    /\ workerCount = 0
    /\ canceled = FALSE
    /\ joinFlag = NotWaiting
    /\ maxConcurrency \in 0..MaxConcurrency
    /\ queued = TRUE
    /\ shutdown = FALSE
    /\ pc = [t \in Threads |-> IF t = Owner THEN "holding" ELSE "idle"]
    /\ seen = [t \in Threads |-> [count |-> 0, canceled |-> FALSE, max |-> 0]]
    /\ budget = Budget

-----------------------------------------------------------------------------
(* A worker gets the task source from the priority queue.                  *)

\* Under the group's lock, WillRunTask reads the max concurrency ...
TakeBegin(w) ==
    /\ pc[w] = "idle"
    /\ queued /\ ~GroupLockHeld
    /\ See(w, 0, FALSE, maxConcurrency)
    /\ Goto(w, "take")
    /\ UNCHANGED <<workerCount, canceled, joinFlag, maxConcurrency, queued,
                   shutdown, budget>>

MayIncrement(w) == ~canceled /\ workerCount < seen[w].max

\* ... and then tries to add itself to the word: kAllowedNotSaturated leaves
\* the task source queued if a second registration is granted, every other
\* outcome pops it.
TakeEnd(w) ==
    /\ pc[w] = "take"
    /\ IF MayIncrement(w)
       THEN /\ workerCount' = workerCount + 1
            /\ queued' = (workerCount + 1 < seen[w].max /\ ~shutdown)
            /\ Goto(w, "taken")
       ELSE /\ queued' = FALSE
            /\ Goto(w, "idle")
            /\ UNCHANGED workerCount
    /\ UNCHANGED <<canceled, joinFlag, maxConcurrency, shutdown, seen, budget>>

\* Mutation of RunOrClear: a cleared task skips DidProcessTask.
RunOrForget(w) ==
    /\ pc[w] = "taken"
    /\ ~JobLockHeld
    /\ canceled' = (canceled \/ shutdown)
    /\ Goto(w, IF shutdown THEN "idle" ELSE "poll")
    /\ UNCHANGED <<workerCount, joinFlag, maxConcurrency, queued, shutdown,
                   seen, budget>>

\* BeforeRunTask lets a SKIP_ON_SHUTDOWN task run unless shutdown has started;
\* then Clear cancels the job instead.
RunOrClear(w) ==
    /\ pc[w] = "taken"
    /\ ~JobLockHeld
    /\ canceled' = (canceled \/ shutdown)
    /\ Goto(w, IF shutdown THEN "did" ELSE "poll")
    /\ UNCHANGED <<workerCount, joinFlag, maxConcurrency, queued, shutdown,
                   seen, budget>>

-----------------------------------------------------------------------------
(* worker_task, run by a worker or by the joining thread.                  *)

\* ShouldYield, first operand: JoinFlag::ShouldWorkerYield.
PollJoinFlag(t) ==
    /\ pc[t] = "poll"
    /\ joinFlag' = IF joinFlag = NotWaiting THEN NotWaiting ELSE WaitingForSignal
    /\ Goto(t, IF joinFlag = WaitingForYield THEN "did" ELSE "pollCancel")
    /\ UNCHANGED <<workerCount, canceled, maxConcurrency, queued, shutdown,
                   seen, budget>>

\* ShouldYield, second operand: the canceled bit.
PollCanceled(t) ==
    /\ pc[t] = "pollCancel"
    /\ Goto(t, IF canceled THEN "did" ELSE "item")
    /\ UNCHANGED <<workerCount, canceled, joinFlag, maxConcurrency, queued,
                   shutdown, seen, budget>>

\* JobDelegate::ShouldYield also asks the pool, for a worker only.
PoolAsksToYield(w) ==
    /\ pc[w] = "pollCancel"
    /\ Spend("poolYield")
    /\ Goto(w, "did")
    /\ UNCHANGED <<workerCount, canceled, joinFlag, maxConcurrency, queued,
                   shutdown, seen>>

\* The task processes a work item, which lowers the max concurrency, and
\* polls again; it returns when no item is left.
ProcessItem(t) ==
    /\ pc[t] = "item"
    /\ IF maxConcurrency > 0
       THEN maxConcurrency' = maxConcurrency - 1 /\ Goto(t, "poll")
       ELSE UNCHANGED maxConcurrency /\ Goto(t, "did")
    /\ UNCHANGED <<workerCount, canceled, joinFlag, queued, shutdown, seen, budget>>

\* A running task, or the owner before it gives up the handle, adds a work
\* item; it is then about to call NotifyConcurrencyIncrease.
RaiseMaxConcurrency(t) ==
    /\ pc[t] \in {"item", "holding"}
    /\ maxConcurrency < MaxConcurrency
    /\ Spend("raise")
    /\ maxConcurrency' = maxConcurrency + 1
    /\ Goto(t, "raised")
    /\ UNCHANGED <<workerCount, canceled, joinFlag, queued, shutdown, seen>>

\* ShouldWorkerSignal and Signal under lock_: the flag goes back to
\* kNotWaiting and the joining thread, if it waits, leaves the wait set.
Signaled(t, label) ==
    /\ joinFlag' = NotWaiting
    /\ pc' = [u \in Threads |->
                CASE u = t -> label
                  [] u # t /\ u = Owner /\ pc[u] = "waiting"
                           /\ joinFlag # NotWaiting -> "await"
                  [] OTHER -> pc[u]]

NotifyLocked(t) ==
    /\ pc[t] = "raised"
    /\ ~JobLockHeld
    /\ Signaled(t, "push")
    /\ UNCHANGED <<workerCount, canceled, maxConcurrency, queued, shutdown,
                   seen, budget>>

\* Mutation of EnqueueJob: the push is left to the next DidProcessTask.
EnqueueJobNever(t) ==
    /\ pc[t] = "push"
    /\ ~JobLockHeld /\ ~GroupLockHeld
    /\ Goto(t, IF t = Owner /\ seen[Owner].count = 0 THEN "holding" ELSE "item")
    /\ UNCHANGED <<workerCount, canceled, joinFlag, maxConcurrency, queued,
                   shutdown, seen, budget>>

\* EnqueueJobTaskSource: pushed unless it is queued already or its
\* registration is refused.
EnqueueJob(t) ==
    /\ pc[t] = "push"
    /\ ~JobLockHeld /\ ~GroupLockHeld
    /\ queued' = (queued \/ ~shutdown)
    /\ Goto(t, IF t = Owner /\ seen[Owner].count = 0 THEN "holding" ELSE "item")
    /\ UNCHANGED <<workerCount, canceled, joinFlag, maxConcurrency, shutdown,
                   seen, budget>>

-----------------------------------------------------------------------------
(* DidProcessTask, and ReEnqueueTaskSource if it returned true.            *)

DidProcessTask(w) ==
    /\ pc[w] = "did"
    /\ ~JobLockHeld
    /\ workerCount' = workerCount - 1
    /\ See(w, workerCount, canceled, 0)
    /\ Goto(w, "signal")
    /\ UNCHANGED <<canceled, joinFlag, maxConcurrency, queued, shutdown, budget>>

\* Mutation of DidProcessTaskSignal: the canceled bit is tested first.
DidProcessTaskSignalLate(w) ==
    /\ pc[w] = "signal"
    /\ IF seen[w].canceled
       THEN Goto(w, "idle") /\ UNCHANGED joinFlag
       ELSE Signaled(w, "decide")
    /\ UNCHANGED <<workerCount, canceled, maxConcurrency, queued, shutdown,
                   seen, budget>>

DidProcessTaskSignal(w) ==
    /\ pc[w] = "signal"
    /\ Signaled(w, IF seen[w].canceled THEN "idle" ELSE "decide")
    /\ UNCHANGED <<workerCount, canceled, maxConcurrency, queued, shutdown,
                   seen, budget>>

\* Mutation of DidProcessTaskDecide: off by one against the count before.
DidProcessTaskDecideStrict(w) ==
    /\ pc[w] = "decide"
    /\ Goto(w, IF seen[w].count < maxConcurrency THEN "requeue" ELSE "idle")
    /\ UNCHANGED <<workerCount, canceled, joinFlag, maxConcurrency, queued,
                   shutdown, seen, budget>>

DidProcessTaskDecide(w) ==
    /\ pc[w] = "decide"
    /\ Goto(w, IF seen[w].count <= maxConcurrency THEN "requeue" ELSE "idle")
    /\ UNCHANGED <<workerCount, canceled, joinFlag, maxConcurrency, queued,
                   shutdown, seen, budget>>

ReEnqueueTaskSource(w) ==
    /\ pc[w] = "requeue"
    /\ ~JobLockHeld /\ ~GroupLockHeld
    /\ queued' = TRUE
    /\ Goto(w, "idle")
    /\ UNCHANGED <<workerCount, canceled, joinFlag, maxConcurrency, shutdown,
                   seen, budget>>

-----------------------------------------------------------------------------
(* The owner of the JobHandle.                                             *)

DetachHandle(cancel) ==
    /\ pc[Owner] = "holding"
    /\ canceled' = (canceled \/ cancel)
    /\ Goto(Owner, "detached")
    /\ UNCHANGED <<workerCount, joinFlag, maxConcurrency, queued, shutdown,
                   seen, budget>>

\* JobHandle::Join, or JobHandle::Cancel which sets the bit first.
JoinHandle(cancel) ==
    /\ pc[Owner] = "holding"
    /\ canceled' = (canceled \/ cancel)
    /\ Goto(Owner, "promote")
    /\ UNCHANGED <<workerCount, joinFlag, maxConcurrency, queued, shutdown,
                   seen, budget>>

\* Join raises the job's priority to the caller's: nothing to do if that
\* keeps the thread group, otherwise the source is removed from one queue ...
KeepThreadGroup ==
    /\ pc[Owner] = "promote"
    /\ ~JobLockHeld /\ ~GroupLockHeld
    /\ Goto(Owner, "join")
    /\ UNCHANGED <<workerCount, canceled, joinFlag, maxConcurrency, queued,
                   shutdown, seen, budget>>

ChangeThreadGroup ==
    /\ pc[Owner] = "promote"
    /\ ~JobLockHeld /\ ~GroupLockHeld
    /\ queued
    /\ queued' = FALSE
    /\ Goto(Owner, "moving")
    /\ UNCHANGED <<workerCount, canceled, joinFlag, maxConcurrency, shutdown,
                   seen, budget>>

\* ... and pushed to the other, within one transaction.
PushToNewThreadGroup ==
    /\ pc[Owner] = "moving"
    /\ ~GroupLockHeld
    /\ queued' = TRUE
    /\ Goto(Owner, "join")
    /\ UNCHANGED <<workerCount, canceled, joinFlag, maxConcurrency, shutdown,
                   seen, budget>>

WillJoin ==
    /\ pc[Owner] = "join"
    /\ ~JobLockHeld
    /\ workerCount' = workerCount + 1
    /\ See(Owner, workerCount + 1, canceled, 0)
    /\ Goto(Owner, "check")
    /\ UNCHANGED <<canceled, joinFlag, maxConcurrency, queued, shutdown, budget>>

\* RunJoinTask loads the word after worker_task returned.
RunJoinTaskLoad ==
    /\ pc[Owner] = "did"
    /\ See(Owner, workerCount, canceled, 0)
    /\ Goto(Owner, "check")
    /\ UNCHANGED <<workerCount, canceled, joinFlag, maxConcurrency, queued,
                   shutdown, budget>>

CanParticipate(n, c, m) == n <= m /\ ~c

\* The early exit of WillJoin and RunJoinTask, without lock_.
CheckParticipation ==
    /\ pc[Owner] = "check"
    /\ Goto(Owner, IF CanParticipate(seen[Owner].count, seen[Owner].canceled,
                                     maxConcurrency)
                   THEN "poll" ELSE "await")
    /\ UNCHANGED <<workerCount, canceled, joinFlag, maxConcurrency, queued,
                   shutdown, seen, budget>>

\* WaitForParticipationOpportunity takes lock_, or takes it back after a
\* wakeup, and loads the word ...
AwaitLoad ==
    /\ pc[Owner] = "await"
    /\ ~JobLockHeld
    /\ See(Owner, workerCount, canceled, 0)
    /\ Goto(Owner, "awaitMax")
    /\ UNCHANGED <<workerCount, canceled, joinFlag, maxConcurrency, queued,
                   shutdown, budget>>

\* Mutation of MayStopWaiting: a canceled job is left without waiting.
MayStopWaitingCanceled(n, c, m) == CanParticipate(n, c, m) \/ c

MayStopWaiting(n, c, m) == CanParticipate(n, c, m) \/ n = 1

\* ... then reads the max concurrency and either stops waiting ...
AwaitDone ==
    /\ pc[Owner] = "awaitMax"
    /\ MayStopWaiting(seen[Owner].count, seen[Owner].canceled, maxConcurrency)
    /\ Goto(Owner, IF CanParticipate(seen[Owner].count, seen[Owner].canceled,
                                     maxConcurrency)
                   THEN "poll" ELSE "leave")
    /\ UNCHANGED <<workerCount, canceled, joinFlag, maxConcurrency, queued,
                   shutdown, seen, budget>>

\* ... or sets the flag and waits, which releases lock_.
AwaitWorker ==
    /\ pc[Owner] = "awaitMax"
    /\ ~MayStopWaiting(seen[Owner].count, seen[Owner].canceled, maxConcurrency)
    /\ joinFlag' = WaitingForYield
    /\ Goto(Owner, "waiting")
    /\ UNCHANGED <<workerCount, canceled, maxConcurrency, queued, shutdown,
                   seen, budget>>

\* SleepConditionVariableSRW may return without a signal.
SpuriousWakeup ==
    /\ pc[Owner] = "waiting"
    /\ Spend("spuriousWakeup")
    /\ Goto(Owner, "await")
    /\ UNCHANGED <<workerCount, canceled, joinFlag, maxConcurrency, queued,
                   shutdown, seen>>

\* Case B of WaitForParticipationOpportunity: the owner leaves the count.
LeaveJob ==
    /\ pc[Owner] = "leave"
    /\ workerCount' = workerCount - 1
    /\ Goto(Owner, "remove")
    /\ UNCHANGED <<canceled, joinFlag, maxConcurrency, queued, shutdown, seen, budget>>

RemoveJobTaskSource ==
    /\ pc[Owner] = "remove"
    /\ ~JobLockHeld /\ ~GroupLockHeld
    /\ queued' = FALSE
    /\ Goto(Owner, "joined")
    /\ UNCHANGED <<workerCount, canceled, joinFlag, maxConcurrency, shutdown,
                   seen, budget>>

\* TaskTracker::StartShutdown, as this job sees it.
StartShutdown ==
    /\ ~shutdown
    /\ Spend("shutdown")
    /\ shutdown' = TRUE
    /\ UNCHANGED <<workerCount, canceled, joinFlag, maxConcurrency, queued, pc, seen>>

-----------------------------------------------------------------------------

BodyStep(t) ==
    \/ PollJoinFlag(t)
    \/ PollCanceled(t)
    \/ ProcessItem(t)
    \/ RaiseMaxConcurrency(t)
    \/ NotifyLocked(t)
    \/ EnqueueJob(t)

WorkerStep(w) ==
    \/ TakeBegin(w)
    \/ TakeEnd(w)
    \/ RunOrClear(w)
    \/ PoolAsksToYield(w)
    \/ DidProcessTask(w)
    \/ DidProcessTaskSignal(w)
    \/ DidProcessTaskDecide(w)
    \/ ReEnqueueTaskSource(w)

HandleStep == \E cancel \in BOOLEAN : DetachHandle(cancel) \/ JoinHandle(cancel)

JoinStep ==
    \/ KeepThreadGroup
    \/ ChangeThreadGroup
    \/ PushToNewThreadGroup
    \/ WillJoin
    \/ RunJoinTaskLoad
    \/ CheckParticipation
    \/ AwaitLoad
    \/ AwaitDone
    \/ AwaitWorker
    \/ LeaveJob
    \/ RemoveJobTaskSource

Next ==
    \/ \E t \in Threads : BodyStep(t)
    \/ \E w \in Workers : WorkerStep(w)
    \/ HandleStep
    \/ JoinStep
    \/ SpuriousWakeup
    \/ StartShutdown

Spec == Init /\ [][Next]_vars

\* Every thread keeps running, except that the owner may hold its handle for
\* ever; spurious wakeups, shutdown and new work items are never owed.
Fairness ==
    /\ \A w \in Workers : WF_vars(WorkerStep(w) \/ BodyStep(w))
    /\ WF_vars(JoinStep \/ (pc[Owner] # "holding" /\ BodyStep(Owner)))

FairSpec == Spec /\ Fairness

-----------------------------------------------------------------------------
(* Properties.                                                             *)

\* The threads that the worker count stands for: a worker from WillRunTask to
\* DidProcessTask, the joining thread from WillJoin until it leaves.
Counted(t) ==
    IF t = Owner
    THEN \/ pc[t] \in {"check", "await", "awaitMax", "waiting", "leave", "did",
                       "poll", "pollCancel", "item"}
         \/ pc[t] \in {"raised", "push"} /\ seen[t].count > 0
    ELSE pc[t] \in {"taken", "did"} \cup BodyPCs

\* The count in the atomic word is exactly the number of threads between an
\* increment and its decrement, whatever the interleaving of lock-free
\* increments with decrements under lock_; the DCHECKs on worker_count() of
\* State, TakeTask, DidProcessTask and the destructor rest on it.
CountAccurate == workerCount = Cardinality({t \in Threads : Counted(t)})

\* A thread that is bound to make the source queued again: it raised the max
\* concurrency and has not enqueued yet, it left the count when the job was
\* not saturated and has not re-enqueued yet, or it is moving the source.
WillQueue(t) ==
    \/ pc[t] \in {"raised", "push", "requeue", "moving"}
    \/ /\ pc[t] \in {"signal", "decide"}
       /\ ~seen[t].canceled
       /\ seen[t].count <= maxConcurrency

MoreCanRun == ~canceled /\ ~shutdown /\ workerCount < maxConcurrency

\* task_source.h: "If the task source has more tasks that can run
\* concurrently, it must be queued", or a thread is about to queue it; until
\* the join has found itself alone and removes the source.
QueuedIfMoreCanRun ==
    MoreCanRun /\ pc[Owner] \notin {"remove", "joined"} =>
        queued \/ \E t \in Threads : WillQueue(t)

\* A joining thread in the wait set is never forgotten: once it could
\* participate or is alone, some thread still owes it a signal.
NoLostWakeup ==
    pc[Owner] = "waiting" /\ MayStopWaiting(workerCount, canceled, maxConcurrency)
        => joinFlag # NotWaiting /\ \E t \in Threads : pc[t] \in {"signal", "raised"}

\* JobHandle::Cancel "waits until they have all returned": when a join that
\* saw the canceled bit is over, no worker is or gets between WillRunTask and
\* DidProcessTask.
CanceledJoinIsFinal ==
    pc[Owner] \in {"remove", "joined"} /\ seen[Owner].canceled =>
        \A w \in Workers : ~Counted(w)

\* A joining thread gets out: through work, yields, signals, or shutdown.
JoinReturns == pc[Owner] = "promote" ~> pc[Owner] = "joined"

\* Work items that were announced are processed, unless the job is canceled,
\* the pool shuts down, or the join has returned: a worker that slipped in
\* behind the join (JoinMeansDone below) may announce work that the removal
\* of the source then strands.
WorkDrains ==
    []<>(maxConcurrency = 0 \/ canceled \/ shutdown \/ pc[Owner] = "joined")

-----------------------------------------------------------------------------
(* What comments and assertions claim; see the findings in the README.     *)

\* JobHandle::Join: "Doesn't return until all tasks have completed and max
\* concurrency becomes 0".
JoinMeansDone == pc[Owner] = "joined" => \A w \in Workers : pc[w] \notin BodyPCs
=============================================================================
