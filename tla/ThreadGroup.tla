----------------------------- MODULE ThreadGroup -----------------------------
(***************************************************************************)
(* ThreadGroupImpl and its WorkerThreads: a priority queue of task         *)
(* sources, workers that sleep on a stack when they are idle, limits on    *)
(* the tasks that run, raised while tasks block, and a policy on the       *)
(* priorities that may run.  The group changes under lock_; the wakeups,   *)
(* the thread starts and the posting of AdjustMaxTasks that a critical     *)
(* section decides on are carried out after the lock is released           *)
(* (ScopedWorkersExecutor), here one per step, from what a thread owes.    *)
(* The queue is a number of sources per priority, each wants one worker:   *)
(* module JobTaskSource has those that want several.  A step is a critical *)
(* section of lock_ or an access to a worker's event; CanRunPolicy does    *)
(* not change within one.  Shutdown, which stops the workers, is in        *)
(* module TaskTracker.                                                     *)
(***************************************************************************)
EXTENDS Naturals, FiniteSets, Sequences, SequencesExt

CONSTANTS
    Workers,     \* names for the WorkerThreads; one that is gone may be reused
    Main,        \* a thread that posts, starts the group and sets the policy
    Service,     \* the thread that runs AdjustMaxTasks
    InitialMaxTasks, InitialMaxBestEffort,  \* the limits given to Start
    MaxWorkers,  \* kMaxNumberOfWorkers
    MaxCalls,    \* bound on what changes the queue from outside
    MaxBlocks,   \* bound on the ScopedBlockingCalls
    MaxPolicies  \* bound on the changes of the policy

ASSUME ThreadsAssumption ==
    /\ IsFiniteSet(Workers)
    /\ Main \notin Workers /\ Service \notin Workers /\ Main # Service
ASSUME LimitsAssumption ==
    /\ MaxWorkers \in Nat /\ MaxWorkers <= Cardinality(Workers)
    /\ InitialMaxTasks \in 1..MaxWorkers
    /\ InitialMaxBestEffort \in 1..InitialMaxTasks
    /\ MaxCalls \in Nat /\ MaxBlocks \in Nat /\ MaxPolicies \in Nat

Threads == Workers \cup {Main, Service}

BestEffort == 0
Foreground == 1
Priorities == {BestEffort, Foreground}

\* kAll, kForegroundOnly and kNone, as the priorities they let run.
Policies == {Priorities, {Foreground}, {}}

VARIABLES
    queued,      \* the task sources in priority_queue_, per priority
    count,       \* the counters that lock_ guards
    workers,     \* workers_
    idle,        \* idle_workers_stack_, its top at the end
    minAllowed,  \* min_allowed_priority_
    pc,          \* where each worker's thread is; "none" without one
    event,       \* the workers whose wake_up_event_ is signaled
    task,        \* the priority of the task each worker runs
    block,       \* the ScopedBlockingCall that the task is in
    owes,        \* what each thread's ScopedWorkersExecutor has to do
    posted,      \* adjust_max_tasks_posted_
    adjusting,   \* AdjustMaxTasks is in the service thread's queue
    canRun,      \* the priorities that TaskTracker lets run
    policyOwed,  \* the group has yet to hear of the policy
    calls, blocks, policies  \* what was spent of the bounds

group == <<queued, count, workers, idle, minAllowed>>
bounds == <<calls, blocks, policies>>
vars == <<group, pc, event, task, block, owes, posted, adjusting, canRun,
          policyOwed, bounds>>

\* "none": no thread; "wait": in WaitForWork; "get": on the way to GetWork;
\* "flush": in GetWork, in FlushWorkerCreation; "run": in a task; "upgrade":
\* between the critical sections of BlockingTypeUpgraded; "reset": between
\* DidProcessTask and the reset of the event.
PCs == {"none", "wait", "get", "flush", "run", "upgrade", "reset"}

\* "may": in a MAY_BLOCK call; "overdue": for may_block_threshold; "counted":
\* incremented_max_tasks_since_blocked_.
Blocks == {"none", "may", "overdue", "counted"}
Unresolved == {"may", "overdue"}

Nothing == [wake |-> <<>>, start |-> <<>>, adjust |-> FALSE]
Counters == [running : Nat, runningBE : Nat, max : Nat, maxBE : Nat,
             unresolved : Nat, unresolvedBE : Nat]

\* The type invariant.
TypeOK ==
    /\ queued \in [Priorities -> 0..MaxCalls]
    /\ count \in Counters
    /\ workers \subseteq Workers
    /\ idle \in Seq(Workers)
    /\ minAllowed \in Priorities
    /\ pc \in [Workers -> PCs]
    /\ event \subseteq workers
    /\ task \in [Workers -> Priorities]
    /\ block \in [Workers -> Blocks]
    /\ owes \in [Threads -> [wake : Seq(Workers), start : Seq(Workers),
                             adjust : BOOLEAN]]
    /\ posted \in BOOLEAN /\ adjusting \in BOOLEAN
    /\ canRun \in Policies /\ policyOwed \in BOOLEAN
    /\ calls \in 0..MaxCalls /\ blocks \in 0..MaxBlocks
    /\ policies \in 0..MaxPolicies

\* Fences may have been begun before the first task is posted.
Init ==
    /\ queued = [p \in Priorities |-> 0]
    /\ count = [running |-> 0, runningBE |-> 0, max |-> 0, maxBE |-> 0,
                unresolved |-> 0, unresolvedBE |-> 0]
    /\ workers = {}
    /\ idle = <<>>
    /\ minAllowed = BestEffort
    /\ pc = [w \in Workers |-> "none"]
    /\ event = {}
    /\ task = [w \in Workers |-> BestEffort]
    /\ block = [w \in Workers |-> "none"]
    /\ owes = [t \in Threads |-> Nothing]
    /\ posted = FALSE /\ adjusting = FALSE
    /\ canRun \in Policies /\ policyOwed = FALSE
    /\ calls = 0 /\ blocks = 0 /\ policies = 0

-----------------------------------------------------------------------------
(* How many workers the group wants, and the changes of its counters.      *)

Lower(m, n) == IF m < n THEN m ELSE n
Higher(m, n) == IF m < n THEN n ELSE m
One(condition) == IF condition THEN 1 ELSE 0

\* PeekSortKey().priority() of the queue q.
Top(q) == IF q[Foreground] > 0 THEN Foreground ELSE BestEffort
IsEmpty(q) == q[Foreground] = 0 /\ q[BestEffort] = 0

\* GetNumAdditionalWorkersFor{BestEffort,Foreground}TaskSources.
NumAdditionalWorkers(q, p) == IF p \in canRun THEN q[p] ELSE 0

NumAwakeWorkers == Cardinality(workers) - Len(idle)

DesiredNumAwakeWorkers(q, c) ==
    LET bestEffort == Higher(Lower(c.runningBE
                                     + NumAdditionalWorkers(q, BestEffort),
                                   c.maxBE),
                             c.runningBE)
        foreground == (c.running - c.runningBE)
                         + NumAdditionalWorkers(q, Foreground)
    IN Lower(bestEffort + foreground, Lower(c.max, MaxWorkers))

\* The limits are too low for the sources and an idle worker, and a task in
\* a MAY_BLOCK call may raise them.
ShouldPeriodicallyAdjustMaxTasks(q, c) ==
    \/ /\ c.runningBE + NumAdditionalWorkers(q, BestEffort) > c.maxBE
       /\ c.unresolvedBE > 0
    \/ /\ c.running + NumAdditionalWorkers(q, BestEffort)
            + NumAdditionalWorkers(q, Foreground) + 1 > c.max
       /\ c.unresolved > 0

MinAllowedPriority(q, c) ==
    IF IsEmpty(q) \/ c.running < c.max THEN BestEffort ELSE Top(q)

IncrementTasksRunning(c, p) ==
    [c EXCEPT !.running = @ + 1, !.runningBE = @ + One(p = BestEffort)]

DecrementTasksRunning(c, p) ==
    [c EXCEPT !.running = @ - 1, !.runningBE = @ - One(p = BestEffort)]

IncrementMaxTasks(c, p) ==
    [c EXCEPT !.max = @ + 1, !.maxBE = @ + One(p = BestEffort)]

DecrementMaxTasks(c, p) ==
    [c EXCEPT !.max = @ - 1, !.maxBE = @ - One(p = BestEffort)]

AddUnresolved(c, p) ==
    [c EXCEPT !.unresolved = @ + 1, !.unresolvedBE = @ + One(p = BestEffort)]

DropUnresolved(c, p) ==
    [c EXCEPT !.unresolved = @ - 1, !.unresolvedBE = @ - One(p = BestEffort)]

-----------------------------------------------------------------------------
(* EnsureEnoughWorkers, on the workers and what is scheduled for after the *)
(* lock.                                                                   *)

\* Names that cannot be given to a new worker yet.
Held == {w \in Workers : \/ owes[w] # Nothing
                         \/ \E t \in Threads : w \in Range(owes[t].wake)}

Pool == [workers |-> workers, idle |-> idle, wake |-> <<>>, start |-> <<>>]

\* A new worker goes on the idle stack, to be started.
CreateAndRegisterWorker(pool) ==
    LET w == CHOOSE w \in Workers \ (pool.workers \cup Held) : TRUE
    IN [pool EXCEPT !.workers = @ \cup {w}, !.idle = Append(@, w),
                    !.start = Append(@, w)]

MaintainAtLeastOneIdleWorker(pool, max) ==
    IF pool.idle = <<>> /\ Cardinality(pool.workers) < Lower(max, MaxWorkers)
       THEN CreateAndRegisterWorker(pool) ELSE pool

WakeUpOneWorker(pool, max) ==
    LET kept == MaintainAtLeastOneIdleWorker(pool, max)
    IN [kept EXCEPT !.idle = Front(@), !.wake = Append(@, Last(kept.idle))]

\* The workers that are missing, at most two of them; with none missing and
\* none in excess an idle one in reserve.
EnoughWorkers(q, c) ==
    LET desired == DesiredNumAwakeWorkers(q, c)
    IN CASE desired >= NumAwakeWorkers + 2 ->
                WakeUpOneWorker(WakeUpOneWorker(Pool, c.max), c.max)
         [] desired = NumAwakeWorkers + 1 -> WakeUpOneWorker(Pool, c.max)
         [] desired = NumAwakeWorkers ->
                MaintainAtLeastOneIdleWorker(Pool, c.max)
         [] OTHER -> Pool

\* A thread is in the group only when its last executor has nothing left.
IsFree(t) == owes[t] = Nothing

\* What the executor of t has to do; adjust_max_tasks_posted_ was alreadyPosted.
Schedule(t, pool, q, c, alreadyPosted) ==
    LET must == ~alreadyPosted /\ ShouldPeriodicallyAdjustMaxTasks(q, c)
    IN /\ owes' = [owes EXCEPT ![t] = [wake |-> pool.wake,
                                       start |-> pool.start,
                                       adjust |-> must]]
       /\ posted' = (alreadyPosted \/ must)

\* EnsureEnoughWorkersLockRequired at the end of a critical section of t that
\* leaves the queue q and the counters c.
EnsureEnoughWorkers(t, q, c, alreadyPosted) ==
    IF c.max = 0 THEN UNCHANGED <<workers, idle, minAllowed, owes, posted>>
    ELSE LET pool == EnoughWorkers(q, c)
         IN /\ workers' = pool.workers
            /\ idle' = pool.idle
            /\ minAllowed' = MinAllowedPriority(q, c)
            /\ Schedule(t, pool, q, c, alreadyPosted)

-----------------------------------------------------------------------------
(* What executors do once the lock is released: wakeups, then starts, then *)
(* the posting of AdjustMaxTasks.                                          *)

FlushWakeUp(t) ==
    /\ owes[t].wake # <<>>
    /\ event' = event \cup ({Head(owes[t].wake)} \cap workers)
    /\ owes' = [owes EXCEPT ![t].wake = Tail(@)]
    /\ UNCHANGED <<group, pc, task, block, posted, adjusting, canRun,
                   policyOwed, bounds>>

FlushStart(t) ==
    /\ owes[t].wake = <<>> /\ owes[t].start # <<>>
    /\ pc' = [pc EXCEPT ![Head(owes[t].start)] = "wait"]
    /\ owes' = [owes EXCEPT ![t].start = Tail(@)]
    /\ UNCHANGED <<group, event, task, block, posted, adjusting, canRun,
                   policyOwed, bounds>>

ScheduleAdjustMaxTasks(t) ==
    /\ owes[t].wake = <<>> /\ owes[t].start = <<>> /\ owes[t].adjust
    /\ adjusting' = TRUE
    /\ owes' = [owes EXCEPT ![t] = Nothing]
    /\ UNCHANGED <<group, pc, event, task, block, posted, canRun, policyOwed,
                   bounds>>

-----------------------------------------------------------------------------
(* A worker's thread.                                                      *)

At(w, label) == pc[w] = label /\ IsFree(w)
Goto(w, label) == pc' = [pc EXCEPT ![w] = label]

\* TimedWait: the auto-reset event, or the timeout.
WakeUp(w) ==
    /\ At(w, "wait") /\ w \in event
    /\ event' = event \ {w}
    /\ Goto(w, "get")
    /\ UNCHANGED <<group, task, block, owes, posted, adjusting, canRun,
                   policyOwed, bounds>>

SleepTimeout(w) ==
    /\ At(w, "wait")
    /\ Goto(w, "get")
    /\ UNCHANGED <<group, event, task, block, owes, posted, adjusting,
                   canRun, policyOwed, bounds>>

\* On the idle stack there is no work.  A worker that is not on its top may
\* have been there for long enough to be cleaned up; MaxWorkers names have to
\* be left for others.
StayIdle(w) ==
    /\ w \in Range(idle)
    /\ Goto(w, "wait")
    /\ UNCHANGED <<workers, idle, event>>

Cleanup(w) ==
    /\ \E i \in 1..(Len(idle) - 1) : idle[i] = w /\ idle' = RemoveAt(idle, i)
    /\ workers' = workers \ {w}
    /\ event' = event \ {w}
    /\ Goto(w, "none")
    /\ Cardinality(Held' \ workers') <= Cardinality(Workers) - MaxWorkers

\* A worker in excess, or without a source that may run, becomes idle.
CanGetWork ==
    NumAwakeWorkers <= DesiredNumAwakeWorkers(queued, count)

CanTakeTop ==
    /\ ~IsEmpty(queued)
    /\ Top(queued) \in canRun
    /\ Top(queued) = BestEffort => count.runningBE < count.maxBE

BecomeIdle(w) ==
    /\ w \notin Range(idle)
    /\ ~(CanGetWork /\ CanTakeTop)
    /\ idle' = Append(idle, w)
    /\ Goto(w, "wait")
    /\ UNCHANGED <<workers, event>>

TakeTop(w) ==
    /\ w \notin Range(idle)
    /\ CanGetWork /\ CanTakeTop
    /\ LET p == Top(queued)
       IN /\ queued' = [queued EXCEPT ![p] = @ - 1]
          /\ count' = IncrementTasksRunning(count, p)
          /\ task' = [task EXCEPT ![w] = p]
    /\ minAllowed' = MinAllowedPriority(queued', count')
    /\ Goto(w, "run")
    /\ UNCHANGED <<workers, idle, event>>

\* The rest of GetWork; min_allowed_priority_ is left at least if nothing is
\* taken.
TakeWork(w, least) ==
    \/ /\ StayIdle(w) \/ Cleanup(w) \/ BecomeIdle(w)
       /\ minAllowed' = least
       /\ UNCHANGED <<queued, count, task>>
    \/ TakeTop(w)

\* With workers to wake up or start the lock is released first.
GetWork(w) ==
    /\ At(w, "get")
    /\ LET pool == EnoughWorkers(queued, count)
           least == MinAllowedPriority(queued, count)
       IN /\ Schedule(w, pool, queued, count, posted)
          /\ IF pool = Pool THEN TakeWork(w, least)
             ELSE /\ workers' = pool.workers
                  /\ idle' = pool.idle
                  /\ minAllowed' = least
                  /\ Goto(w, "flush")
                  /\ UNCHANGED <<queued, count, event, task>>
    /\ UNCHANGED <<block, adjusting, canRun, policyOwed, bounds>>

GetWorkAfterFlush(w) ==
    /\ At(w, "flush")
    /\ UNCHANGED <<owes, posted>>
    /\ TakeWork(w, minAllowed)
    /\ UNCHANGED <<block, adjusting, canRun, policyOwed, bounds>>

\* The task source is not queued again.
DidProcessTask(w) ==
    /\ At(w, "run") /\ block[w] = "none"
    /\ count' = DecrementTasksRunning(count, task[w])
    /\ minAllowed' = MinAllowedPriority(queued, count')
    /\ Goto(w, "reset")
    /\ UNCHANGED <<queued, workers, idle, event, task, block, owes, posted,
                   adjusting, canRun, policyOwed, bounds>>

\* It is, with the priority p that it has by now.
ReEnqueueTaskSource(w, p) ==
    /\ At(w, "run") /\ block[w] = "none"
    /\ calls < MaxCalls
    /\ calls' = calls + 1
    /\ queued' = [queued EXCEPT ![p] = @ + 1]
    /\ count' = DecrementTasksRunning(count, task[w])
    /\ EnsureEnoughWorkers(w, queued', count', posted)
    /\ Goto(w, "reset")
    /\ UNCHANGED <<event, task, block, adjusting, canRun, policyOwed, blocks,
                   policies>>

ResetEvent(w) ==
    /\ At(w, "reset")
    /\ event' = event \ {w}
    /\ Goto(w, "get")
    /\ UNCHANGED <<group, task, block, owes, posted, adjusting, canRun,
                   policyOwed, bounds>>

-----------------------------------------------------------------------------
(* ScopedBlockingCalls of the tasks, and AdjustMaxTasks.                   *)

\* Mutation of MayBlockEntered: AdjustMaxTasks is not scheduled.
MayBlockEnteredQuietly(w) ==
    /\ At(w, "run") /\ block[w] = "none"
    /\ blocks < MaxBlocks
    /\ blocks' = blocks + 1
    /\ block' = [block EXCEPT ![w] = "may"]
    /\ count' = AddUnresolved(count, task[w])
    /\ UNCHANGED <<queued, workers, idle, minAllowed, pc, event, task, owes,
                   posted, adjusting, canRun, policyOwed, calls, policies>>

MayBlockEntered(w) ==
    /\ At(w, "run") /\ block[w] = "none"
    /\ blocks < MaxBlocks
    /\ blocks' = blocks + 1
    /\ block' = [block EXCEPT ![w] = "may"]
    /\ count' = AddUnresolved(count, task[w])
    /\ Schedule(w, Pool, queued, count', posted)
    /\ UNCHANGED <<queued, workers, idle, minAllowed, pc, event, task,
                   adjusting, canRun, policyOwed, calls, policies>>

MayBlockOverdue(w) ==
    /\ block[w] = "may"
    /\ block' = [block EXCEPT ![w] = "overdue"]
    /\ UNCHANGED <<group, pc, event, task, owes, posted, adjusting, canRun,
                   policyOwed, bounds>>

\* A call of its own, or the second half of an upgrade.
WillBlockEntered(w) ==
    /\ block[w] = "none"
    /\ \/ At(w, "upgrade") /\ UNCHANGED blocks
       \/ At(w, "run") /\ blocks < MaxBlocks /\ blocks' = blocks + 1
    /\ block' = [block EXCEPT ![w] = "counted"]
    /\ count' = IncrementMaxTasks(count, task[w])
    /\ EnsureEnoughWorkers(w, queued, count', posted)
    /\ Goto(w, "run")
    /\ UNCHANGED <<queued, event, task, adjusting, canRun, policyOwed, calls,
                   policies>>

\* Mutation of BlockingTypeUpgraded: the unresolved calls stay counted.
BlockingTypeUpgradedUncounted(w) ==
    /\ At(w, "run") /\ block[w] \in Unresolved
    /\ block' = [block EXCEPT ![w] = "none"]
    /\ Goto(w, "upgrade")
    /\ UNCHANGED <<group, event, task, owes, posted, adjusting, canRun,
                   policyOwed, bounds>>

\* Without effect for a call that was counted.
BlockingTypeUpgraded(w) ==
    /\ At(w, "run") /\ block[w] \in Unresolved
    /\ block' = [block EXCEPT ![w] = "none"]
    /\ count' = DropUnresolved(count, task[w])
    /\ Goto(w, "upgrade")
    /\ UNCHANGED <<queued, workers, idle, minAllowed, event, task, owes,
                   posted, adjusting, canRun, policyOwed, bounds>>

BlockingEnded(w) ==
    /\ At(w, "run") /\ block[w] # "none"
    /\ block' = [block EXCEPT ![w] = "none"]
    /\ IF block[w] = "counted"
          THEN /\ count' = DecrementMaxTasks(count, task[w])
               /\ minAllowed' = MinAllowedPriority(queued, count')
          ELSE /\ count' = DropUnresolved(count, task[w])
               /\ UNCHANGED minAllowed
    /\ UNCHANGED <<queued, workers, idle, pc, event, task, owes, posted,
                   adjusting, canRun, policyOwed, bounds>>

\* The limits are raised for the workers of the set due.
AdjustFor(due, alreadyPosted) ==
    /\ adjusting /\ IsFree(Service)
    /\ adjusting' = FALSE
    /\ LET n == Cardinality(due)
           nBE == Cardinality({w \in due : task[w] = BestEffort})
       IN /\ block' = [w \in Workers |->
                         IF w \in due THEN "counted" ELSE block[w]]
          /\ count' = [count EXCEPT !.max = @ + n, !.maxBE = @ + nBE,
                                   !.unresolved = @ - n,
                                   !.unresolvedBE = @ - nBE]
    /\ EnsureEnoughWorkers(Service, queued, count', alreadyPosted)
    /\ UNCHANGED <<queued, pc, event, task, canRun, policyOwed, bounds>>

\* MustIncrementMaxTasks, for each of workers_.
Overdue == {w \in workers : block[w] = "overdue"}

\* Mutation of AdjustMaxTasks: adjust_max_tasks_posted_ is not reset.
AdjustMaxTasksStillPosted == AdjustFor(Overdue, TRUE)

AdjustMaxTasks == AdjustFor(Overdue, FALSE)

-----------------------------------------------------------------------------
(* Calls from outside: Main's and those of the tasks.                      *)

MayCall(t) ==
    IF t = Main THEN IsFree(Main) /\ ~policyOwed ELSE At(t, "run")

\* One of the bounded calls of t, which leaves the queue q.
Call(t, q) ==
    /\ MayCall(t)
    /\ calls < MaxCalls
    /\ calls' = calls + 1
    /\ queued' = q
    /\ UNCHANGED <<count, pc, event, task, block, adjusting, canRun,
                   policyOwed, blocks, policies>>

PushTaskSourceAndWakeUpWorkers(t, p) ==
    /\ Call(t, [queued EXCEPT ![p] = @ + 1])
    /\ EnsureEnoughWorkers(t, queued', count, posted)

UpdateSortKey(t, p) ==
    /\ queued[p] > 0
    /\ Call(t, [queued EXCEPT ![p] = @ - 1, ![1 - p] = @ + 1])
    /\ EnsureEnoughWorkers(t, queued', count, posted)

\* The group's min_allowed_priority_ stays as it is.
RemoveTaskSource(t, p) ==
    /\ queued[p] > 0
    /\ Call(t, [queued EXCEPT ![p] = @ - 1])
    /\ UNCHANGED <<workers, idle, minAllowed, owes, posted>>

Start ==
    /\ MayCall(Main) /\ count.max = 0
    /\ count' = [count EXCEPT !.max = InitialMaxTasks,
                             !.maxBE = InitialMaxBestEffort]
    /\ EnsureEnoughWorkers(Main, queued, count', posted)
    /\ UNCHANGED <<queued, pc, event, task, block, adjusting, canRun,
                   policyOwed, bounds>>

SetCanRunPolicy(policy) ==
    /\ MayCall(Main)
    /\ policies < MaxPolicies
    /\ policies' = policies + 1
    /\ canRun' = policy
    /\ policyOwed' = TRUE
    /\ UNCHANGED <<group, pc, event, task, block, owes, posted, adjusting,
                   calls, blocks>>

\* Mutation of DidUpdateCanRunPolicy: no worker is woken up.
DidUpdateCanRunPolicyQuietly ==
    /\ policyOwed /\ IsFree(Main)
    /\ policyOwed' = FALSE
    /\ UNCHANGED <<group, pc, event, task, block, owes, posted, adjusting,
                   canRun, bounds>>

DidUpdateCanRunPolicy ==
    /\ policyOwed /\ IsFree(Main)
    /\ policyOwed' = FALSE
    /\ EnsureEnoughWorkers(Main, queued, count, posted)
    /\ UNCHANGED <<queued, count, pc, event, task, block, adjusting, canRun,
                   bounds>>

Flush(t) == FlushWakeUp(t) \/ FlushStart(t) \/ ScheduleAdjustMaxTasks(t)

WorkerStep(w) ==
    \/ WakeUp(w) \/ SleepTimeout(w) \/ GetWork(w) \/ GetWorkAfterFlush(w)
    \/ DidProcessTask(w) \/ ResetEvent(w)
    \/ \E p \in Priorities : ReEnqueueTaskSource(w, p)
    \/ MayBlockEntered(w) \/ MayBlockOverdue(w) \/ WillBlockEntered(w)
    \/ BlockingTypeUpgraded(w) \/ BlockingEnded(w)

CallStep(t, p) ==
    \/ PushTaskSourceAndWakeUpWorkers(t, p)
    \/ UpdateSortKey(t, p)
    \/ RemoveTaskSource(t, p)

Next ==
    \/ \E t \in Threads : Flush(t)
    \/ \E w \in Workers : WorkerStep(w)
    \/ AdjustMaxTasks
    \/ \E t \in Workers \cup {Main}, p \in Priorities : CallStep(t, p)
    \/ Start
    \/ \E policy \in Policies \ {canRun} : SetCanRunPolicy(policy)
    \/ DidUpdateCanRunPolicy

Spec == Init /\ [][Next]_vars

-----------------------------------------------------------------------------
(* Properties.                                                               *)

Running == {w \in Workers : pc[w] \in {"run", "upgrade"}}
In(states) == {w \in Workers : block[w] \in states}
OfBestEffort(set) == {w \in set : task[w] = BestEffort}

\* The counters that decide how many workers the group wakes up are what the
\* workers do: the tasks that run, the limits raised for the tasks that
\* block, the calls that may raise them later; over every way in and out of
\* a blocking call, its upgrade, and AdjustMaxTasks on another thread.
CountsExact ==
    /\ count.running = Cardinality(Running)
    /\ count.runningBE = Cardinality(OfBestEffort(Running))
    /\ count.unresolved = Cardinality(In(Unresolved))
    /\ count.unresolvedBE = Cardinality(OfBestEffort(In(Unresolved)))
    /\ count.max # 0 =>
          /\ count.max = InitialMaxTasks + Cardinality(In({"counted"}))
          /\ count.maxBE = InitialMaxBestEffort
                              + Cardinality(OfBestEffort(In({"counted"})))
    /\ In(Blocks \ {"none"}) \subseteq Running

\* A worker whose GetWork is certain to come and to look at the queue as one
\* that is awake: it is not on the idle stack, and if it sleeps or was not
\* started, its wakeup was delivered or is owed.
WokenUp(w) == w \in event \/ \E t \in Threads : w \in Range(owes[t].wake)
StartOwed(w) == \E t \in Threads : w \in Range(owes[t].start)

OnTheWay(w) ==
    /\ w \in workers /\ w \notin Range(idle)
    /\ \/ pc[w] \in {"get", "flush", "reset"}
       \/ pc[w] = "wait" /\ WokenUp(w)
       \/ pc[w] = "none" /\ WokenUp(w) /\ StartOwed(w)

\* No task source is stranded.  Every worker that counts as awake and runs no
\* task is on its way to GetWork; and when the group wants more workers awake
\* than run tasks (a source may run, and the limits allow one more), some are
\* awake, or the group is about to hear of a new policy, or two tasks run that
\* did not raise a limit, the end of either of which wakes up others.  The
\* wakeups, two at most at a time, are decided under the lock and delivered
\* after it, to workers that time out, clean up and get woken up by others in
\* between; one that is woken up while it is in FlushWorkerCreation takes a
\* source and looks for missing workers only when its task has ended.
NoStrandedSource ==
    /\ \A w \in workers \ Range(idle) : w \in Running \/ OnTheWay(w)
    /\ DesiredNumAwakeWorkers(queued, count) > count.running =>
          \/ policyOwed
          \/ NumAwakeWorkers > count.running
          \/ Cardinality(Running \ In({"counted"})) >= 2

\* A limit is too low, and a call of the tasks that run may raise it:
\* AdjustMaxTasks is posted, or a worker is on its way to post it, or a task
\* runs outside of blocking calls, which looks again when it enters one or
\* ends.  adjust_max_tasks_posted_ stands for one AdjustMaxTasks in the service
\* thread's queue or still with the one executor to post it.
AdjustIsOwed ==
    /\ ShouldPeriodicallyAdjustMaxTasks(queued, count) =>
          \/ posted \/ policyOwed
          \/ \E w \in Running : block[w] = "none"
          \/ \E w \in Workers : OnTheWay(w) /\ pc[w] # "flush"
    /\ Cardinality({t \in Threads : owes[t].adjust}) + One(adjusting)
          = One(posted)

-----------------------------------------------------------------------------
(* Fairness: executors finish, woken workers go on, tasks that are not in a *)
(* blocking call end, time passes, the service thread runs what it has, and *)
(* Main starts the group and tells it of policies.  A blocked task may stay *)
(* so, and no idle worker need time out.                                    *)

GoesOn(w) ==
    \/ WakeUp(w) \/ GetWork(w) \/ GetWorkAfterFlush(w)
    \/ DidProcessTask(w) \/ ResetEvent(w)
    \/ pc[w] = "upgrade" /\ WillBlockEntered(w)

Fairness ==
    /\ \A t \in Threads : WF_vars(Flush(t))
    /\ \A w \in Workers : WF_vars(GoesOn(w)) /\ WF_vars(MayBlockOverdue(w))
    /\ WF_vars(AdjustMaxTasks)
    /\ WF_vars(Start)
    /\ WF_vars(DidUpdateCanRunPolicy)

LiveSpec == Spec /\ Fairness

\* Task sources that may run are taken, whatever the tasks that block do, as
\* long as not all the threads that a group may have are blocked.
SourcesRun ==
    \A p \in Priorities :
        []<>(queued[p] = 0 \/ p \notin canRun
                \/ Cardinality(In(Blocks \ {"none"})) = MaxWorkers)
=============================================================================
