---------------------------- MODULE SequenceManager ----------------------------
(***************************************************************************)
(* The task queues of a thread: SequenceManagerImpl, TaskQueueImpl,        *)
(* WorkQueue, WorkQueueSets and the flags of AtomicFlagSet, for immediate  *)
(* tasks of one priority.  Other threads post; the bound thread selects    *)
(* and runs tasks; from them and from handlers of native messages, client  *)
(* code sets fences, enables, disables and unregisters queues, cancels     *)
(* tasks and nests run loops.  What module ThreadController does between   *)
(* two calls of the sequence manager is here the flag `requested', kept as *)
(* module WorkRequests says: a thread that sleeps is sure to be woken if   *)
(* ScheduleWork was called since it last lowered the flag.                 *)
(* A step is one critical section of a queue's any_thread_lock_, one       *)
(* access to an atomic word, or work of the bound thread nobody can see.   *)
(***************************************************************************)
EXTENDS Naturals, Sequences, FiniteSets

CONSTANTS
    Queues,    \* the task queues
    Posters,   \* the other threads
    MaxPosts,  \* bound on the tasks posted
    MaxOps,    \* bound on the operations on queues
    MaxDepth   \* bound on the nesting of run loops

ASSUME BoundsAssumption ==
    MaxPosts \in Nat /\ MaxOps \in Nat /\ MaxDepth \in Nat

NoQueue == "none"
ASSUME NoQueueAssumption == NoQueue \notin Queues

VARIABLES
    incoming,   \* any_thread_.immediate_incoming_queue, by queue
    workEmpty,  \* any_thread_.immediate_work_queue_empty
    schedules,  \* any_thread_.post_immediate_task_should_schedule_work
    reload,     \* the queues whose flag in empty_queues_to_reload_ is set
    work,       \* main_thread_only().immediate_work_queue
    keys,       \* its key in the heap of WorkQueueSets, 0 if it is not there
    enabled,    \* main_thread_only().is_enabled
    fence,      \* main_thread_only().current_fence
    life,       \* the queue's registration
    canceled,   \* the enqueue orders of canceled tasks
    deferred,   \* non_nestable_task_queue
    depth,      \* nesting_depth
    pc,         \* where the bound thread is
    reloading,  \* the flags RunActiveCallbacks took and has yet to serve
    op,         \* the operation on a queue it is in the middle of
    requested,  \* ScheduleWork was called since the flag was lowered
    call,       \* the queue each poster is posting to, and where it is
    nextOrder,  \* enqueue_order_generator_
    posts, ops, \* bounds used up
    ran         \* history: the last task run, by queue and nestability

shared == <<incoming, workEmpty, schedules, reload>>
queueState == <<work, keys, enabled, fence, life, canceled>>
loopState == <<deferred, depth, reloading>>
bounds == <<posts, ops, ran>>
vars == <<shared, queueState, loopState, pc, op, requested, call, nextOrder,
          bounds>>

\* EnqueueOrder: none, blocking_fence, the first number of the generator.
None == 0
BlockingFence == 1
FirstOrder == 2

Lives == {"registered", "graceful", "closing", "gone"}
MainPCs == {"task", "didRun", "check", "delay", "delayed", "sleep", "begin",
            "exchange", "select", "fence", "enable", "unregister", "requeue",
            "crashed"}
NoCall == [queue |-> NoQueue, at |-> "none"]
Orders == FirstOrder..(FirstOrder + MaxPosts + MaxOps)
Tasks == [order : Orders, nestable : BOOLEAN]
NoOp ==
    [queue |-> NoQueue, unblocked |-> FALSE, previous |-> None, back |-> "task"]

TypeOK ==
    /\ incoming \in [Queues -> Seq(Tasks)]
    /\ workEmpty \in [Queues -> BOOLEAN]
    /\ schedules \in [Queues -> BOOLEAN]
    /\ reload \subseteq Queues
    /\ work \in [Queues -> Seq(Tasks)]
    /\ keys \in [Queues -> Orders \cup {None}]
    /\ enabled \in [Queues -> BOOLEAN]
    /\ fence \in [Queues -> Orders \cup {None, BlockingFence}]
    /\ life \in [Queues -> Lives]
    /\ canceled \subseteq Orders
    /\ deferred \in Seq([task : Tasks, queue : Queues])
    /\ depth \in 0..MaxDepth
    /\ pc \in MainPCs
    /\ reloading \subseteq Queues
    /\ op \in [queue : Queues \cup {NoQueue}, unblocked : BOOLEAN,
               previous : Orders \cup {None, BlockingFence},
               back : {"task", "didRun", "sleep"}]
    /\ requested \in BOOLEAN
    /\ call \in [Posters -> [queue : Queues \cup {NoQueue},
                             at : {"none", "push", "schedule"}]]
    /\ nextOrder \in FirstOrder..(FirstOrder + MaxPosts + MaxOps)
    /\ posts \in 0..MaxPosts
    /\ ops \in 0..MaxOps
    /\ ran \in [Queues -> [BOOLEAN -> Orders \cup {None}]]

\* The loop has started and the bound thread is inside a first task.
Init ==
    /\ incoming = [q \in Queues |-> <<>>]
    /\ workEmpty = [q \in Queues |-> TRUE]
    /\ schedules = [q \in Queues |-> TRUE]
    /\ reload = {}
    /\ work = [q \in Queues |-> <<>>]
    /\ keys = [q \in Queues |-> None]
    /\ enabled = [q \in Queues |-> TRUE]
    /\ fence = [q \in Queues |-> None]
    /\ life = [q \in Queues |-> "registered"]
    /\ canceled = {}
    /\ deferred = <<>>
    /\ depth = 0
    /\ pc = "task"
    /\ reloading = {}
    /\ op = NoOp
    /\ requested = FALSE
    /\ call = [p \in Posters |-> NoCall]
    /\ nextOrder = FirstOrder
    /\ posts = 0
    /\ ops = 0
    /\ ran = [q \in Queues |-> [b \in BOOLEAN |-> None]]

-----------------------------------------------------------------------------
(* What WorkQueue and WorkQueueSets compute from a queue's tasks.            *)

BlockedByFence(f, tasks) ==
    f # None /\ (tasks = <<>> \/ Head(tasks).order >= f)

\* GetFrontTaskEnqueueOrder: the key of a work queue in its heap.
FrontKey(f, tasks) ==
    IF tasks = <<>> \/ BlockedByFence(f, tasks) THEN None ELSE Head(tasks).order

\* The heap of WorkQueueSets: the queues with a front task, by its order.
OnTaskPushedToEmptyQueue(q, f, tasks) ==
    keys' = [keys EXCEPT ![q] = FrontKey(f, tasks)]

OnQueuesFrontTaskChanged(q, tasks) ==
    keys' = [keys EXCEPT ![q] = FrontKey(fence[q], tasks)]

OnQueueBlocked(q) == keys' = [keys EXCEPT ![q] = None]

AddQueue(q) == keys' = [keys EXCEPT ![q] = FrontKey(fence[q], work[q])]

RemoveQueue(q) == keys' = [keys EXCEPT ![q] = None]

\* TaskQueueSelector has a queue to service if a heap is not empty.
HasWork == \E q \in Queues : keys[q] # None

\* The queue with the smallest key.
GetOldestQueueInSet(q) ==
    keys[q] # None /\ \A r \in Queues : keys[r] # None => keys[q] <= keys[r]

\* What posting threads are told of a queue, under its lock.
UpdateCrossThreadQueueState(q, tasks, on, f) ==
    /\ workEmpty' = [workEmpty EXCEPT ![q] = (tasks = <<>>)]
    /\ schedules' = [schedules EXCEPT ![q] = on /\ f = None]

TakeImmediateIncomingQueueTasks(q) ==
    /\ work' = [work EXCEPT ![q] = incoming[q]]
    /\ incoming' = [incoming EXCEPT ![q] = <<>>]
    /\ UpdateCrossThreadQueueState(q, incoming[q], enabled[q], fence[q])

\* A work queue that runs empty is refilled at once; its key follows.
PopFrontTasks(q, rest) ==
    /\ \/ /\ rest # <<>>
          /\ work' = [work EXCEPT ![q] = rest]
          /\ UNCHANGED <<incoming, workEmpty, schedules>>
       \/ /\ rest = <<>>
          /\ TakeImmediateIncomingQueueTasks(q)
    /\ OnQueuesFrontTaskChanged(q, work'[q])

-----------------------------------------------------------------------------
(* Posting.                                                                  *)

\* GuardedTaskPoster: once Unregister has begun no token is given.
TryBeginOperation(p, q) ==
    /\ call[p] = NoCall
    /\ life[q] \in {"registered", "graceful"}
    /\ posts < MaxPosts
    /\ posts' = posts + 1
    /\ call' = [call EXCEPT ![p] = [queue |-> q, at |-> "push"]]
    /\ UNCHANGED <<shared, queueState, loopState, pc, op, requested,
                   nextOrder, ops, ran>>

WasEmpty(q) == incoming[q] = <<>> /\ workEmpty[q]

PushTask(q, nestable) ==
    /\ incoming' = [incoming EXCEPT ![q] =
                       Append(@, [order |-> nextOrder, nestable |-> nestable])]
    /\ nextOrder' = nextOrder + 1
    /\ reload' = IF WasEmpty(q) THEN reload \cup {q} ELSE reload
    /\ UNCHANGED <<workEmpty, schedules>>

\* PostImmediateTaskImpl on another thread: the locked part ...
PostImmediateTask(p, nestable) ==
    LET q == call[p].queue
    IN  /\ call[p].at = "push"
        /\ PushTask(q, nestable)
        /\ call' = [call EXCEPT ![p] =
                       IF WasEmpty(q) /\ schedules[q]
                       THEN [queue |-> q, at |-> "schedule"] ELSE NoCall]
        /\ UNCHANGED <<queueState, loopState, pc, op, requested, bounds>>

\* ... then ScheduleWork, outside the lock; then the token is released.
ScheduleWork(p) ==
    /\ call[p].at = "schedule"
    /\ requested' = TRUE
    /\ call' = [call EXCEPT ![p] = NoCall]
    /\ UNCHANGED <<shared, queueState, loopState, pc, op, nextOrder, bounds>>

\* Client code runs on the bound thread in tasks, and in handlers of native
\* messages while the loop has nothing to do.
InClientCode == pc \in {"task", "sleep"}

\* The same on the bound thread.
PostOnBoundThread(q, nestable) ==
    /\ InClientCode
    /\ life[q] \in {"registered", "graceful"}
    /\ posts < MaxPosts
    /\ posts' = posts + 1
    /\ PushTask(q, nestable)
    /\ requested' = (requested \/ (WasEmpty(q) /\ schedules[q]))
    /\ UNCHANGED <<queueState, loopState, pc, op, call, ops, ran>>

-----------------------------------------------------------------------------
(* The loop: reload, select, run, look for more work.                        *)

\* The controller lowers the flag before DoSomeWork looks for a task ...
BeginWork ==
    /\ pc = "begin"
    /\ requested' = FALSE
    /\ pc' = "exchange"
    /\ UNCHANGED <<shared, queueState, loopState, op, call, nextOrder,
                   bounds>>

\* AtomicFlagSet::RunActiveCallbacks takes the flags, then serves each.
RunActiveCallbacks ==
    /\ reloading' = reload
    /\ reload' = {}
    /\ UNCHANGED <<incoming, workEmpty, schedules, queueState, deferred,
                   depth, op, requested, call, nextOrder, bounds>>

SelectNextTask == pc = "exchange" /\ pc' = "select" /\ RunActiveCallbacks

\* Mutation of ReloadEmptyImmediateWorkQueue: blocked tasks enter the heap.
ReloadBlockedToo(q) ==
    /\ pc \in {"select", "delayed"}
    /\ q \in reloading
    /\ reloading' = reloading \ {q}
    /\ TakeImmediateIncomingQueueTasks(q)
    /\ IF enabled[q] THEN OnTaskPushedToEmptyQueue(q, None, incoming[q])
       ELSE UNCHANGED keys
    /\ UNCHANGED <<reload, enabled, fence, life, canceled, deferred, depth,
                   pc, op, requested, call, nextOrder, bounds>>

ReloadEmptyImmediateWorkQueue(q) ==
    /\ pc \in {"select", "delayed"}
    /\ q \in reloading
    /\ reloading' = reloading \ {q}
    /\ TakeImmediateIncomingQueueTasks(q)
    /\ IF enabled[q] /\ FrontKey(fence[q], incoming[q]) # None
       THEN OnTaskPushedToEmptyQueue(q, fence[q], incoming[q])
       ELSE UNCHANGED keys
    /\ UNCHANGED <<reload, enabled, fence, life, canceled, deferred, depth,
                   pc, op, requested, call, nextOrder, bounds>>

SelectWorkQueueToService(q) ==
    pc = "select" /\ reloading = {} /\ GetOldestQueueInSet(q)

FrontCanceled(q) == Head(work[q]).order \in canceled

\* RemoveAllCanceledTasksFromFront: k tasks go.
DropCanceledTasks(q) ==
    /\ SelectWorkQueueToService(q) /\ FrontCanceled(q)
    /\ \E k \in 1..Len(work[q]) :
          /\ \A i \in 1..k : work[q][i].order \in canceled
          /\ k < Len(work[q]) => work[q][k + 1].order \notin canceled
          /\ PopFrontTasks(q, SubSeq(work[q], k + 1, Len(work[q])))
    /\ UNCHANGED <<reload, enabled, fence, life, canceled, loopState, pc, op,
                   requested, call, nextOrder, bounds>>

MustDefer(q) == ~Head(work[q]).nestable /\ depth > 0

DeferTask(q) ==
    /\ SelectWorkQueueToService(q) /\ ~FrontCanceled(q) /\ MustDefer(q)
    /\ deferred' = Append(deferred, [task |-> Head(work[q]), queue |-> q])
    /\ PopFrontTasks(q, Tail(work[q]))
    /\ UNCHANGED <<reload, enabled, fence, life, canceled, depth, reloading,
                   pc, op, requested, call, nextOrder, bounds>>

RunTask(q) ==
    /\ SelectWorkQueueToService(q) /\ ~FrontCanceled(q) /\ ~MustDefer(q)
    /\ PopFrontTasks(q, Tail(work[q]))
    /\ pc' = "task"
    /\ ran' = [ran EXCEPT ![q][Head(work[q]).nestable] = Head(work[q]).order]
    /\ UNCHANGED <<reload, enabled, fence, life, canceled, loopState, op,
                   requested, call, nextOrder, posts, ops>>

MainGoes(from, to) ==
    /\ pc = from
    /\ pc' = to
    /\ UNCHANGED <<shared, queueState, loopState, op, requested, call,
                   nextOrder, bounds>>

SelectNoTask == reloading = {} /\ ~HasWork /\ MainGoes("select", "check")

\* DidRunTask cleans queues up unless it is nested.
DidRunTask == MainGoes("task", IF depth = 0 THEN "didRun" ELSE "check")

\* ... and again, by WillCheckForMoreWork, before DelayTillNextTask looks.
WillCheckForMoreWork ==
    /\ pc = "check"
    /\ requested' = FALSE
    /\ pc' = "delay"
    /\ UNCHANGED <<shared, queueState, loopState, op, call, nextOrder,
                   bounds>>

\* Mutation of DelayTillNextTask: the flags are not looked at.
DelayWithoutReload == MainGoes("delay", IF HasWork THEN "begin" ELSE "sleep")

DelayTillNextTask ==
    \/ HasWork /\ MainGoes("delay", "begin")
    \/ ~HasWork /\ pc = "delay" /\ pc' = "delayed" /\ RunActiveCallbacks

DelayAfterReload ==
    reloading = {} /\ MainGoes("delayed", IF HasWork THEN "begin" ELSE "sleep")

\* The pump's wait may also end for a request that was served meanwhile: the
\* posting thread signals after it set the flag.
WaitReturns == MainGoes("sleep", "begin")

Wake == requested /\ WaitReturns

-----------------------------------------------------------------------------
(* Nested run loops and the non-nestable tasks they defer.                   *)

Spend == ops < MaxOps /\ ops' = ops + 1

\* A task runs a nested loop.
BeginNestedRunLoop ==
    /\ pc = "task"
    /\ depth < MaxDepth
    /\ Spend
    /\ depth' = depth + 1
    /\ pc' = "begin"
    /\ UNCHANGED <<shared, queueState, deferred, reloading, op, requested,
                   call, nextOrder, posts, ran>>

\* Mutation of ExitNestedRunLoop: the outermost loop is taken for nested.
ExitAnyRunLoop ==
    /\ pc \in {"begin", "sleep"}
    /\ depth' = depth - 1
    /\ pc' = IF depth = 1 THEN "requeue" ELSE "task"
    /\ UNCHANGED <<shared, queueState, deferred, reloading, op, requested,
                   call, nextOrder, bounds>>

\* It is left between two pieces of work or when idle; the outer task goes on.
ExitNestedRunLoop ==
    /\ pc \in {"begin", "sleep"}
    /\ depth > 0
    /\ depth' = depth - 1
    /\ pc' = IF depth = 1 THEN "requeue" ELSE "task"
    /\ UNCHANGED <<shared, queueState, deferred, reloading, op, requested,
                   call, nextOrder, bounds>>

LastDeferred == deferred[Len(deferred)]

\* Mutation of PushNonNestableTaskToFront: to the back, like any other task.
PushNonNestableTaskToBack(q, task) ==
    /\ work' = [work EXCEPT ![q] = Append(@, task)]
    /\ IF enabled[q] /\ ~BlockedByFence(fence[q], work'[q])
       THEN OnQueuesFrontTaskChanged(q, work'[q])
       ELSE UNCHANGED keys

PushNonNestableTaskToFront(q, task) ==
    /\ work' = [work EXCEPT ![q] = <<task>> \o @]
    /\ IF enabled[q] /\ ~BlockedByFence(fence[q], work'[q])
       THEN OnQueuesFrontTaskChanged(q, work'[q])
       ELSE UNCHANGED keys

\* Mutation of RequeueDeferredNonNestableTask: a planned reload stays planned.
RequeueKeepingFlag ==
    LET q == LastDeferred.queue
    IN  /\ pc = "requeue"
        /\ deferred # <<>>
        /\ life[q] # "gone"
        /\ workEmpty' = [workEmpty EXCEPT ![q] = FALSE]
        /\ PushNonNestableTaskToFront(q, LastDeferred.task)
        /\ deferred' = SubSeq(deferred, 1, Len(deferred) - 1)
        /\ UNCHANGED <<incoming, schedules, reload, enabled, fence, life,
                       canceled, depth, reloading, pc, op, requested, call,
                       nextOrder, bounds>>

\* From the last to the first; pushed onto an empty work queue, a task makes
\* a reload that was planned unnecessary.
RequeueDeferredNonNestableTask ==
    LET q == LastDeferred.queue
    IN  /\ pc = "requeue"
        /\ deferred # <<>>
        /\ life[q] # "gone"
        /\ IF work[q] = <<>>
           THEN /\ reload' = reload \ {q}
                /\ workEmpty' = [workEmpty EXCEPT ![q] = FALSE]
           ELSE UNCHANGED <<reload, workEmpty>>
        /\ PushNonNestableTaskToFront(q, LastDeferred.task)
        /\ deferred' = SubSeq(deferred, 1, Len(deferred) - 1)
        /\ UNCHANGED <<incoming, schedules, enabled, fence, life, canceled,
                       depth, reloading, pc, op, requested, call, nextOrder,
                       bounds>>

RequeueDone == deferred = <<>> /\ MainGoes("requeue", "task")

\* UnregisterTaskQueue has moved the work queue away: a null pointer is used.
RequeueToUnregistered ==
    /\ deferred # <<>>
    /\ life[LastDeferred.queue] = "gone"
    /\ MainGoes("requeue", "crashed")

-----------------------------------------------------------------------------
(* Fences.                                                                   *)

ClientMay(q) == InClientCode /\ life[q] = "registered" /\ Spend

\* InsertFence draws a number, unless the fence is to block everything, and
\* tells the work queue; front_task_unblocked is kept in op.
InsertFence(q, f) ==
    LET unblocked == /\ enabled[q] /\ work[q] # <<>>
                     /\ BlockedByFence(fence[q], work[q])
                     /\ ~BlockedByFence(f, work[q])
    IN  /\ ClientMay(q)
        /\ f \in {nextOrder, BlockingFence}
        /\ nextOrder' = IF f = nextOrder THEN nextOrder + 1 ELSE nextOrder
        /\ fence' = [fence EXCEPT ![q] = f]
        /\ IF unblocked THEN OnTaskPushedToEmptyQueue(q, f, work[q])
           ELSE IF BlockedByFence(f, work[q]) THEN OnQueueBlocked(q)
           ELSE UNCHANGED keys
        /\ op' = [queue |-> q, unblocked |-> unblocked, previous |-> fence[q],
                  back |-> pc]
        /\ pc' = "fence"
        /\ UNCHANGED <<shared, work, enabled, life, canceled, loopState,
                       requested, call, posts, ran>>

\* Mutation of IncomingUnblocked: only the work queue is asked.
IncomingNeverUnblocked(q, previous, f) == FALSE

IncomingUnblocked(q, previous, f) ==
    /\ previous # None /\ incoming[q] # <<>>
    /\ Head(incoming[q]).order > previous
    /\ f # None => Head(incoming[q]).order < f

\* The locked part, and the request that follows it.
FinishInsertFence ==
    LET q == op.queue
    IN  /\ pc = "fence"
        /\ UpdateCrossThreadQueueState(q, work[q], enabled[q], fence[q])
        /\ requested' = (requested \/ (enabled[q] /\
                (op.unblocked \/ IncomingUnblocked(q, op.previous, fence[q]))))
        /\ op' = NoOp
        /\ pc' = op.back
        /\ UNCHANGED <<incoming, reload, queueState, loopState, call,
                       nextOrder, bounds>>

RemoveFence(q) ==
    LET unblocked == /\ enabled[q] /\ work[q] # <<>>
                     /\ BlockedByFence(fence[q], work[q])
    IN  /\ ClientMay(q)
        /\ fence[q] # None
        /\ fence' = [fence EXCEPT ![q] = None]
        /\ IF unblocked THEN OnTaskPushedToEmptyQueue(q, None, work[q])
           ELSE UNCHANGED keys
        /\ UpdateCrossThreadQueueState(q, work[q], enabled[q], None)
        /\ requested' = (requested \/ (enabled[q] /\
                (unblocked \/ IncomingUnblocked(q, fence[q], None))))
        /\ UNCHANGED <<incoming, reload, work, enabled, life, canceled,
                       loopState, pc, op, call, nextOrder, posts, ran>>

-----------------------------------------------------------------------------
(* Enabling and disabling.                                                   *)

SetQueueEnabled(q) ==
    /\ ClientMay(q)
    /\ enabled' = [enabled EXCEPT ![q] = ~@]
    /\ UpdateCrossThreadQueueState(q, work[q], ~enabled[q], fence[q])
    /\ op' = [NoOp EXCEPT !.queue = q, !.back = pc]
    /\ pc' = "enable"
    /\ UNCHANGED <<incoming, reload, work, keys, fence, life, canceled,
                   loopState, requested, call, nextOrder, posts, ran>>

QueueBlockedByFence(q) ==
    /\ fence[q] # None
    /\ BlockedByFence(fence[q], work[q])
    /\ incoming[q] = <<>> \/ Head(incoming[q]).order > fence[q]

\* The selector follows; OnTaskQueueEnabled requests work if there is any.
FinishSetQueueEnabled ==
    LET q == op.queue
    IN  /\ pc = "enable"
        /\ IF enabled[q] THEN AddQueue(q) ELSE RemoveQueue(q)
        /\ requested' = (requested \/
                (/\ enabled[q]
                 /\ work[q] # <<>> \/ incoming[q] # <<>>
                 /\ ~QueueBlockedByFence(q)))
        /\ op' = NoOp
        /\ pc' = op.back
        /\ UNCHANGED <<shared, work, enabled, fence, life, canceled,
                       loopState, call, nextOrder, bounds>>

-----------------------------------------------------------------------------
(* Unregistering, at once or when empty; canceling.                          *)

\* RemoveQueue, then the operations controller closes.
BeginUnregister(q, back) ==
    /\ RemoveQueue(q)
    /\ life' = [life EXCEPT ![q] = "closing"]
    /\ op' = [NoOp EXCEPT !.queue = q, !.back = back]
    /\ pc' = "unregister"
    /\ UNCHANGED <<shared, work, enabled, fence, canceled, loopState,
                   requested, call, nextOrder, posts, ran>>

ShutdownTaskQueue(q) == ClientMay(q) /\ BeginUnregister(q, pc)

\* The wait for the posting threads is over: the queue's tasks are deleted.
UnregisterTaskQueue ==
    LET q == op.queue
    IN  /\ pc = "unregister"
        /\ \A p \in Posters : call[p].queue # q
        /\ incoming' = [incoming EXCEPT ![q] = <<>>]
        /\ work' = [work EXCEPT ![q] = <<>>]
        /\ reload' = reload \ {q}
        /\ life' = [life EXCEPT ![q] = "gone"]
        /\ op' = NoOp
        /\ pc' = op.back
        /\ UNCHANGED <<workEmpty, schedules, keys, enabled, fence, canceled,
                       loopState, requested, call, nextOrder, bounds>>

ShutdownTaskQueueGracefully(q) ==
    /\ ClientMay(q)
    /\ life' = [life EXCEPT ![q] = "graceful"]
    /\ UNCHANGED <<shared, work, keys, enabled, fence, canceled, loopState,
                   pc, op, requested, call, nextOrder, posts, ran>>

IsEmpty(q) == work[q] = <<>> /\ incoming[q] = <<>>

\* CleanUpQueues unregisters the queues to shut down that are empty.
CleanUpQueues ==
    \/ \E q \in Queues :
         /\ pc = "didRun"
         /\ life[q] = "graceful" /\ IsEmpty(q)
         /\ BeginUnregister(q, "didRun")
         /\ UNCHANGED ops
    \/ /\ \A q \in Queues : life[q] = "graceful" => ~IsEmpty(q)
       /\ MainGoes("didRun", "check")

\* The client cancels a task it posted.
CancelTask(q) ==
    /\ ClientMay(q)
    /\ \E i \in DOMAIN work[q] : canceled' = canceled \cup {work[q][i].order}
    /\ UNCHANGED <<shared, work, keys, enabled, fence, life, loopState, pc,
                   op, requested, call, nextOrder, posts, ran>>

-----------------------------------------------------------------------------
ClientStep ==
    \/ \E q \in Queues :
         \/ \E b \in BOOLEAN : PostOnBoundThread(q, b)
         \/ \E f \in {nextOrder, BlockingFence} : InsertFence(q, f)
         \/ RemoveFence(q)
         \/ SetQueueEnabled(q)
         \/ ShutdownTaskQueue(q)
         \/ ShutdownTaskQueueGracefully(q)
         \/ CancelTask(q)
    \/ BeginNestedRunLoop
    \/ ExitNestedRunLoop

\* What the bound thread does without being asked.
MainStep ==
    \/ BeginWork \/ SelectNextTask \/ SelectNoTask \/ DidRunTask
    \/ WillCheckForMoreWork \/ DelayTillNextTask \/ DelayAfterReload \/ Wake
    \/ \E q \in Queues :
         ReloadEmptyImmediateWorkQueue(q) \/ DropCanceledTasks(q)
         \/ DeferTask(q) \/ RunTask(q)
    \/ RequeueDeferredNonNestableTask \/ RequeueDone \/ RequeueToUnregistered
    \/ FinishInsertFence \/ FinishSetQueueEnabled
    \/ UnregisterTaskQueue \/ CleanUpQueues

CallStep(p) == ScheduleWork(p) \/ \E b \in BOOLEAN : PostImmediateTask(p, b)

Next ==
    \/ \E p \in Posters : CallStep(p) \/ \E q \in Queues : TryBeginOperation(p, q)
    \/ ClientStep
    \/ WaitReturns
    \/ MainStep

Spec == Init /\ [][Next]_vars

\* Posting threads finish their calls; the bound thread goes on, its tasks end.
Fairness ==
    /\ WF_vars(MainStep)
    /\ SF_vars(DidRunTask)
    /\ \A p \in Posters : WF_vars(CallStep(p))

LiveSpec == Spec /\ Fairness

-----------------------------------------------------------------------------
(* Properties.                                                               *)

Pending(q) == work[q] \o incoming[q]

\* The heaps, which are maintained change by change, hold at every step what
\* they would hold if computed anew: each enabled queue with a front task
\* that no fence blocks, at that task's order.
SelectorExact ==
    \A q \in Queues : pc \notin {"enable", "unregister"} \/ op.queue # q =>
        keys[q] = IF enabled[q] /\ life[q] # "gone"
                  THEN FrontKey(fence[q], work[q]) ELSE None

\* Tasks that came to an empty queue are not forgotten: its flag is set or
\* about to be served; and a flagged queue still has an empty work queue when
\* ReloadEmptyImmediateWorkQueue swaps into it (task_queue_impl.cpp:459).
ReloadIsOwed ==
    \A q \in Queues :
        /\ work[q] = <<>> /\ incoming[q] # <<>> => q \in reload \cup reloading
        /\ q \in reload \cup reloading => work[q] = <<>>

\* A task that may run now: of a queue that is registered and enabled, first
\* in it, not behind the fence.
Runnable(q) ==
    /\ life[q] \in {"registered", "graceful"} /\ enabled[q]
    /\ FrontKey(fence[q], Pending(q)) # None

\* The thread never sleeps on a task that may run, whatever fences and
\* queues were changed while others posted, unless a call that posts is
\* about to request work; nor on deferred tasks outside of nested loops.
NoStrandedTask ==
    pc = "sleep" =>
        /\ depth = 0 => deferred = <<>>
        /\ \A q \in Queues : Runnable(q) =>
              requested \/ \E p \in Posters : call[p].at = "schedule"

\* Of a queue the tasks that may nest run in the order they were posted, and
\* so do those that may not, however often they are deferred and requeued.
InPostedOrder ==
    [][\A q \in Queues : RunTask(q) =>
        Head(work[q]).order > ran[q][Head(work[q]).nestable]]_vars

\* A queue does not keep a task that may run for ever: it is run, fenced off,
\* disabled or unregistered, unless a nested loop is to be left first.
TasksRun ==
    \A q \in Queues :
        (Runnable(q) /\ depth = 0)
            ~> (~Runnable(q) \/ depth > 0 \/ pc = "crashed")

=============================================================================
