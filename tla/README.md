# Verification of BaseLib's scheduling core

BaseLib is a Windows fork of Chromium's `//base` (C++17, `src/BaseLib`). This
directory holds TLA+ models of its concurrent core, the TLC instances that check
them and TLAPS proofs about them. Paths below are relative to `src/BaseLib`.

## 1. Inventory

### Thread pool (`task/thread_pool`, `task/post_job`)

| component | state | operations | hard behaviour |
|---|---|---|---|
| JobTaskSource, JobHandle, JobDelegate | an atomic word (worker count, canceled bit), a join flag, `lock_` and a condition variable, a place in a priority queue | WillRunTask, TakeTask, DidProcessTask, ShouldYield, NotifyConcurrencyIncrease, Join, Cancel, Detach | lock-free increments against locked decrements, a max concurrency read from a user callback, a joining thread that competes with workers |
| Sequence, TaskSource | a FIFO of tasks, `has_worker_`, whether it is queued | PushTask, WillRunTask, TakeTask, DidProcessTask, Clear | a task posted while the last one runs must re-queue the sequence exactly once |
| TaskTracker | an atomic word (shutdown started, items blocking shutdown), shutdown event, flush counters, CanRunPolicy | WillPostTask, RegisterTaskSource, RunAndPopNextTask, StartShutdown, CompleteShutdown, Flush | counting blocking items against a shutdown that starts at any time |
| ThreadGroup, ThreadGroupImpl | priority queue, workers, idle stack, running and best-effort counters, max tasks | GetWork, DidProcessTask, EnsureEnoughWorkers, blocking calls, cleanup, CanRunPolicy updates | wakeups delivered after the lock is released, workers that detach on a timeout |
| WorkerThread | wake-up event, should-exit flags, join state | RunWorker, WakeUp, Cleanup, JoinForTesting | an auto-reset event and a thread that outlives its registration |
| DelayedTaskManager | a heap of delayed tasks, the scheduled flag of the ripest | AddDelayedTask, ProcessRipeTasks, Start | one wakeup on the service thread per ripest task |
| ThreadPoolImpl | thread groups, fences | Post, Shutdown, fences, UpdatePriority | a task source that changes thread group while it is in transit |

### Sequence manager (`task/sequence_manager`, `message_loop`)

| component | state | operations | hard behaviour |
|---|---|---|---|
| WorkDeduplicator | three atomic bits | OnWorkRequested, OnDelayedWorkRequested, OnWorkStarted, WillCheckForMoreWork, DidCheckForMoreWork | another thread's request between the check for work and the return to the pump |
| ThreadControllerWithMessagePumpImpl | the deduplicator, next delayed work, nesting, quit flags | ScheduleWork, SetNextDelayedDoWork, DoWork, DoIdleWork, Run, Quit | nested run loops and spurious pump wakeups |
| SequenceManagerImpl, TaskQueueImpl, WorkQueue, WorkQueueSets, TaskQueueSelector | incoming, work and delayed queues, fences, enqueue orders | PostTask, reload, fences, enable, SelectTask | ordering across queues, cross-thread posting against reload |
| AtomicFlagSet | groups of 64 flags, two lists of groups | AddFlag, SetActive, RunActiveCallbacks, release | flags set from other threads while the callbacks run |

### Task support (`task/common`, `task/promise`, `threading`)

| component | state | operations | hard behaviour |
|---|---|---|---|
| OperationsController | one atomic word, a shutdown event | StartAcceptingOperations, TryBeginOperation, token release, Shutdown | operations begun while the shutdown waits |
| CheckedLock | per-thread list of acquired locks | Record, RecordAcquisition, RecordRelease | lock order |
| DependentList, AbstractPromise | an atomic list head with a state in its low bits | Insert, SettleAndDispatchAllDependents | insertion against settlement |
| PostTaskAndReplyImpl | a relay owned by the task | RunTaskAndPostReply, destruction on either sequence | the reply must be destroyed on the origin sequence |
| Thread, RunLoop, Timer | a thread and its loop | Start, Stop, Run, Quit | stop before start is complete |

### Synchronization, memory and lazy state

`synchronization` (Lock, ConditionVariable, WaitableEvent over Win32 objects),
`memory/weak_ptr`, `memory/ref_counted`, `lazy_instance_helpers` (the creation
race of a lazy instance), `threading/thread_local_storage`,
`observer_list_threadsafe`, `at_exit`, `path_service`.

### Metrics and debugging storage

`metrics/persistent_memory_allocator` is a lock-free allocator over shared,
crash-surviving memory; `metrics/histogram*`, `metrics/field_trial`,
`metrics/statistics_recorder` and `debug_/activity_tracker` store on it.

### Sequential libraries

`containers`, `numerics`, `strings`, `json`, `files`, `hash`, `time`, `i18n`,
`values`, `pickle`, `command_line`, `logging`, `process`, `power_monitor`,
`device`, `win`, `trace_event`, `allocator`, `testing`, `third_party`: mostly
sequential, or wrappers of system calls.

## 2. Plan

The components are modelled in the order of what depends on them: first what
decides whether a task that was accepted runs, then what decides when.

| step | modules | state |
|---|---|---|
| 1 | `JobTaskSource`: one parallel job, its workers and its handle | checked, safety proved |
| 2 | `TaskTracker`: sequences, shutdown, flushes, fences | checked, safety proved |
| 3 | `OperationsGate`, `OperationsController`: a contract and the lock-free word that implements it | checked, safety and refinement proved |
| 4 | `WorkRequests`, `WorkDeduplicator`, `ThreadController`, `ThreadLoop`: a contract of requests for work, the loop of a thread and the word that saves wakeups | checked, safety and refinement proved |
| 5 | `SequenceManager`: task queues, fences, nesting | checked, safety and refinement of `WorkRequests` proved |
| 6 | `ThreadGroup`: workers, wakeups after the lock, blocking calls | checked, safety proved |
| 7 | `DelayedTaskManager`: the heap of delayed tasks and the one scheduled wakeup | checked, safety proved |
| 8 | `IterableLog`, `PersistentMemoryAllocator`: a contract and the lock-free segment that processes share and die in | checked, safety and refinement proved |
| 9 | `Settlement`, `AbstractPromise`: a contract of a list of dependents, and promises that depend on each other | checked, safety and refinement proved |
| 10 | `SequenceManager`: delayed tasks and delayed fences, priorities and the starvation counts of TaskQueueSelector | next |
| 11 | `ThreadPoolImpl` with several groups, `JoinForTesting` and the hand-off between groups | planned |
| 12 | message pumps for UI and I/O; `PostTaskAndReply`; `Thread` start and stop; `Timer` | planned |
| 13 | `lazy_instance`, the group lists of `AtomicFlagSet`, curried promises | planned |

Composition. `OperationsController` is tied to `OperationsGate` by a refinement
mapping, and so are `PersistentMemoryAllocator` to `IterableLog` and
`AbstractPromise` to `Settlement`; `SequenceManager` uses what the gate promises (its action
`TryBeginOperation` is the gate's `BeginOperation`), so that the word needs no
second look there. `ThreadController` EXTENDS `WorkDeduplicator`, whose
operators are its only access to the deduplicator's word. `SequenceManager`
replaces the controller by a flag. `WorkRequests` is the seam: a contract of
how a request is taken back and how long it stands, which the controller's loop
and the queues' thread are both proved to implement; section 3 has the
argument. `ThreadLoop` is `ThreadController` with names of its own for
constants and variables, so that `SequenceManagerProofs` can speak of the loop
and of the queues it serves. `TaskTracker` has the thread group as a set of
sequences, `ThreadGroup` has the sequences as numbers: what a sequence does at
one worker is in the first, how many workers there are is in the second.

Abstract specifications worth stating next: a thread group as a bag of sources
of which any that may run can be taken (`ThreadGroup` implements it), a task
queue as a list with a barrier (`SequenceManager` implements it).

Each property of a passing run is proved for every instance, but for the
liveness properties (section 7). The next theorems come with steps 10 to 13:
the invariant of `SequenceManager` with a delayed queue per task queue, and the
two specifications above.

## 3. Modules

Common conventions. `pc` says where a thread is; a step is one access to state
that another thread can see (an operation on an atomic word, a critical section
of a lock, a use of an event), together with everything the thread does up to
its next such access. Where code under a lock makes accesses that are visible
without it, the lock's section is several steps, and an operator named
`...LockHeld` lists the places in which it is held. Memory is
sequentially consistent: the relaxed accesses of the code are single words
whose order the code's own comments argue about (job_task_source.cpp:18-62);
the orders that only weak memory allows are outside these models. A definition
called "Mutation of X" in its comment is no part of a specification: it is the
form a bug in X would take, and shows that a property is able to fail.

### JobTaskSource

Source: `job_task_source.*`, `post_job.cpp`, and what `thread_group.cpp`,
`task_tracker.cpp` and `thread_pool_impl.cpp` do with a job. The variables are
the two parts of `State::value_` (`workerCount`, `canceled`), `join_flag_`, what
`max_concurrency_callback` returns now, whether the source is in the priority
queue, and whether the pool shuts down. `seen[t]` holds what a thread read and
has yet to act on: the stale values are the point of the model. A worker takes
the source (`TakeBegin`, `MayIncrement`, `TakeEnd`, under the group's lock),
runs the body (`PollJoinFlag`, `PollCanceled`, `ProcessItem`,
`RaiseMaxConcurrency` and `NotifyLocked`, `EnqueueJob`) and leaves
(`DidProcessTask`, `DidProcessTaskSignal`, `DidProcessTaskDecide`,
`ReEnqueueTaskSource`). The owner of the handle joins, cancels, detaches or
changes the priority, and a join waits on the condition variable, whose
wakeups may be spurious. `ProcessItem` and `RaiseMaxConcurrency` stand for the
client's callbacks and are external.

`Budget` bounds how often the client raises the max concurrency, the pool asks
for a yield, the condition variable wakes up spuriously and the pool shuts down.

### TaskTracker

Source: `task_tracker.cpp`, `sequence.cpp`, `task_source.cpp`, and
`PostTaskWithSequence`, the fences and `Shutdown` of `thread_pool_impl.cpp`.
`started` and `items` are the word of `TaskTracker::State`, `event` is
`shutdown_event_`, `incomplete` is `num_incomplete_task_sources_`. A post checks
(`CheckPost`), takes the sequence's lock, registers (`RegisterTaskSource`,
`CheckRegister`, `CountIncomplete`) and pushes; a worker goes through
`TakeTaskSource`, `BeforeRunTask`, `TakeTask` or `ClearTasks`, `FinishTask`,
`AfterRunTask`, `DidProcessTask` and `ReEnqueue` or the release. `main` walks
through `ThreadPoolImpl::Shutdown` and both phases of the tracker's, one access
at a time. `runStep` is the `run_step_` that exists only to be asserted.
`early` is a history variable: who holds an item that was counted before the
shutdown started, or on behalf of a task that holds one.

`PostingChecks` tells whether the DCHECKs on posting are compiled in: with
them a late post aborts the process (the thread stays at `aborted`), without
them it goes on.

### OperationsController and OperationsGate

Source: `task/common/operations_controller.*`. `word` is the atomic word
with its two flags and its count; `FetchAddOne` and `FetchSub` carry into the
flags as the machine's addition does. `OperationsGate` is what the header
promises: operations begin between the start and the shutdown, and none runs
when the shutdown has returned. `Phase` and `Running` are the mapping.

### WorkDeduplicator, ThreadController, ThreadLoop and WorkRequests

Source: `work_deduplicator.*`, `thread_controller_with_message_pump_impl.cpp`,
`message_pump_default.cpp`, `run_loop.cpp`. The deduplicator's three bits are
the set `flags`, and one operator is one atomic access. The controller is the
bound thread's walk through `MessagePump::Run`, `DoSomeWork` and `DoWorkImpl`;
`depth` is the stack of run loops, `quits` those of which `quit_called_` is set,
`stopped` those whose pump was told to quit, `quitPending` and `allowed` the
controller's `quit_pending` and `task_execution_allowed`. `next` is what the
last look at the task source told. The source itself is a number, `work`. A batch of
`work_batch_size` tasks may end after any of them. `ThreadLoop` gives the
constants and variables other names (`loopPc`, `nesting`, `source`) and states
the properties that the run `controller` checks.

`WorkRequests` is what a controller and its task source keep to so that no
request is lost: the thread takes the request back, then looks for work once
more, and only then sleeps; a request made since stands until it is back at
work. `LoopPlace` maps the loop to it, with the pending flag as the request.

### SequenceManager

Source: `sequence_manager_impl.cpp`, `task_queue_impl.cpp`, `work_queue.cpp`,
`work_queue_sets.cpp`, `task_queue_selector.cpp`, `atomic_flag_set.cpp`. The
variables under `any_thread_lock_` (`incoming`, `workEmpty`, `schedules`) are
separate from those of the bound thread (`work`, `keys`, `enabled`, `fence`,
`life`), as in the code: that a post decides on the former what the latter has
changed since is what can go wrong. `keys` is the heap of WorkQueueSets, updated
change by change as the code does. Operations that leave the lock in their middle
(`InsertFence`, `SetQueueEnabled`, `UnregisterTaskQueue`) are two
steps with `op` in between.

What the controller does between two calls is the flag `requested`. The bound
thread lowers it when a batch begins or a check for more work begins
(`OnWorkStarted`, `WillCheckForMoreWork`) and sleeps only if it found nothing
and the flag is still low. Three theorems
justify the flag. The loop with its deduplicator treats its pending flag as
`WorkRequests` says (`LoopKeepsRequests`), and `SequenceManager` treats
`requested` so too (`QueuesKeepRequests`): what the queues take for granted is
what the loop does. And while the loop waits with the pending flag set, the
event is signaled or about to be (`RequestsWake`), so that a request wakes the
thread. The wait may also end without a request (`WaitReturns`), because the
signal of a request can come when it was served already.

A bound thread that would touch a queue that is gone goes to `crashed`, and
nothing happens any more; section 6 says how it can.

### ThreadGroup

Source: `thread_group_impl.cpp`, `thread_group.cpp`, `worker_thread.cpp`,
`worker_thread_stack.cpp`. The queue is a number of sources per priority.
`count` has the counters that `lock_` guards; `workers` and `idle` are
`workers_` and `idle_workers_stack_`. `owes[t]` is the heart: what the
`ScopedWorkersExecutor` of thread `t` has collected in its critical section and
carries out after it, in the order of `FlushImpl` (wakeups, starts, posting of
`AdjustMaxTasks`), one per step, while others enter the group. A worker waits with a timeout
(`WakeUp`, `SleepTimeout`), calls `GetWork`, which releases and takes the lock
again if it has workers to wake (`GetWorkAfterFlush`), runs
its task, in it perhaps a `ScopedBlockingCall` of either kind or an upgrade, and
reports back. `block` is the state of that call; `overdue` says that it lasts
longer than `may_block_threshold`, a matter of time alone. The policy is
`canRun`, the priorities that may run, and `policyOwed` is the interval
between the tracker's change and the group's `DidUpdateCanRunPolicy`.

A worker's name can be used again after its cleanup: code that holds the old
`WorkerThread` holds a reference to an object of its own, so a name is not
given out while a wakeup for it is still owed (`Held`), and `Cleanup` leaves
enough names for `MaxWorkers` workers.

### DelayedTaskManager

Source: `delayed_task_manager.*`. `queue` is `delayed_task_queue_`, a set with an order (`Before`: run time, then
sequence number); `scheduled` has the tasks whose flag is set. A section of
`queue_lock_` is one step (`Start`, `AddDelayedTask`, the first half of
`ProcessRipeTasks`), and its end, `ScheduleRipest`, may leave the thread with a
call to post. It posts it without the lock, reading the clock twice: for the
delay (`ComputeDelay`) and when the service thread's queue turns the delay into
a time (`PostDelayedTask`). `wakeup[n]` is the time at which the call that task `n`
scheduled is due. `Tick` lets time pass between any two steps. Tasks are given
run times up to `Horizon`, where the clock stops; a call that would be due
later is due then.

### PersistentMemoryAllocator and IterableLog

Source: `metrics/persistent_memory_allocator.*`, and what
`debug_/activity_tracker.cpp` and `persistent_histogram_allocator.cpp` do with
blocks they no longer need. The segment is what processes share and what
survives them: the metadata, `freeptr`, `tailptr`, `flags`, and for each
offset a block header (`size`, `cookie`, `type`, `next`). Offsets and sizes
count units of 8 bytes, the alignment of blocks; a step is one access to the
segment. A process constructs an allocator (`Construct`, `StoreMetadata`,
store by store), its writers allocate (`Allocate`, `AllocateLoop`,
`WasteRest`, `WriteHeader`), publish (`MakeIterable`, `LoadTail`,
`LinkAfterTail`, `SwingTail`, `HelpTail`) and recycle blocks (`Discard`,
`Release`, `ClearMemory`, `FinishRelease`, `FindFree`, `Reuse`), its readers
share an iterator (`GetNext` ... `CountRecord`, `Reset`). `Die` takes a process
and the places of its threads away and leaves the segment as it is.

`IterableLog` is what the header says of iteration: a log that grows at its
end, of which each iterator delivers the records in order. The log is `Linked`,
the blocks that the `next` links reach from the queue.

What clients must respect is respected here: a block is made iterable by its
owner, once; `Reset` is not called during an iteration; a process attaches to
a segment when its constructor is through or its process is dead.

### AbstractPromise and Settlement

Source: `task/promise/dependent_list.*`, `abstract_promise.*`. Threads of three
kinds race: those that settle a prerequisite (or cancel it), those that create
a dependent of it, and those that run a dependent's posted task; `loc` says
which dependent or prerequisite a thread is at. `list` is the word of a
`DependentList`: its nodes, the state in its low bits, and whether it still
takes insertions. Exchange loops are one step, the access that succeeds: one
that failed changed nothing. `word` is the pointer of each node with its
bit for "retained", `held` the references that nodes have added; `References`
adds those of the threads that still use the prerequisite. How a dependent
hears of a settlement depends on its `kind`: `Promises::All`, a `Then` of one
prerequisite, or a dependent that any of several settles.

`crash` records the first access of which the language says nothing: to a
cleared node (`null`), an executor that was reset (`executor`), a prerequisite
that was freed (`freed`). All three can be reached, and section 6 says how.

`Settlement` is what `dependent_list.h` says of a list: the dependents hear the
outcome in the order of their insertion, once, and an insertion fails only
when all of them have been told. `accepted` and `told` are history.

## 4. Runs

| run | instance | what it shows |
|---|---|---|
| `job` | 2 workers and the owner, max concurrency 2, one of each optional event | the count is exact, the job is queued whenever more can run, a join is never forgotten, a canceled join is final; a join returns; announced work is done |
| `tracker` | 1 sequence of any behaviour, 2 posters one of which is the service thread, 2 workers, a flusher, 2 posts, a fence that changes once, the posting checks | counts, the promise of the shutdown, one place per sequence; the shutdown returns behind any fence; a flush returns, unless a fence holds tasks |
| `operations` | 3 threads, a count of fewer than 6, 2 rejected attempts | the gate is implemented, the shutdown ends |
| `controller` | 2 posters, 3 posts, 3 loops nested up to 3 deep | no sleep on work, quits are heeded at any depth, work runs, the pending flag is kept as `WorkRequests` says |
| `sequence` | 2 queues, 1 poster, 2 posts, 2 operations, 1 nested loop | exact heaps, reload flags, no sleep on a runnable task, order; a task that may run is run |
| `group` | 4 names for 3 workers, limits 2 and 1, 2 calls, 1 blocking call, 1 policy change from any policy | exact counters, no stranded source, `AdjustMaxTasks` is owed when it is needed, sources run |
| `delayed` | 2 posters, 3 tasks, delays 1 and 2, times 0 to 4 | the ripest task always has a call, tasks are forwarded in order, each is forwarded |
| `pma` | 2 processes with 3 threads, of which one may die once, a segment of 2 pages of 11 units, blocks of 5 | blocks do not overlap, are recycled by one thread at a time and clean; the list and its iterators are a log; nothing a death leaves behind is taken for corruption or stops a publication |
| `promise` | 2 prerequisites, one of which may be canceled; a dependent of both and one of the first | lists refine `Settlement`, outcomes follow from the prerequisites', values that executors read are kept, dependents settle |
| `job_join_not_done`, `tracker_block_late`, `promise_null` | small instances | what a comment or an assertion says and the code does not do: section 6 |

Why the bounds are enough to be interesting. In each instance every action
fires, and every property is violated by a mutation of the code that
PROJECT.json lists, so no property holds for want of the case it is about.

- `job`: two workers and the owner are the three parties of the races (a worker
  that leaves, one that enters, one that joins); a job is saturated at 2 and not at 1.
- `tracker`: two posters race to the same sequence, and the second is the
  service thread, which also posts delayed tasks. 2 posts let the sequence become
  empty and be registered again. The safety properties are also proved for any
  numbers, so that the instance is chosen for the liveness properties.
- `operations`: the count wraps at 6, and 2 + 3 < 6 is what the proofs call
  `Fits`.
- `controller`: at depth 3 the loop that is quit, the one that runs and one in
  between are three different ones.
- `sequence`: two queues are needed for the heap and for a task that is
  deferred while the other queue goes on; 2 operations are a fence or a
  disabling and its undoing.
- `group`: `InitialMaxTasks` is 2 because with 1 GetWork never finds an idle
  worker missing and so never leaves its lock; the limit of 1 best-effort task
  differs from that of all tasks; a third worker exists only when a blocking
  call raised the limit. 3 calls and 2 blocking calls with symmetric
  names were explored without an error as well.

- `delayed`: a riper task that comes when a call is scheduled, one of the same
  run time and a later one are three tasks; two delays and five times let a call
  be late by one tick or more and take several tasks.
- `pma`: the first page has 3 units left after the metadata, which is too
  little for a block: they become a wasted rest; the second page has
  room for two blocks of 5, the second of which gets the unit that is left
  over. So both ways of fitting, a full segment and a failed
  exchange at each happen. The mortal process has one writer, the other one a
  writer that also iterates and a reader: it sees what the first left behind.
- `promise`: a dependent of two has a first and a last prerequisite that
  different threads settle; the first prerequisite has two dependents, so that
  a round of its settlement takes one or both of them.

`CHECK_DEADLOCK FALSE` is said where the system may stop: a job whose handle
was joined and which has no work left, a pool that was shut down, promises that
are settled, a clock at its horizon, a full segment, and bounded clients that
have nothing more to do. `operations` and `group` never stop.

No run uses symmetry: each of them also checks liveness or action properties,
for which TLC's reduction is not sound.

## 5. Fairness

Liveness is checked under what schedulers and clients give, no more.

- `job`: threads inside a call go on, and worker tasks end. The owner may hold
  its handle for ever; what it began it finishes.
- `tracker`: every poster, worker, flusher and the shutting-down
  thread goes on; nobody has to post or flush. Tasks end.
- `operations`: a thread inside a call goes on and operations end. The claim
  of `ShutdownEnds` has an exception the code has too: threads that attempt an
  operation again and again for ever can keep the count from being zero each
  time the last one leaves.
- `controller`, `sequence`: weak fairness of the loop and of each
  posting call; strong fairness of a task's end (`TaskEnds`, `DidRunTask`)
  because a task is left and entered again by each call it makes, and a task
  makes finitely many calls. Nobody has to post, nest or quit, and
  nothing wakes a thread without a request.
- `group`: executors finish, woken workers go on, tasks outside blocking calls
  end, time passes for a blocked task (`MayBlockOverdue`), the service thread
  runs `AdjustMaxTasks`, `Main` starts the group and delivers the policy.
  There is no fairness for a blocking call's end: that sources run although
  blocked tasks never return is the purpose of the mechanism. There is none
  for the timeout of an idle worker either. In an instance of the run's size no source
  depends on it. In a larger group one can, in the first case that section 6
  notes of `ThreadGroup`: two workers take the wakeups of three, and their
  tasks then block for ever without a limit being raised.
- `delayed`: a thread inside a call goes on, the service thread runs the calls
  that are due and forwards what they popped, the clock goes on. Nobody has to
  post or to start the pool.
- `pma`: a writer that publishes a block goes on, unless its process dies.
  The fairness is of its steps between the load of the tail and the end of the
  publication: that these are not repeated for ever is the claim.
- `promise`: while a thread is in a call or a task is posted, some of them goes
  on. Whether a prerequisite is settled or a dependent created is up to the
  clients.

## 6. Where the code and its documents disagree

Each has a run that ends with TLC's counterexample.

1. `job_join_not_done`: `JobHandle::Join` "doesn't return until all tasks have
   completed" (post_job.h:93). `WillRunTask` reads the max concurrency before
   its compare-exchange (job_task_source.cpp:243); a worker with a stale
   positive value increments the count after the joining thread left, and
   enters `worker_task` after the join returned. `CanceledJoinIsFinal` is the
   part of the promise that does hold, since the increment fails on the canceled bit.
2. `tracker_block_late`: a BLOCK_SHUTDOWN post increments the items and then
   checks that the event is not signaled (task_tracker.cpp:620-626). A thread
   that took the items to zero just before signals after that check:
   `CompleteShutdown` returns and the accepted task runs later.
   `ShutdownMeansDone` is what holds: everything counted before the shutdown
   started, or posted by a task so counted, is done.
3. `promise_null`: the loop that inserts a new dependent into the lists of its
   prerequisites says that it leaves early when the nodes were cleared, because
   one of them was canceled, and asserts that the next node still has its
   prerequisite (abstract_promise.cpp:93-95). A prerequisite that was rejected
   also clears them: `Promises::All` executes at once, `OnRejected` clears the
   adjacency list, and the loop goes on to a node that is null.

Noticed while modelling, without a run of its own:

- A skipped sequence is cleared, which resets `run_step_` (task_source.cpp:142),
  and then reaches the DCHECK in `DidProcessTask` that it is `kTaskAcquired`
  (task_source.cpp:151). `runStep` of `TaskTracker` shows it.
- A queue that is unregistered inside a nested loop takes its work queue along,
  and leaving the loop puts the task that was deferred back into it
  (task_queue_impl.cpp:1064), against the comment at
  sequence_manager_impl.cpp:594. `SequenceManager` goes to `crashed`.
- `RetainSettledPrerequisite` marks a node as retaining before it adds the
  reference (dependent_list.cpp:116-125); a thread that clears the node in
  between releases a reference that was not added, and the prerequisite may be
  freed under the first thread. `crash` is `freed`.
- `Execute` looks whether the promise has an executor and runs it
  (abstract_promise.cpp:345); a cancelation through another prerequisite
  resets it in between (line 542). `crash` is `executor`.
- The DCHECK in `GetPrerequisitePolicy` that a promise without executor is
  settled (abstract_promise.cpp:306) can be met between the two steps of such a
  settlement.
- `Promise::CreateRejected` (promise.h:595) constructs its value as resolved.
- After a failed exchange `AllocateImpl` keeps the size it had padded to the end
  of the page (persistent_memory_allocator.cpp:700-716), so that a block may be
  padded by more than the comment there allows.
- post_job.cpp:142 removes the task source when the join returns, and nothing may touch the
  callbacks afterwards; a worker in `DidProcessTask` still calls the max
  concurrency callback (job_task_source.cpp:370) and may enqueue the
  source again.
- A spurious wakeup of the joining thread finds `join_flag_` still set and fails
  the DCHECK of `SetWaiting` (job_task_source.cpp:220); the model goes on as
  a release build does.
- With two threads in `FlushForTesting`, `flush_cv_->Signal()`
  (task_tracker.cpp:711) wakes one of them and the other waits for ever; the
  run has one flusher.
- The 30-bit count of the OperationsController overflows into its flags after
  2^30 attempts that are rejected before the start (operations_controller.cpp:45).
- A signal of `shutdown_complete_` may come after the wait returned, when the
  controller may be gone (operations_controller.cpp:101).
- A wakeup that is delivered late may reach a worker that has timed out, become
  idle again below another one and cleaned itself up, though calling `WakeUp`
  after `Cleanup` "is wrong" and fails a DCHECK (worker_thread.cpp:83). In a
  release build the signal is lost on an object that nobody uses any more, as
  in the model.
- `EnsureEnoughWorkers` wakes up two workers at most
  (thread_group_impl.cpp:1016) and relies on these to look for more. Both may be
  workers that timed out and left the lock in the middle of `GetWork`
  (thread_group_impl.cpp:583): they are past their look, take the sources, and look
  again only when their tasks end or raise a limit. A third source that may run
  waits until then, or until another call or a timeout. `NoStrandedSource` first
  said that somebody is awake for every such source, which holds in the run's
  instance; the attempt to prove it for larger groups led to a scenario with 6 tasks at a
  time in which it fails. No comment promises more than the code does, and the
  property now says what holds.
- `BlockingEnded` lowers the limits (thread_group_impl.cpp:814) without looking
  whether `AdjustMaxTasks` has to be posted. If all other tasks are in blocking
  calls that were counted as unresolved, the limits may be too low with nothing posted, until the
  task whose call ended ends or blocks again. `AdjustIsOwed` says so.
- A `WorkerThread` whose thread cannot be created (worker_thread.cpp:67) stays in
  `workers_` and is woken up in vain.
- The condition on `impl_lock_` at task_queue.cpp:191 is the inverse of what
  its comment says.
- The counter of `kMaxDelayedStarvationTasks` (task_queue_selector.h:115) is one
  for all priorities: a selection of another priority resets it
  (task_queue_selector.cpp:218), so more delayed tasks than that can overtake a
  waiting immediate task. Read in the code; step 10 of the plan will model it.
- The worker that slips in behind a join (1) may raise the max concurrency; its source has been
  removed by then, so the work is stranded. `WorkDrains` exempts a
  job that was joined for that reason.

## 7. Proofs

All theorems hold for every value of the constants that the named assumptions
allow: any finite sets of threads, sequences and workers, any bounds. Each
proof module has one inductive invariant, or one built in layers.

| module | invariant | why more than the property is needed |
|---|---|---|
| `JobTaskSourceProofs` | `AccountingInv` = `TypeOK`, `PCsApart`, `OwnerSeen`, `CountAccurate`; then `JobInv` on top of it | `CountAccurate` alone does not say that a thread that decrements is counted; that needs the owner's and the workers' places apart. `QueuedIfMoreCanRun` and `NoLostWakeup` follow from how stale `seen` can be: `ReleaseFloor`, `AwaitFloor` and `TakeFloor` bound the current max concurrency by the value read, `CanceledSeen` and `CanceledCount` do the same for the canceled bit, `WaitFlag` ties the join flag to the waiting thread |
| `TaskTrackerProofs` | `TrackerInv` = `TypeOK`, `SchedulingInv`, `Steps`, `IdleThreads`, `ShutdownStages`, `ItemsExact`, `IncompleteExact`, `EarlyHold`, `NoEarlyOnceOver` | the counts are cardinalities of sets of holders, and a step changes them by one only if nobody else has the sequence, which is `SchedulingInv`; the promise of the shutdown is `NoEarlyOnceOver`, kept because a holder of an early item keeps the items from zero |
| `OperationsControllerProofs` | `OperationsInv` = `TypeOK`, `Flags`, `Places`, `Quiet`, `CountExact`, `WaiterIsOwed` | the exact count is inductive only with where the starter and the shutter are and what the flags then say |
| `SequenceManagerProofs`, the queues | `ManagerInv` = `TypeOK`, `DrawnInv`, `PlaceInv`, `LifeInv`, `FlagInv`, `ToldInv`, `HeapInv`, `OrderInv`, `RanInv`, `FenceInv`, `RestInv` | see below |
| `SequenceManagerProofs`, the loop | `LoopInv` = `Loop!TypeOK`, `LoopCounts`, `LoopQuits`, `LoopFlags`, `LoopRest`, `LoopPending`, `LoopWork` | a request that the deduplicator swallows is remembered in a bit whose reader is still to come: `LoopPending` and `LoopWork` say who, for each place of the loop |
| `DelayedTaskManagerProofs` | `CallInv` = `Types`, `Constructed`, `AddInv`, `HoldInv`, `DelayInv`, `WakeupInv`, `MarkedInv`, `RipestInv` | that the ripest task has a call is kept only because a call that runs pops the task it was scheduled for; that needs `WakeupInv`, which says that calls are not early, and so `DelayInv` about the delay between the two readings of the clock. `ForwardInv` adds to it `BatchInv`, `AddedInv`, `SortedInv` and `OrderInv`, which follow each task through the queue, the batch and what was forwarded: `ForwardedInOrder`, and that no task is lost or forwarded twice |
| `AbstractPromiseProofs` | `PromiseInv`, then `ListInv`, `VisitInv`, and on them `CountInv`, `FirstInv`, `LaunchInv`, `ResultInv` and `WordInv`, `HeldInv` | see below |
| `ThreadGroupProofs` | `StaffInv` = `TypeOK`, `QueueInv`, `StartedInv`, `CountsExact`, `IdleInv`, `StartInv`, `NamesInv`, `AwakeInv`; then `GroupInv`, which adds `PostedInv`, `ChaseInv`, `LimitInv` | see below |
| `PersistentMemoryAllocatorProofs` | `SegmentInv`, then `BlockInv`, `UseInv`, `ChainInv`, `ReadersInv`, `LogInv`, and on `ReadersInv` `TrustInv` and `RoomInv` | see below |

`AbstractPromiseProofs`. A thread's step is about the head of its batch or the
prerequisite at its index: the types depend on the batch being nonempty and the
index in range wherever they are used (`PromiseInv`). `ListInv` says of each
list that what was told, what a thread is about to tell and what waits in it make up
what was accepted, in that order, and that a dependent is accepted only by a step of its
creation that is over; hence the refinement of `Settlement`
(`ImplementsSettlement`). `VisitInv` adds that a dependent hears of a
prerequisite once. On it rest how many prerequisites a dependent has yet to
count (`CountInv`), which settled it first (`FirstInv`), that it is launched
once, when it is ready, and executed once (`LaunchInv`), and what its result is
(`ResultInv`): together `OutcomeJustified`. `WordInv` says which nodes are
null, raw or retained and `HeldInv` that the references of a prerequisite are
those of its retained nodes, but for those about to be added: `ValuesKept`. The
counts need the prerequisites and dependents to be finite
(`FinitenessAssumption`).

`SequenceManagerProofs`. The parts of `ManagerInv` depend on each other in three
groups.

- What the queues hold. The section that pushes a task also draws its order from a
  counter, so along `Pending(q)` (work queue, then incoming tasks) the
  orders rise and lie below `nextOrder` (`OrderInv`). The tasks that were deferred
  come before those pending; a task that ran comes before the pending and
  deferred ones of its kind, because a non-nestable one runs only when none is
  deferred (`RanInv`). The steps are classified by what they do
  to the tasks of a queue: they leave them, post one, drop some from the front,
  defer one, run one or put a deferred one back (`Moves`). Each kind has a lemma
  for `OrderInv` and `RanInv`, and `InPostedOrder` follows.
- Who knows what. A flag is set, or taken and not yet served, exactly for queues
  with incoming tasks and an empty work queue (`FlagInv`), which is also
  `ReloadIsOwed`. Posting threads see copies of what the bound thread knows
  (`workEmpty`, `schedules`): they are right but for the fence of an
  `InsertFence` between its two steps (`ToldInv`). The heap has the front
  task of each queue that is enabled and not blocked (`HeapInv`), and a queue
  that is gone has no tasks and no posting threads (`LifeInv`); a fence is
  never equal to a task's order (`FenceInv`), so "before the fence" and "behind it"
  are complementary.
- Who wakes the thread. While it sleeps or handles a native message in its
  sleep, each queue with a task that may run has a request made, about to be made by a posting thread,
  or owed by the second step of the operation under way (`RestInv`,
  `WillRequest`). Between the two halves of `DelayTillNextTask` the same holds of
  the queues whose flags were not taken. `NoStrandedTask` follows.

`DrawnInv` bounds the orders by the posts and operations that drew them, which
`TypeOK` needs, and counts the threads that have yet to push with a cardinality.
The theorems assume the bounds to be numbers and
`NoQueue` no queue (`BoundsAssumption`, `NoQueueAssumption`); those of the loop
that its thread is none of the posting ones (`MainAssumption`) and that nesting is
allowed to depth 1 at least (`LoopBoundsAssumption`). `LoopKeepsRequests` and
`QueuesKeepRequests` map each step to a step of `WorkRequests` or a stutter, from
the two invariants.

`ThreadGroupProofs`. `StaffInv` says what the lock guards: the idle stack holds
workers that run no task, each once (`IdleInv`); a worker without a thread is
in exactly one executor's list of threads to start (`StartInv`); who counts as awake
runs a task or is on its way to `GetWork` (`AwakeInv`); the counters are the
cardinalities of the sets of workers they count (`CountsExact`). On it rest the
properties about what is still to be done. `ChaseInv` says who sees to a worker that is missing: a
worker that is awake and has yet to look (`Looks`), or two that look only later
(`LooksLate`): those between the two halves of `GetWork`, and those with a task that
did not raise a limit. One of these would not be enough, because it may be the
one that takes the source. `LimitInv` does the same for limits that are too low,
`PostedInv` for the one `AdjustMaxTasks`. Most steps either end with
`EnsureEnoughWorkers`, and then `EnsuredInv` gives all of `GroupInv` at once, or
leave the queue, the workers and the counters alone (`QuietInv`). The others
have a lemma each: taking work, becoming idle, `AdjustMaxTasks` and the ends of blocking
calls. It assumes finitely many workers and at least as many names as `MaxWorkers`
(`ThreadsAssumption`, `LimitsAssumption`), and that the initial limits are in the
range `Start` is called with. The two limits of best-effort and of all tasks are
not assumed to differ.

`PersistentMemoryAllocatorProofs`. Each layer rests on those before it.

1. `SegmentInv`: types, where each thread is, that the metadata is stored in
   its order (what a constructor stores last is there only if the rest is), and that
   every block that is linked or the tail is marked as iterable.
2. `BlockInv`: the blocks, and the room of each thread between the exchange of
   freeptr and its header (`ClaimInv`), are apart, in one page and below
   freeptr, and a header that was not written is blank. `BlocksIntact` is
   inductive only together with the claims: a header that is written late must not
   fall into what others have taken since.
3. `UseInv`: a block in use has a type that nobody exchanges, a block that is
   being published is its publisher's, and one whose release ends is clean:
   `HeldOnceAndClean`.
4. `ChainInv`: no block follows two, and none an unlinked one. `ReadersInv`: what
   an iterator has delivered follows the links and is no more than the blocks
   that fit below freeptr (an injection of the delivered blocks into the slots they
   occupy), so that `CountRecord` never sees a loop.
5. `TrustInv`, `RoomInv`: with these no step of a thread finds
   corruption: `CorruptionFoundOnAttach`. The theorem has the hypothesis
   `FirstPageHasRoom`: the first page has more room beside the metadata than a header takes.
   The constructor does not demand it; with pages of 72 or 80 bytes the first allocation that
   does not fit takes the rest of that page for corruption
   (persistent_memory_allocator.cpp:685). The run's pages satisfy it.
6. `LogInv`: every tail a thread knows, and `tailptr`, can be reached from the
   queue, and an unlinked block ends no chain. With it a successful exchange of a
   `next` appends to the log, and an advance of an iterator delivers its next
   record: `ImplementsLog`. The log is a recursive function over the links.
   What it computes is proved by least counterexamples, which need no
   operator as parameter (`Least`, from the well-foundedness of `<`): that the
   function exists (`WalkUnfolds`), visits no block twice
   (`WalkIsSimple`), so ends within the segment (`WalkEnds`), and keeps its
   path while links are added (`WalkStays`).

It assumes that finitely many threads read (`ThreadsAssumption`).

The counting lemmas (`CountRaised`, `CountLowered`, `CountedChanges` and those
of the tracker) reduce a cardinality to the one thread that changed, citing
FiniteSetTheorems. The preservation of an invariant is one lemma per conjunct or per
action, joined in one step theorem.

`OperationsControllerProofs` assumes `Fits`, that `MaxRejections` plus the
number of threads is less than `CountLimit`: it is the code's own assumption
that 30 bits are enough, and it is an antecedent of each theorem and no axiom.
`ControllerImplementsGate` is the refinement: initial states map to initial
states and every step to a step of the gate or a stutter.

Four refinements are proved so, of `OperationsGate`, `IterableLog`,
`Settlement` and `WorkRequests`, the last by two modules.

Only model-checked: the liveness properties (`JoinReturns`, `WorkDrains`,
`ShutdownReturns`, `FlushReturns`, `ShutdownEnds`, `WorkRuns`, `TasksRun`,
`SourcesRun`, `TasksForwarded`, `MakeIterableSucceeds`, `DependentsSettle`),
which are out of the prover's reach, with fairness and ENABLED. No module
has a RECURSIVE operator.

## 8. Not modelled

PROJECT.json lists every component with its status. In short:

- Planned (section 2): delayed tasks of the sequence manager, time domains,
  priorities and starvation, several thread groups, single-thread runners,
  message pumps, lazy instances, thread start and stop, PostTaskAndReply,
  timers.
- Of components that are modelled: of promises, those resolved with promises
  (curried), dependents of dependents and the checks of unhandled rejections;
  of the persistent allocator, its name, memory state, `Reset` to a given block,
  read-only or resized attachment, and the structures stored on it; of the
  DelayedTaskManager, `NextScheduledRunTime` and
  `ProcessRipeTasksForTesting` on other threads.
- Left to the platform: the native thread group, the Win32 objects
  behind locks, events and threads, files, processes, devices, power.
- Sequential code that unit tests reach: containers, numerics, strings, JSON,
  values, pickles, hashes, time, i18n.
- Debugging aids: tracing, histograms, the task annotator, CheckedLock's order
  check, the DCHECK-only increase version of a job.
- Vendored and test code.
