-------------------------- MODULE DelayedTaskManager --------------------------
(***************************************************************************)
(* The thread pool's DelayedTaskManager: threads add tasks that carry a    *)
(* run time to a heap under queue_lock_; only the ripest task schedules a  *)
(* call of ProcessRipeTasks on the service thread, once, and it does so    *)
(* after the lock is released, by a delay it computes from a clock that    *)
(* goes on.  ProcessRipeTasks pops what is ripe, schedules the next call   *)
(* and forwards the popped tasks to their callbacks.  A critical section   *)
(* of queue_lock_ is one step, and each reading of the clock outside it.   *)
(***************************************************************************)
EXTENDS Integers, Sequences

CONSTANTS
    Posters,    \* threads that post delayed tasks
    Starter,    \* the thread that calls Start
    Service,    \* the service thread
    Delays,     \* the delays tasks are posted with
    MaxTasks,   \* bound on the tasks posted
    Horizon     \* bound of the clock: no task is posted for a later time

ASSUME ThreadsAssumption ==
    /\ Starter \notin Posters \cup {Service}
    /\ Service \notin Posters
ASSUME BoundsAssumption ==
    /\ Delays \subseteq Nat \ {0}
    /\ MaxTasks \in Nat
    /\ Horizon \in Nat

Threads == Posters \cup {Starter, Service}
Times == 0..Horizon
Nums == 1..MaxTasks   \* sequence_num, in the order of the tasks' construction
Never == -1           \* TimeTicks::Max(), or no call

VARIABLES
    now,        \* what NowTicks() returns
    started,    \* service_thread_task_runner_ is set
    runTime,    \* delayed_run_time of each task constructed so far
    queue,      \* the tasks in delayed_task_queue_
    scheduled,  \* the tasks whose scheduled_ flag is set
    wakeup,     \* for each task, when the call of ProcessRipeTasks it
                \* scheduled is due on the service thread
    pc,         \* where each thread is
    task,       \* AddDelayedTask's argument, then the task whose run time is
                \* the process_ripe_tasks_time the thread holds (0: none)
    delay,      \* what ScheduleProcessRipeTasksOnServiceThread computed
    batch,      \* ripe_delayed_tasks of the service thread
    added,      \* the tasks in the order they were added (history)
    forwarded   \* the tasks in the order they were forwarded (history)

vars == <<now, started, runTime, queue, scheduled, wakeup, pc, task, delay,
          batch, added, forwarded>>

PCs == {"idle", "add", "schedule", "post", "forward", "done"}

TypeOK ==
    /\ now \in Times
    /\ started \in BOOLEAN
    /\ runTime \in [Nums -> Times \cup {Never}]
    /\ queue \subseteq Nums
    /\ scheduled \subseteq Nums
    /\ wakeup \in [Nums -> Times \cup {Never}]
    /\ pc \in [Threads -> PCs]
    /\ task \in [Threads -> Nums \cup {0}]
    /\ delay \in [Threads -> Times]
    /\ batch \in Seq(Nums)
    /\ added \in Seq(Nums)
    /\ forwarded \in Seq(Nums)

Init ==
    /\ now = 0
    /\ started = FALSE
    /\ runTime = [n \in Nums |-> Never]
    /\ queue = {}
    /\ scheduled = {}
    /\ wakeup = [n \in Nums |-> Never]
    /\ pc = [t \in Threads |-> "idle"]
    /\ task = [t \in Threads |-> 0]
    /\ delay = [t \in Threads |-> 0]
    /\ batch = <<>>
    /\ added = <<>>
    /\ forwarded = <<>>

-----------------------------------------------------------------------------
\* DelayedTask::operator<=: by run time, then by sequence number.
Before(m, n) ==
    IF runTime[m] = runTime[n] THEN m <= n ELSE runTime[m] < runTime[n]

Ripest(n, q) == n \in q /\ \A m \in q : Before(n, m)

Larger(a, b) == IF a >= b THEN a ELSE b
Smaller(a, b) == IF a <= b THEN a ELSE b

\* Mutation of ScheduleRipest: the flag is kept for the queue, so that a riper
\* task relies on the call that is already scheduled.
ScheduleRipestOnce(t, q, next) ==
    \/ \E n \in q :
        /\ Ripest(n, q)
        /\ q \cap scheduled = {}
        /\ scheduled' = scheduled \cup {n}
        /\ task' = [task EXCEPT ![t] = n]
        /\ pc' = [pc EXCEPT ![t] = "schedule"]
    \/ /\ q # {} => q \cap scheduled # {}
       /\ task' = [task EXCEPT ![t] = 0]
       /\ pc' = [pc EXCEPT ![t] = next]
       /\ UNCHANGED scheduled

\* GetTimeToScheduleProcessRipeTasksLockRequired on the queue q: the ripest
\* task, if it has not scheduled a call yet, is marked as having done so and
\* its run time is returned to thread t.
ScheduleRipest(t, q, next) ==
    \/ \E n \in q :
        /\ Ripest(n, q)
        /\ n \notin scheduled
        /\ scheduled' = scheduled \cup {n}
        /\ task' = [task EXCEPT ![t] = n]
        /\ pc' = [pc EXCEPT ![t] = "schedule"]
    \/ /\ \A n \in q : Ripest(n, q) => n \in scheduled
       /\ task' = [task EXCEPT ![t] = 0]
       /\ pc' = [pc EXCEPT ![t] = next]
       /\ UNCHANGED scheduled

Start ==
    /\ pc[Starter] = "idle"
    /\ started' = TRUE
    /\ ScheduleRipest(Starter, queue, "done")
    /\ UNCHANGED <<now, runTime, queue, wakeup, delay, batch, added, forwarded>>

\* A poster constructs a task, which takes its run time from the clock and
\* the next sequence number, on its way to AddDelayedTask.
ConstructTask(p) ==
    /\ pc[p] = "idle"
    /\ \E n \in Nums, d \in Delays :
        /\ now + d <= Horizon
        /\ \A m \in Nums : runTime[m] # Never <=> m < n
        /\ runTime' = [runTime EXCEPT ![n] = now + d]
        /\ task' = [task EXCEPT ![p] = n]
    /\ pc' = [pc EXCEPT ![p] = "add"]
    /\ UNCHANGED <<now, started, queue, scheduled, wakeup, delay, batch, added,
                   forwarded>>

AddDelayedTask(p) ==
    /\ pc[p] = "add"
    /\ queue' = queue \cup {task[p]}
    /\ added' = Append(added, task[p])
    /\ \/ /\ ~started
          /\ pc' = [pc EXCEPT ![p] = "idle"]
          /\ task' = [task EXCEPT ![p] = 0]
          /\ UNCHANGED scheduled
       \/ /\ started
          /\ ScheduleRipest(p, queue', "idle")
    /\ UNCHANGED <<now, started, runTime, wakeup, delay, batch, forwarded>>

\* Where thread t goes on once it has posted the call, if there was one.
AfterSchedule(t) ==
    IF t = Starter THEN "done" ELSE IF t = Service THEN "forward" ELSE "idle"

\* Mutation of ComputeDelay: the delay is rounded down.
ComputeShortDelay(t) ==
    /\ pc[t] = "schedule"
    /\ delay' = [delay EXCEPT ![t] = Larger(0, runTime[task[t]] - now - 1)]
    /\ pc' = [pc EXCEPT ![t] = "post"]
    /\ UNCHANGED <<now, started, runTime, queue, scheduled, wakeup, task, batch,
                   added, forwarded>>

\* ScheduleProcessRipeTasksOnServiceThread reads the clock.
ComputeDelay(t) ==
    /\ pc[t] = "schedule"
    /\ delay' = [delay EXCEPT ![t] = Larger(0, runTime[task[t]] - now)]
    /\ pc' = [pc EXCEPT ![t] = "post"]
    /\ UNCHANGED <<now, started, runTime, queue, scheduled, wakeup, task, batch,
                   added, forwarded>>

\* PostDelayedTask reads it again.  A time past the horizon is the horizon,
\* where the clock stops.
PostDelayedTask(t) ==
    /\ pc[t] = "post"
    /\ wakeup' = [wakeup EXCEPT ![task[t]] = Smaller(now + delay[t], Horizon)]
    /\ pc' = [pc EXCEPT ![t] = AfterSchedule(t)]
    /\ task' = [task EXCEPT ![t] = 0]
    /\ delay' = [delay EXCEPT ![t] = 0]
    /\ UNCHANGED <<now, started, runTime, queue, scheduled, batch, added,
                   forwarded>>

\* Mutation of RipeInOrder: in no particular order.
RipeUnordered(s) ==
    LET ripe == {n \in queue : runTime[n] <= now} IN
    /\ {s[i] : i \in DOMAIN s} = ripe
    /\ \A i, j \in DOMAIN s : i < j => s[i] # s[j]

\* The queue's tasks with a run time of at most `now', ripest first.
RipeInOrder(s) ==
    LET ripe == {n \in queue : runTime[n] <= now} IN
    /\ {s[i] : i \in DOMAIN s} = ripe
    /\ \A i, j \in DOMAIN s : i < j => s[i] # s[j] /\ Before(s[i], s[j])

\* A call of ProcessRipeTasks that is due runs on the service thread.
ProcessRipeTasks ==
    /\ pc[Service] = "idle"
    /\ \E n \in Nums :
        /\ wakeup[n] # Never /\ wakeup[n] <= now
        /\ wakeup' = [wakeup EXCEPT ![n] = Never]
    /\ \E len \in 0..MaxTasks : \E s \in [1..len -> queue] :
        /\ RipeInOrder(s)
        /\ batch' = s
    /\ queue' = {n \in queue : runTime[n] > now}
    /\ ScheduleRipest(Service, queue', "forward")
    /\ UNCHANGED <<now, started, runTime, delay, added, forwarded>>

\* It runs the callback of the next task it popped.
Forward ==
    /\ pc[Service] = "forward"
    /\ IF batch = <<>>
       THEN /\ pc' = [pc EXCEPT ![Service] = "idle"]
            /\ UNCHANGED <<batch, forwarded>>
       ELSE /\ forwarded' = Append(forwarded, Head(batch))
            /\ batch' = Tail(batch)
            /\ UNCHANGED pc
    /\ UNCHANGED <<now, started, runTime, queue, scheduled, wakeup, task, delay,
                   added>>

\* The clock goes on, at any time.
Tick ==
    /\ now < Horizon
    /\ now' = now + 1
    /\ UNCHANGED <<started, runTime, queue, scheduled, wakeup, pc, task, delay,
                   batch, added, forwarded>>

ThreadStep(t) == ComputeDelay(t) \/ PostDelayedTask(t)

Next ==
    \/ Start
    \/ \E p \in Posters : ConstructTask(p) \/ AddDelayedTask(p)
    \/ \E t \in Threads : ThreadStep(t)
    \/ ProcessRipeTasks
    \/ Forward
    \/ Tick

Spec == Init /\ [][Next]_vars

\* Threads that are in a call go on, the service thread runs the calls that
\* are due and time passes.  Nobody needs to post, or to start the pool.
Fairness ==
    /\ \A p \in Posters : WF_vars(AddDelayedTask(p))
    /\ \A t \in Threads : WF_vars(ThreadStep(t))
    /\ WF_vars(ProcessRipeTasks \/ Forward)
    /\ WF_vars(Tick)

LiveSpec == Spec /\ Fairness

-----------------------------------------------------------------------------
\* A call of ProcessRipeTasks for task n is due or will be: it is posted to
\* the service thread, or a thread that left the lock is about to post it.
CallOwed(n) ==
    \/ wakeup[n] # Never
    \/ \E t \in Threads : pc[t] \in {"schedule", "post"} /\ task[t] = n

\* The task that is to run first never waits without a call of
\* ProcessRipeTasks that will take it: whichever task was the ripest when its
\* call was scheduled, a riper one scheduled its own, and a call that runs
\* pops the task it was scheduled for, since it is never early
\* (delayed_task_manager.cpp:131, 145).
RipestHasCall ==
    started => \A n \in queue : Ripest(n, queue) => CallOwed(n)

\* Of two tasks, the one with the smaller run time (or number) is forwarded
\* first if it was also added first: neither the extra calls riper tasks
\* schedule nor the batches reorder them (delayed_task_manager.cpp:35, 106).
ForwardedInOrder ==
    \A i, j \in DOMAIN forwarded, k, l \in DOMAIN added :
        /\ k < l
        /\ added[k] = forwarded[j] /\ added[l] = forwarded[i]
        /\ Before(added[k], added[l])
        => j <= i

\* Once the pool is started every task that was added, before or after, is
\* forwarded (delayed_task_manager.cpp:61, 75, 99).
TasksForwarded ==
    \A n \in Nums :
        (started /\ n \in queue)
            ~> (\E i \in DOMAIN forwarded : forwarded[i] = n)
=============================================================================
