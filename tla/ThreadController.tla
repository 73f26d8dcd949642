--------------------------- MODULE ThreadController ---------------------------
(***************************************************************************)
(* The loop of a thread that runs tasks: ThreadControllerWithMessagePump-  *)
(* Impl on a MessagePumpDefault, with RunLoops that may be nested and quit *)
(* in any order, and other threads that post.  The task source             *)
(* behind the controller is a number of tasks: what SelectNextTask takes   *)
(* from and DelayTillNextTask looks at; every post calls ScheduleWork.     *)
(* Module SequenceManager refines the task source.  A step is one access   *)
(* to the deduplicator's flags, the pump's event or the task source.       *)
(***************************************************************************)
EXTENDS WorkDeduplicator, Naturals

CONSTANTS
    Posters,   \* threads that post tasks
    Main,      \* the thread the controller is bound to
    MaxDepth,  \* bound on the nesting of run loops
    MaxPosts,  \* bound on the posted tasks
    MaxRuns    \* bound on the run loops started

Threads == Posters \cup {Main}

VARIABLES
    event,    \* MessagePumpDefault::event_ is signaled
    work,     \* tasks in the task source
    call,     \* where each thread is in a call that posts a task
    pc,       \* where the bound thread is
    next,     \* DoSomeWork's next task is immediate, or work is scheduled
    allowed,  \* task_execution_allowed
    depth,    \* active_run_loops_.size()
    quits,    \* the run loops, by depth, whose quit_called_ is set
    stopped,  \* those for which the pump's keep_running_ is false
    quitPending,  \* quit_pending
    posts, runs   \* tasks posted and run loops started so far

loops == <<depth, quits, stopped, quitPending>>
vars == <<flags, event, work, call, pc, next, allowed, loops, posts, runs>>

CallPCs == {"none", "schedule", "signal"}
MainPCs == {"unbound", "bindSignal", "outside", "begin", "select", "task",
            "willCheck", "delay", "did", "pump", "idle", "wait"}

TypeOK ==
    /\ flags \subseteq Flags
    /\ event \in BOOLEAN
    /\ work \in 0..MaxPosts
    /\ call \in [Threads -> CallPCs]
    /\ pc \in MainPCs
    /\ next \in BOOLEAN
    /\ allowed \in BOOLEAN
    /\ depth \in 0..MaxDepth
    /\ stopped \subseteq quits /\ quits \subseteq 1..depth
    /\ quitPending \in BOOLEAN
    /\ posts \in 0..MaxPosts
    /\ runs \in 0..MaxRuns

Init ==
    /\ flags = Unbound
    /\ event = FALSE
    /\ work = 0
    /\ call = [t \in Threads |-> "none"]
    /\ pc = "unbound"
    /\ next = FALSE
    /\ allowed = TRUE
    /\ depth = 0
    /\ quits = {}
    /\ stopped = {}
    /\ quitPending = FALSE
    /\ posts = 0
    /\ runs = 0

Calling(t, label) == call' = [call EXCEPT ![t] = label]

-----------------------------------------------------------------------------
(* Posting: the push, the request, the signal to the pump.                   *)

\* The bound thread posts from a task or outside of its run loops.
MayPost(t) == t = Main => pc \in {"task", "outside"}

PostTask(t) ==
    /\ MayPost(t)
    /\ call[t] = "none"
    /\ posts < MaxPosts
    /\ posts' = posts + 1
    /\ work' = work + 1
    /\ Calling(t, "schedule")
    /\ UNCHANGED <<flags, event, pc, next, allowed, loops, runs>>

\* EnsureWorkScheduled, and ScheduleWork by a task source that did not push.
EnsureWorkScheduled(t) ==
    /\ MayPost(t)
    /\ call[t] = "none"
    /\ Calling(t, "schedule")
    /\ UNCHANGED <<flags, event, work, pc, next, allowed, loops, posts,
                   runs>>

ScheduleWork(t) ==
    /\ call[t] = "schedule"
    /\ OnWorkRequested
    /\ Calling(t, IF SchedulesOnRequest THEN "signal" ELSE "none")
    /\ UNCHANGED <<event, work, pc, next, allowed, loops, posts, runs>>

PumpScheduleWork(t) ==
    /\ call[t] = "signal"
    /\ event' = TRUE
    /\ Calling(t, "none")
    /\ UNCHANGED <<flags, work, pc, next, allowed, loops, posts, runs>>

-----------------------------------------------------------------------------
(* The bound thread outside of DoSomeWork.                                   *)

MainAt(label) == pc = label /\ call[Main] = "none"

Bind ==
    /\ MainAt("unbound")
    /\ BindToCurrentThread
    /\ pc' = IF SchedulesOnBind THEN "bindSignal" ELSE "outside"
    /\ UNCHANGED <<event, work, call, next, allowed, loops, posts, runs>>

BindScheduleWork ==
    /\ MainAt("bindSignal")
    /\ event' = TRUE
    /\ pc' = "outside"
    /\ UNCHANGED <<flags, work, call, next, allowed, loops, posts, runs>>

\* RunLoop::Run, from outside or nested in a task: a nested loop that allows
\* tasks asks for work, one that does not leaves them as they are.
Run(applicationTasksAllowed) ==
    /\ MainAt("outside") \/ MainAt("task")
    /\ depth < MaxDepth /\ runs < MaxRuns
    /\ runs' = runs + 1
    /\ depth' = depth + 1
    /\ quitPending' = FALSE
    /\ allowed' = (depth = 0 \/ applicationTasksAllowed)
    /\ IF depth > 0 /\ applicationTasksAllowed
          THEN Calling(Main, "schedule") ELSE UNCHANGED call
    /\ pc' = "begin"
    /\ UNCHANGED <<flags, event, work, next, quits, stopped, posts>>

\* The pump's loop after DoSomeWork returned.
PumpContinues ==
    /\ MainAt("pump")
    /\ depth \notin stopped
    /\ pc' = IF next THEN "begin" ELSE "idle"
    /\ UNCHANGED <<flags, event, work, call, next, allowed, loops, posts,
                   runs>>

\* Mutation of LeaveRun: AfterRun does not repeat the outer loop's Quit.
LeaveRunForgetful ==
    /\ depth' = depth - 1
    /\ quits' = quits \ {depth}
    /\ stopped' = stopped \ {depth}
    /\ quitPending' = FALSE
    /\ pc' = IF depth = 1 THEN "outside" ELSE "task"
    /\ allowed' = (depth = 1)
    /\ UNCHANGED <<flags, event, work, call, next, posts, runs>>

\* Leaving Run: at the top level, or back into the task that nested it.  If
\* the outer loop was quit meanwhile, AfterRun quits it now.
LeaveRun ==
    /\ depth' = depth - 1
    /\ quits' = quits \ {depth}
    /\ stopped' = (stopped \ {depth}) \cup (quits \cap {depth - 1})
    /\ quitPending' = (depth - 1 \in quits)
    /\ pc' = IF depth = 1 THEN "outside" ELSE "task"
    /\ allowed' = (depth = 1)
    /\ UNCHANGED <<flags, event, work, call, next, posts, runs>>

RunReturns == MainAt("pump") /\ depth \in stopped /\ LeaveRun

\* DoIdleWork: the run loop may be one that quits when idle.
QuitWhenIdle == MainAt("idle") /\ LeaveRun

DoIdleWork ==
    /\ MainAt("idle")
    /\ pc' = "wait"
    /\ UNCHANGED <<flags, event, work, call, next, allowed, loops, posts,
                   runs>>

\* event_ is reset by the wait that it ends.
WaitReturns ==
    /\ MainAt("wait")
    /\ event
    /\ event' = FALSE
    /\ pc' = "begin"
    /\ UNCHANGED <<flags, work, call, next, allowed, loops, posts, runs>>

-----------------------------------------------------------------------------
(* DoSomeWork and DoWorkImpl.                                                *)

\* Where tasks are not allowed, DoWorkImpl reports no more work at once.
WorkStarted ==
    /\ MainAt("begin")
    /\ OnWorkStarted
    /\ next' = FALSE
    /\ pc' = IF allowed THEN "select" ELSE "did"
    /\ UNCHANGED <<event, work, call, allowed, loops, posts, runs>>

SelectNextTask ==
    /\ MainAt("select")
    /\ work > 0
    /\ work' = work - 1
    /\ allowed' = FALSE
    /\ pc' = "task"
    /\ UNCHANGED <<flags, event, call, next, loops, posts, runs>>

SelectNoTask ==
    /\ MainAt("select")
    /\ work = 0
    /\ pc' = "willCheck"
    /\ UNCHANGED <<flags, event, work, call, next, allowed, loops, posts,
                   runs>>

\* RunLoop::Quit by a task, of its own loop or of one further out.
Quit(loop) ==
    /\ MainAt("task")
    /\ quits' = quits \cup {loop}
    /\ IF loop = depth
          THEN quitPending' = TRUE /\ stopped' = stopped \cup {loop}
          ELSE UNCHANGED <<quitPending, stopped>>
    /\ UNCHANGED <<flags, event, work, call, pc, next, allowed, depth, posts,
                   runs>>

\* After a task the batch of work_batch_size tasks goes on or is complete.
TaskEnds ==
    /\ MainAt("task")
    /\ allowed' = TRUE
    /\ \/ quitPending /\ pc' = "did"
       \/ ~quitPending /\ pc' \in {"select", "willCheck"}
    /\ UNCHANGED <<flags, event, work, call, next, loops, posts, runs>>

WillCheck ==
    /\ MainAt("willCheck")
    /\ WillCheckForMoreWork
    /\ pc' = "delay"
    /\ UNCHANGED <<event, work, call, next, allowed, loops, posts, runs>>

\* Mutation of DelayTillNextTask: tasks posted since are not looked for.
DelayWithoutReload ==
    /\ MainAt("delay")
    /\ next' = FALSE
    /\ pc' = "did"
    /\ UNCHANGED <<flags, event, work, call, allowed, loops, posts, runs>>

DelayTillNextTask ==
    /\ MainAt("delay")
    /\ next' = (work > 0)
    /\ pc' = "did"
    /\ UNCHANGED <<flags, event, work, call, allowed, loops, posts, runs>>

DidCheck ==
    /\ MainAt("did")
    /\ DidCheckForMoreWork(next)
    /\ next' = SchedulesOnDidCheck(next)
    /\ pc' = "pump"
    /\ UNCHANGED <<event, work, call, allowed, loops, posts, runs>>

-----------------------------------------------------------------------------
CallStep(t) == ScheduleWork(t) \/ PumpScheduleWork(t)

MainStep ==
    \/ BindScheduleWork \/ PumpContinues \/ RunReturns \/ DoIdleWork
    \/ WaitReturns \/ WorkStarted \/ SelectNextTask \/ SelectNoTask
    \/ TaskEnds \/ WillCheck \/ DelayTillNextTask \/ DidCheck

Next ==
    \/ \E t \in Threads : PostTask(t) \/ EnsureWorkScheduled(t) \/ CallStep(t)
    \/ \E b \in BOOLEAN : Run(b)
    \/ \E loop \in 1..depth : Quit(loop)
    \/ Bind \/ QuitWhenIdle \/ MainStep

Spec == Init /\ [][Next]_vars

\* Threads inside a call go on, tasks end however often they call, and the
\* loop goes round; nothing obliges anybody to post, run, nest or quit.
Fairness ==
    WF_vars(MainStep) /\ SF_vars(TaskEnds) /\ \A t \in Threads : WF_vars(CallStep(t))

LiveSpec == Spec /\ Fairness

-----------------------------------------------------------------------------
(* Properties.                                                               *)

\* A thread that has pushed a task but not yet told the pump.
SomeoneCalls == \E t \in Threads : call[t] # "none"

\* The thread never sleeps on work it may run: once every call that posts
\* has returned, a waiting thread with tasks in its source is signaled.
NoStrandedWork ==
    (pc = "wait" /\ allowed /\ work > 0) => event \/ SomeoneCalls

\* A run loop that was quit takes no further task, though loops nested in it
\* have reset quit_pending and may have been quit after it.
QuitHeeded == pc = "select" => depth \notin quits

\* A task that is in the source gets the loop to run it, unless the loop is
\* left, or a nested loop that allows no tasks is entered.
WorkRuns ==
    (work > 0 /\ depth > 0) ~> (work = 0 \/ depth = 0 \/ ~allowed)
=============================================================================
