---------------------------- MODULE TaskTracker ----------------------------
(***************************************************************************)
(* Posting to sequences, running them and shutting the pool down:          *)
(* task/thread_pool/task_tracker, with the Sequence of sequence.cpp and    *)
(* the callers in thread_pool_impl.cpp (PostTaskWithSequence, fences,      *)
(* Shutdown).  Posters and workers are threads; one thread, Main, sets     *)
(* fences and shuts the pool down.  The thread group is reduced to the set *)
(* of sequences it holds.  A step is one access to state that another      *)
(* thread can observe; the locks are held in the pcs that                  *)
(* SequenceLockHeld, ShutdownLockHeld and FlushLockHeld list.              *)
(***************************************************************************)
EXTENDS Naturals, FiniteSets

CONSTANTS
    Sequences,      \* task sources of execution mode kSequenced or kParallel
    Workers,        \* threads of the pool
    Posters,        \* threads that post tasks
    ServiceThread,  \* the poster that runs the DelayedTaskManager
    Flushers,       \* threads that call FlushForTesting
    Behaviors,      \* shutdown behaviours the sequences may be given
    BestEffort,     \* sequences of priority BEST_EFFORT
    MaxPosts,       \* bound on the tasks posted
    MaxFences,      \* bound on the changes of a fence
    PostingChecks   \* whether the DCHECKs on posting are compiled in

None == "none"
Threads == Workers \cup Posters
ShutdownBehaviors == {"CONTINUE_ON_SHUTDOWN", "SKIP_ON_SHUTDOWN", "BLOCK_SHUTDOWN"}

ASSUME ThreadsAssumption ==
    /\ IsFiniteSet(Workers) /\ IsFiniteSet(Posters) /\ IsFiniteSet(Sequences)
    /\ Workers \cap Posters = {} /\ Threads \cap Sequences = {}
    /\ None \notin Sequences \cup Threads
    /\ ServiceThread \in Posters
ASSUME SequencesAssumption ==
    /\ Behaviors \subseteq [Sequences -> ShutdownBehaviors]
    /\ BestEffort \subseteq Sequences
ASSUME BoundsAssumption ==
    MaxPosts \in Nat /\ MaxFences \in Nat /\ PostingChecks \in BOOLEAN

VARIABLES
    behavior,    \* traits_.shutdown_behavior() of each sequence
    started,     \* State::bits_ & kShutdownHasStartedMask
    items,       \* State::bits_ >> kNumItemsBlockingShutdownBitOffset
    event,       \* shutdown_event_: none, unsignaled or signaled
    incomplete,  \* num_incomplete_task_sources_
    policy,      \* can_run_policy_
    fences,      \* has_fence_ and has_best_effort_fence_
    queue,       \* length of each Sequence::queue_
    hasWorker,   \* Sequence::has_worker_
    inPool,      \* sequences in the priority queue
    delayed,     \* tasks in the DelayedTaskManager
    pc,          \* where each worker and poster is
    op,          \* the operation each is in
    runStep,     \* RegisteredTaskSource::run_step_ of each worker's source
    main,        \* where the thread that shuts down is
    flusher,     \* where each thread in FlushForTesting is
    async,       \* where the caller of FlushAsyncForTesting is
    callback,    \* flush_callback_for_testing_: none, pending or ran
    early,       \* history: who holds an item that shutdown must wait for
    posts, changes

vars == <<behavior, started, items, event, incomplete, policy, fences, queue,
          hasWorker, inPool, delayed, pc, op, runStep, main, flusher, async,
          callback, early, posts, changes>>
trackerVars == <<started, items, event, incomplete>>
poolVars == <<behavior, policy, fences, inPool, changes>>
flushVars == <<flusher, async, callback>>

SignalPCs == {"undoSignal", "afterSignal", "unregSignal"}
UnregisterPCs == {"unreg", "unregSignal", "incomplete", "notify", "callback"}
PosterPCs == {"idle", "checkPost", "accepted", "regCheck", "registering", "now",
              "push", "aborted"} \cup UnregisterPCs
WorkerPCs == {"idle", "before", "undo", "undoSignal", "clear", "take", "running",
              "after", "afterSignal", "did", "requeue"} \cup UnregisterPCs
MainPCs == {"up", "stopped", "starting", "started", "wait", "notify", "callback",
            "down"}

Operation == [src: Sequences \cup {None},      \* the sequence
              parent: Threads \cup {None},     \* the running task that posts
              delayed: BOOLEAN,                \* the task is delayed
              fresh: BOOLEAN]                  \* the post registers the sequence
Posting(s, from, late) ==
    [src |-> s, parent |-> from, delayed |-> late, fresh |-> FALSE]
Running(s) == Posting(s, None, FALSE)
NoOperation == Posting(None, None, FALSE)

TypeOK ==
    /\ behavior \in Behaviors
    /\ started \in BOOLEAN
    /\ items \in Nat /\ incomplete \in Nat
    /\ event \in {"none", "unsignaled", "signaled"}
    /\ policy \in {"kAll", "kForegroundOnly", "kNone"}
    /\ fences \subseteq {"all", "bestEffort"}
    /\ queue \in [Sequences -> Nat] /\ delayed \in [Sequences -> Nat]
    /\ hasWorker \in [Sequences -> BOOLEAN]
    /\ inPool \subseteq Sequences
    /\ pc \in [Threads -> PosterPCs \cup WorkerPCs]
    /\ \A w \in Workers : pc[w] \in WorkerPCs
    /\ \A p \in Posters : pc[p] \in PosterPCs
    /\ op \in [Threads -> Operation]
    /\ \A t \in Threads : pc[t] # "idle" => op[t].src # None
    /\ runStep \in [Workers -> {"kInitial", "kReady", "kTaskAcquired"}]
    /\ main \in MainPCs
    /\ flusher \in [Flushers -> {"idle", "load", "check", "waiting", "flushed"}]
    /\ async \in {"idle", "load", "check", "take", "done"}
    /\ callback \in {"none", "pending", "ran"}
    /\ early \in [Threads \cup Sequences -> BOOLEAN]
    /\ posts \in Nat /\ changes \in Nat

Blocks(s) == behavior[s] = "BLOCK_SHUTDOWN"
Skips(s) == behavior[s] = "SKIP_ON_SHUTDOWN"

\* Sequence::lock_, from BeginTransaction in PostTaskWithSequenceNow to its end.
SequenceLockHeld(s) == \E p \in Posters :
    /\ op[p].src = s
    /\ \/ pc[p] \in {"regCheck", "registering", "now", "push"} \cup UnregisterPCs
       \/ pc[p] = "aborted" /\ op[p].fresh
ShutdownLockHeld == main = "starting"
FlushLockHeld == \E f \in Flushers : flusher[f] = "check"

Goto(t, label) == pc' = [pc EXCEPT ![t] = label]
Return(t) == Goto(t, "idle") /\ op' = [op EXCEPT ![t] = NoOperation]

Init ==
    /\ behavior \in Behaviors
    /\ started = FALSE
    /\ items = 0
    /\ event = "none"
    /\ incomplete = 0
    /\ policy = "kAll"
    /\ fences = {}
    /\ queue = [s \in Sequences |-> 0]
    /\ hasWorker = [s \in Sequences |-> FALSE]
    /\ inPool = {}
    /\ delayed = [s \in Sequences |-> 0]
    /\ pc = [t \in Threads |-> "idle"]
    /\ op = [t \in Threads |-> NoOperation]
    /\ runStep = [w \in Workers |-> "kInitial"]
    /\ main = "up"
    /\ flusher = [f \in Flushers |-> "idle"]
    /\ async = "idle"
    /\ callback = "none"
    /\ early = [x \in Threads \cup Sequences |-> FALSE]
    /\ posts = MaxPosts
    /\ changes = MaxFences

-----------------------------------------------------------------------------
(* Posting a task, from outside the pool or from a task that runs in it.   *)

MayPost(p, parent) ==
    /\ pc[p] = "idle" /\ p # ServiceThread
    /\ parent # None => pc[parent] = "running"
    /\ posts > 0
    /\ posts' = posts - 1

\* WillPostTask of an immediate task: once shutdown has started, only a
\* BLOCK_SHUTDOWN task is accepted, after a check under shutdown_lock_.
PostTask(p, s, parent) ==
    /\ MayPost(p, parent)
    /\ \/ /\ ~started \/ Blocks(s)
          /\ Goto(p, IF started THEN "checkPost" ELSE "accepted")
          /\ op' = [op EXCEPT ![p] = Posting(s, parent, FALSE)]
       \/ started /\ ~Blocks(s) /\ UNCHANGED <<pc, op>>
    /\ UNCHANGED <<trackerVars, poolVars, queue, hasWorker, delayed, runStep, main,
                   flushVars, early>>

\* WillPostTask and AddDelayedTask of a delayed task.
PostDelayedTask(p, s, parent) ==
    /\ MayPost(p, parent)
    /\ delayed' = IF started THEN delayed ELSE [delayed EXCEPT ![s] = @ + 1]
    /\ UNCHANGED <<trackerVars, poolVars, queue, hasWorker, pc, op, runStep, main,
                   flushVars, early>>

\* The service thread posts a ripe task; it lives until Shutdown stops it.
ProcessRipeTask(s) ==
    /\ pc[ServiceThread] = "idle" /\ main = "up"
    /\ delayed[s] > 0
    /\ delayed' = [delayed EXCEPT ![s] = @ - 1]
    /\ Goto(ServiceThread, "accepted")
    /\ op' = [op EXCEPT ![ServiceThread] = Posting(s, None, TRUE)]
    /\ UNCHANGED <<trackerVars, poolVars, queue, hasWorker, runStep, main,
                   flushVars, early, posts>>

\* DCHECK(!shutdown_event_->IsSignaled()) under shutdown_lock_, in WillPostTask
\* and in BeforeQueueTaskSource.  Without DCHECKs nothing is checked.
CheckEvent(p, from, to) ==
    /\ pc[p] = from
    /\ ~ShutdownLockHeld
    /\ Goto(p, IF PostingChecks /\ event = "signaled" THEN "aborted" ELSE to)
    /\ UNCHANGED <<trackerVars, poolVars, queue, hasWorker, delayed, op, runStep,
                   main, flushVars, early, posts>>

CheckPost(p) == CheckEvent(p, "checkPost", "accepted")
CheckRegister(p) == CheckEvent(p, "regCheck", "registering")

\* The item is one that shutdown must wait for: it is counted before shutdown
\* starts, or on behalf of a task that holds such an item.
Early(p) == ~started \/ (op[p].parent # None /\ early[op[p].parent])

\* Mutation of WillPushTask: a sequence that is running its last task is queued.
WillPushTaskAlways(s) == queue[s] = 0

WillPushTask(s) == queue[s] = 0 /\ ~hasWorker[s]

\* Mutation of RegisterTaskSource: BeforeQueueTaskSource reads the shutdown bit
\* first and counts the item of a BLOCK_SHUTDOWN source only before shutdown.
RegisterTaskSourceUncounted(p) ==
    LET s == op[p].src IN
    /\ pc[p] = "accepted" /\ ~SequenceLockHeld(s)
    /\ \/ /\ ~WillPushTask(s)
          /\ Goto(p, IF op[p].delayed THEN "now" ELSE "push")
          /\ UNCHANGED <<op, items, early>>
       \/ /\ WillPushTask(s) /\ Blocks(s)
          /\ items' = IF started THEN items ELSE items + 1
          /\ early' = [early EXCEPT ![p] = Early(p)]
          /\ Goto(p, IF started THEN "regCheck" ELSE "registering")
          /\ op' = [op EXCEPT ![p].fresh = TRUE]
       \/ /\ WillPushTask(s) /\ ~Blocks(s) /\ ~started
          /\ Goto(p, "registering")
          /\ op' = [op EXCEPT ![p].fresh = TRUE]
          /\ UNCHANGED <<items, early>>
       \/ /\ WillPushTask(s) /\ ~Blocks(s) /\ started
          /\ Return(p)
          /\ UNCHANGED <<items, early>>
    /\ UNCHANGED <<started, event, incomplete, poolVars, queue, hasWorker, delayed,
                   runStep, main, flushVars, posts>>

\* PostTaskWithSequenceNow locks the sequence; if it must be queued,
\* BeforeQueueTaskSource counts a BLOCK_SHUTDOWN source as an item and rejects
\* any other once shutdown has started.
RegisterTaskSource(p) ==
    LET s == op[p].src IN
    /\ pc[p] = "accepted" /\ ~SequenceLockHeld(s)
    /\ \/ /\ ~WillPushTask(s)
          /\ Goto(p, IF op[p].delayed THEN "now" ELSE "push")
          /\ UNCHANGED <<op, items, early>>
       \/ /\ WillPushTask(s) /\ Blocks(s)
          /\ items' = items + 1
          /\ early' = [early EXCEPT ![p] = Early(p)]
          /\ Goto(p, IF started THEN "regCheck" ELSE "registering")
          /\ op' = [op EXCEPT ![p].fresh = TRUE]
       \/ /\ WillPushTask(s) /\ ~Blocks(s) /\ ~started
          /\ Goto(p, "registering")
          /\ op' = [op EXCEPT ![p].fresh = TRUE]
          /\ UNCHANGED <<items, early>>
       \/ /\ WillPushTask(s) /\ ~Blocks(s) /\ started
          /\ Return(p)
          /\ UNCHANGED <<items, early>>
    /\ UNCHANGED <<started, event, incomplete, poolVars, queue, hasWorker, delayed,
                   runStep, main, flushVars, posts>>

CountIncomplete(p) ==
    /\ pc[p] = "registering"
    /\ incomplete' = incomplete + 1
    /\ Goto(p, IF op[p].delayed THEN "now" ELSE "push")
    /\ UNCHANGED <<started, items, event, poolVars, queue, hasWorker, delayed, op,
                   runStep, main, flushVars, early, posts>>

\* WillPostTaskNow; a source registered for a rejected task is released.
WillPostTaskNow(p) ==
    /\ pc[p] = "now"
    /\ IF ~started
       THEN Goto(p, "push") /\ UNCHANGED op
       ELSE IF op[p].fresh
       THEN Goto(p, IF Blocks(op[p].src) THEN "unreg" ELSE "incomplete") /\ UNCHANGED op
       ELSE Return(p)
    /\ UNCHANGED <<trackerVars, poolVars, queue, hasWorker, delayed, runStep, main,
                   flushVars, early, posts>>

\* PushTask and, for a sequence just registered, PushTaskSourceAndWakeUpWorkers.
PushTask(p) ==
    LET s == op[p].src IN
    /\ pc[p] = "push"
    /\ queue' = [queue EXCEPT ![s] = @ + 1]
    /\ IF op[p].fresh
       THEN /\ inPool' = inPool \cup {s}
            /\ early' = [early EXCEPT ![s] = early[p], ![p] = FALSE]
       ELSE UNCHANGED <<inPool, early>>
    /\ Return(p)
    /\ UNCHANGED <<trackerVars, behavior, policy, fences, changes, hasWorker,
                   delayed, runStep, main, flushVars, posts>>

-----------------------------------------------------------------------------
(* Running the next task of a sequence.                                    *)

CanRunPriority(s) ==
    \/ policy = "kAll"
    \/ policy = "kForegroundOnly" /\ s \notin BestEffort

\* A worker takes the sequence from its thread group; WillRunTask.
TakeTaskSource(w, s) ==
    /\ pc[w] = "idle"
    /\ s \in inPool /\ CanRunPriority(s)
    /\ inPool' = inPool \ {s}
    /\ hasWorker' = [hasWorker EXCEPT ![s] = TRUE]
    /\ early' = [early EXCEPT ![w] = early[s], ![s] = FALSE]
    /\ runStep' = [runStep EXCEPT ![w] = "kReady"]
    /\ Goto(w, "before")
    /\ op' = [op EXCEPT ![w] = Running(s)]
    /\ UNCHANGED <<trackerVars, behavior, policy, fences, changes, queue, delayed,
                   main, flushVars, posts>>

\* Mutation of BeforeRunTask: a SKIP_ON_SHUTDOWN task reads the shutdown bit
\* and is counted only if shutdown has started.
BeforeRunTaskUncounted(w) ==
    LET s == op[w].src IN
    /\ pc[w] = "before"
    /\ \/ /\ Blocks(s)
          /\ Goto(w, "take")
          /\ UNCHANGED <<items, early>>
       \/ /\ Skips(s)
          /\ items' = IF started THEN items + 1 ELSE items
          /\ early' = [early EXCEPT ![w] = ~started]
          /\ Goto(w, IF started THEN "undo" ELSE "take")
       \/ /\ ~Blocks(s) /\ ~Skips(s)
          /\ Goto(w, IF started THEN "clear" ELSE "take")
          /\ UNCHANGED <<items, early>>
    /\ UNCHANGED <<started, event, incomplete, poolVars, queue, hasWorker, delayed,
                   op, runStep, main, flushVars, posts>>

\* BeforeRunTask: a SKIP_ON_SHUTDOWN task counts as an item while it runs.
BeforeRunTask(w) ==
    LET s == op[w].src IN
    /\ pc[w] = "before"
    /\ \/ /\ Blocks(s)
          /\ Goto(w, "take")
          /\ UNCHANGED <<items, early>>
       \/ /\ Skips(s)
          /\ items' = items + 1
          /\ early' = [early EXCEPT ![w] = ~started]
          /\ Goto(w, IF started THEN "undo" ELSE "take")
       \/ /\ ~Blocks(s) /\ ~Skips(s)
          /\ Goto(w, IF started THEN "clear" ELSE "take")
          /\ UNCHANGED <<items, early>>
    /\ UNCHANGED <<started, event, incomplete, poolVars, queue, hasWorker, delayed,
                   op, runStep, main, flushVars, posts>>

\* The task is popped under the sequence's lock and starts.
TakeTask(w) ==
    LET s == op[w].src IN
    /\ pc[w] = "take" /\ ~SequenceLockHeld(s)
    /\ queue' = [queue EXCEPT ![s] = @ - 1]
    /\ runStep' = [runStep EXCEPT ![w] = "kTaskAcquired"]
    /\ Goto(w, "running")
    /\ UNCHANGED <<trackerVars, poolVars, hasWorker, delayed, op, main, flushVars,
                   early, posts>>

\* The tasks of a sequence that may not run are deleted, all of them at once.
ClearTasks(w) ==
    LET s == op[w].src IN
    /\ pc[w] = "clear" /\ ~SequenceLockHeld(s)
    /\ queue' = [queue EXCEPT ![s] = 0]
    /\ runStep' = [runStep EXCEPT ![w] = "kInitial"]
    /\ Goto(w, "did")
    /\ UNCHANGED <<trackerVars, poolVars, hasWorker, delayed, op, main, flushVars,
                   early, posts>>

\* The task returns (its own posts have returned); AfterRunTask.
FinishTask(w) ==
    /\ pc[w] = "running"
    /\ \A p \in Posters : pc[p] # "idle" => op[p].parent # w
    /\ Goto(w, IF Skips(op[w].src) THEN "after" ELSE "did")
    /\ UNCHANGED <<trackerVars, poolVars, queue, hasWorker, delayed, op, runStep,
                   main, flushVars, early, posts>>

\* DidProcessTask: a sequence that is not empty is put back, an empty one is
\* unregistered.
DidProcessTask(w) ==
    LET s == op[w].src IN
    /\ pc[w] = "did" /\ ~SequenceLockHeld(s)
    /\ hasWorker' = [hasWorker EXCEPT ![s] = FALSE]
    /\ runStep' = [runStep EXCEPT ![w] = "kInitial"]
    /\ Goto(w, IF queue[s] > 0 THEN "requeue"
               ELSE IF Blocks(s) THEN "unreg" ELSE "incomplete")
    /\ UNCHANGED <<trackerVars, poolVars, queue, delayed, op, main, flushVars,
                   early, posts>>

ReEnqueue(w) ==
    /\ pc[w] = "requeue"
    /\ inPool' = inPool \cup {op[w].src}
    /\ early' = [early EXCEPT ![op[w].src] = early[w], ![w] = FALSE]
    /\ Return(w)
    /\ UNCHANGED <<trackerVars, behavior, policy, fences, changes, queue, hasWorker,
                   delayed, runStep, main, flushVars, posts>>

-----------------------------------------------------------------------------
(* Giving an item or a registration back.                                  *)

\* State::DecrementNumItemsBlockingShutdown: the thread that takes the count to
\* zero during shutdown must signal.
DecrementItems(t, from, to, signal) ==
    /\ pc[t] = from
    /\ items' = items - 1
    /\ early' = [early EXCEPT ![t] = FALSE]
    /\ Goto(t, IF started /\ items = 1 THEN signal ELSE to)
    /\ UNCHANGED <<started, event, incomplete, poolVars, queue, hasWorker, delayed,
                   op, runStep, main, flushVars, posts>>

UndoBeforeRunTask(w) == DecrementItems(w, "undo", "clear", "undoSignal")
AfterRunTask(w) == DecrementItems(w, "after", "did", "afterSignal")
UnregisterItem(t) == DecrementItems(t, "unreg", "incomplete", "unregSignal")

\* TaskTracker::DecrementNumItemsBlockingShutdown signals under shutdown_lock_.
SignalShutdownEvent(t) ==
    /\ pc[t] \in SignalPCs
    /\ ~ShutdownLockHeld
    /\ event' = "signaled"
    /\ Goto(t, CASE pc[t] = "undoSignal" -> "clear"
                 [] pc[t] = "afterSignal" -> "did"
                 [] OTHER -> "incomplete")
    /\ UNCHANGED <<started, items, incomplete, poolVars, queue, hasWorker, delayed,
                   op, runStep, main, flushVars, early, posts>>

\* Mutation of DecrementIncomplete: the flush is not told of the last source.
DecrementIncompleteSilent(t) ==
    /\ pc[t] = "incomplete"
    /\ incomplete' = incomplete - 1
    /\ Return(t)
    /\ UNCHANGED <<started, items, event, poolVars, queue, hasWorker, delayed,
                   runStep, main, flushVars, early, posts>>

DecrementIncomplete(t) ==
    /\ pc[t] = "incomplete"
    /\ incomplete' = incomplete - 1
    /\ IF incomplete = 1 THEN Goto(t, "notify") /\ UNCHANGED op ELSE Return(t)
    /\ UNCHANGED <<started, items, event, poolVars, queue, hasWorker, delayed,
                   runStep, main, flushVars, early, posts>>

\* flush_cv_->Signal(): at most one waiting thread wakes.
SignalFlush ==
    /\ ~FlushLockHeld
    /\ \/ \E f \in Flushers :
            /\ flusher[f] = "waiting"
            /\ flusher' = [flusher EXCEPT ![f] = "load"]
       \/ (\A f \in Flushers : flusher[f] # "waiting") /\ UNCHANGED flusher

\* CallFlushCallbackForTesting.
RunFlushCallback ==
    /\ ~FlushLockHeld
    /\ callback' = IF callback = "pending" THEN "ran" ELSE callback

NotifyFlush(t) ==
    /\ pc[t] = "notify"
    /\ SignalFlush
    /\ Goto(t, "callback")
    /\ UNCHANGED <<trackerVars, poolVars, queue, hasWorker, delayed, op, runStep,
                   main, async, callback, early, posts>>

CallFlushCallback(t) ==
    /\ pc[t] = "callback"
    /\ RunFlushCallback
    /\ Return(t)
    /\ UNCHANGED <<trackerVars, poolVars, queue, hasWorker, delayed, runStep, main,
                   flusher, async, early, posts>>

-----------------------------------------------------------------------------
(* The thread that sets fences and shuts the pool down.                    *)

\* Mutation of PolicyFor: a fence still applies during shutdown.
PolicyForFenced(set, shuttingDown) ==
    IF set = {} THEN "kAll"
    ELSE IF "all" \in set THEN "kNone" ELSE "kForegroundOnly"

PolicyFor(set, shuttingDown) ==
    IF set = {} \/ shuttingDown THEN "kAll"
    ELSE IF "all" \in set THEN "kNone" ELSE "kForegroundOnly"

\* SetHasFence and SetHasBestEffortFence, with UpdateCanRunPolicy.
ChangeFence(kind) ==
    /\ main = "up" /\ changes > 0
    /\ changes' = changes - 1
    /\ fences' = IF kind \in fences THEN fences \ {kind} ELSE fences \cup {kind}
    /\ policy' = PolicyFor(fences', started)
    /\ UNCHANGED <<trackerVars, behavior, inPool, queue, hasWorker, delayed, pc, op,
                   runStep, main, flushVars, early, posts>>

\* Shutdown: Stop() joins the service thread.
StopServiceThread ==
    /\ main = "up" /\ pc[ServiceThread] = "idle"
    /\ main' = "stopped"
    /\ UNCHANGED <<trackerVars, poolVars, queue, hasWorker, delayed, pc, op,
                   runStep, flushVars, early, posts>>

\* StartShutdown takes shutdown_lock_ and creates the event ...
CreateShutdownEvent ==
    /\ main = "stopped"
    /\ event' = "unsignaled"
    /\ main' = "starting"
    /\ UNCHANGED <<started, items, incomplete, poolVars, queue, hasWorker, delayed,
                   pc, op, runStep, flushVars, early, posts>>

\* ... then State::StartShutdown sets the bit and, if there are no items, the
\* event is signaled before the lock is released.
StartShutdown ==
    /\ main = "starting"
    /\ started' = TRUE
    /\ event' = IF items = 0 THEN "signaled" ELSE event
    /\ main' = "started"
    /\ UNCHANGED <<items, incomplete, poolVars, queue, hasWorker, delayed, pc, op,
                   runStep, flushVars, early, posts>>

UpdateCanRunPolicy ==
    /\ main = "started"
    /\ policy' = PolicyFor(fences, started)
    /\ main' = "wait"
    /\ UNCHANGED <<trackerVars, behavior, fences, inPool, changes, queue, hasWorker,
                   delayed, pc, op, runStep, flushVars, early, posts>>

WaitShutdownEvent ==
    /\ main = "wait" /\ event = "signaled"
    /\ main' = "notify"
    /\ UNCHANGED <<trackerVars, poolVars, queue, hasWorker, delayed, pc, op,
                   runStep, flushVars, early, posts>>

CompleteShutdownSignal ==
    /\ main = "notify"
    /\ SignalFlush
    /\ main' = "callback"
    /\ UNCHANGED <<trackerVars, poolVars, queue, hasWorker, delayed, pc, op,
                   runStep, async, callback, early, posts>>

CompleteShutdownCallback ==
    /\ main = "callback"
    /\ RunFlushCallback
    /\ main' = "down"
    /\ UNCHANGED <<trackerVars, poolVars, queue, hasWorker, delayed, pc, op,
                   runStep, flusher, async, early, posts>>

-----------------------------------------------------------------------------
(* Flushing.                                                               *)

UnchangedButFlush == UNCHANGED <<trackerVars, poolVars, queue, hasWorker, delayed,
                                 pc, op, runStep, main, early, posts>>

StartFlush(f) ==
    /\ flusher[f] = "idle"
    /\ flusher' = [flusher EXCEPT ![f] = "load"]
    /\ UnchangedButFlush /\ UNCHANGED <<async, callback>>

\* FlushForTesting, under flush_lock_, reads the counter ...
FlushLoad(f) ==
    /\ flusher[f] = "load" /\ ~FlushLockHeld
    /\ flusher' = [flusher EXCEPT ![f] = IF incomplete = 0 THEN "flushed" ELSE "check"]
    /\ UnchangedButFlush /\ UNCHANGED <<async, callback>>

\* ... and IsShutdownComplete, and waits, which releases the lock.
FlushCheck(f) ==
    /\ flusher[f] = "check" /\ ~ShutdownLockHeld
    /\ flusher' = [flusher EXCEPT ![f] =
                     IF event = "signaled" THEN "flushed" ELSE "waiting"]
    /\ UnchangedButFlush /\ UNCHANGED <<async, callback>>

FlushAsync ==
    /\ async = "idle" /\ ~FlushLockHeld
    /\ callback' = "pending"
    /\ async' = "load"
    /\ UnchangedButFlush /\ UNCHANGED flusher

FlushAsyncLoad ==
    /\ async = "load"
    /\ async' = IF incomplete = 0 THEN "take" ELSE "check"
    /\ UnchangedButFlush /\ UNCHANGED <<flusher, callback>>

FlushAsyncCheck ==
    /\ async = "check" /\ ~ShutdownLockHeld
    /\ async' = IF event = "signaled" THEN "take" ELSE "done"
    /\ UnchangedButFlush /\ UNCHANGED <<flusher, callback>>

FlushAsyncTake ==
    /\ async = "take"
    /\ RunFlushCallback
    /\ async' = "done"
    /\ UnchangedButFlush /\ UNCHANGED flusher

-----------------------------------------------------------------------------

PosterStep(p) ==
    \/ CheckPost(p) \/ RegisterTaskSource(p) \/ CheckRegister(p)
    \/ CountIncomplete(p) \/ WillPostTaskNow(p) \/ PushTask(p)
WorkerStep(w) ==
    \/ BeforeRunTask(w) \/ UndoBeforeRunTask(w) \/ TakeTask(w) \/ ClearTasks(w)
    \/ FinishTask(w) \/ AfterRunTask(w) \/ DidProcessTask(w) \/ ReEnqueue(w)
    \/ \E s \in Sequences : TakeTaskSource(w, s)
ReleaseStep(t) ==
    \/ UnregisterItem(t) \/ SignalShutdownEvent(t)
    \/ DecrementIncomplete(t) \/ NotifyFlush(t) \/ CallFlushCallback(t)
MainStep ==
    \/ CreateShutdownEvent \/ StartShutdown \/ UpdateCanRunPolicy
    \/ WaitShutdownEvent \/ CompleteShutdownSignal \/ CompleteShutdownCallback
FlushStep(f) == FlushLoad(f) \/ FlushCheck(f)
AsyncStep == FlushAsyncLoad \/ FlushAsyncCheck \/ FlushAsyncTake

Post ==
    \/ \E p \in Posters, s \in Sequences, parent \in Workers \cup {None} :
         PostTask(p, s, parent) \/ PostDelayedTask(p, s, parent)
    \/ \E s \in Sequences : ProcessRipeTask(s)

Next ==
    \/ Post
    \/ \E p \in Posters : PosterStep(p)
    \/ \E w \in Workers : WorkerStep(w)
    \/ \E t \in Threads : ReleaseStep(t)
    \/ \E kind \in {"all", "bestEffort"} : ChangeFence(kind)
    \/ StopServiceThread \/ MainStep
    \/ \E f \in Flushers : StartFlush(f) \/ FlushStep(f)
    \/ FlushAsync \/ AsyncStep

Spec == Init /\ [][Next]_vars

\* Every thread keeps running and tasks return; posting, flushing and shutting
\* down are the client's choice.
Fairness ==
    /\ \A p \in Posters : WF_vars(PosterStep(p))
    /\ \A w \in Workers : WF_vars(WorkerStep(w))
    /\ \A t \in Threads : WF_vars(ReleaseStep(t))
    /\ WF_vars(MainStep)
    /\ \A f \in Flushers : WF_vars(FlushStep(f))
    /\ WF_vars(AsyncStep)

LiveSpec == Spec /\ Fairness

-----------------------------------------------------------------------------
(* Properties.                                                             *)

WorkerHolds(w) ==
    \/ /\ pc[w] \in {"before", "take", "running", "did", "requeue", "unreg"}
       /\ Blocks(op[w].src)
    \/ pc[w] \in {"take", "running", "after"} /\ Skips(op[w].src)
    \/ pc[w] = "undo"
PosterHolds(p) ==
    /\ op[p].fresh /\ Blocks(op[p].src)
    /\ pc[p] \in {"regCheck", "registering", "now", "push", "unreg", "aborted"}

\* Who blocks shutdown: queued or running BLOCK_SHUTDOWN sources, running
\* SKIP_ON_SHUTDOWN tasks, and transient counts of sources in between.
Holds(x) ==
    \/ x \in Workers /\ WorkerHolds(x)
    \/ x \in Posters /\ PosterHolds(x)
    \/ x \in inPool /\ Blocks(x)
Holders == {x \in Threads \cup Sequences : Holds(x)}

\* Who has a registered source: workers, posters between registration and the
\* push, and the pool.
HasSource(x) ==
    \/ x \in Workers /\ pc[x] \notin {"idle", "notify", "callback"}
    \/ /\ x \in Posters /\ op[x].fresh
       /\ pc[x] \in {"now", "push", "unreg", "unregSignal", "incomplete"}
    \/ x \in inPool
Registered == {x \in Threads \cup Sequences : HasSource(x)}

\* The count in State::bits_ is the number of items: no path through a post, a
\* run, a skip or a release loses or repeats one.
ItemsExact == items = Cardinality(Holders)

\* num_incomplete_task_sources_ is the number of registered sources, those on
\* their way in or out of the pool included.
IncompleteExact == incomplete = Cardinality(Registered)

\* What CompleteShutdown promises: once the event is signaled, every
\* BLOCK_SHUTDOWN source counted before shutdown, or posted by a task that was,
\* is done, and no SKIP_ON_SHUTDOWN task that had begun still runs.
ShutdownMeansDone == event = "signaled" => \A x \in Holders : ~early[x]

\* A thread that saw the shutdown bit finds the event when it has taken
\* shutdown_lock_: neither a post nor a decrement dereferences null.
EventExists ==
    (\E t \in Threads : pc[t] \in SignalPCs \cup {"checkPost", "regCheck"})
      /\ ~ShutdownLockHeld => event # "none"

InCharge(s) == {w \in Workers : /\ op[w].src = s
                                /\ pc[w] \notin UnregisterPCs}

\* A sequence with tasks is in the pool, at a worker, or being pushed, and in one
\* place only: it is never stranded and its tasks never run concurrently.
ScheduledOnce == \A s \in Sequences :
    /\ Cardinality(InCharge(s)) + (IF s \in inPool THEN 1 ELSE 0) <= 1
    /\ queue[s] > 0 => s \in inPool \/ InCharge(s) # {}

\* Shutdown returns, whatever fences are set and whatever is queued.
ShutdownReturns == main = "stopped" ~> main = "down"

\* FlushForTesting returns, unless a fence keeps tasks from running.
FlushReturns == \A f \in Flushers :
    flusher[f] = "load" ~> (flusher[f] = "flushed" \/ policy # "kAll")

\* BeforeRunTask's DCHECK(!HasShutdownStarted() || !IsShutdownComplete()) of a
\* BLOCK_SHUTDOWN task.
BlockRunsBeforeComplete ==
    [][\A w \in Workers : pc[w] = "before" /\ pc'[w] = "take" /\ Blocks(op[w].src)
         => event # "signaled"]_vars
=============================================================================
