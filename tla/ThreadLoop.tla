------------------------------ MODULE ThreadLoop ------------------------------
(***************************************************************************)
(* A ThreadController whose constants and variables have names other than  *)
(* those of SequenceManager, the task source that it serves in the code:   *)
(* a module that extends both can speak of the loop and of the queues.     *)
(***************************************************************************)
EXTENDS Naturals

CONSTANTS
    Callers,     \* threads that post tasks
    Main,        \* the thread the controller is bound to
    MaxNesting,  \* bound on the nesting of run loops
    MaxTasks,    \* bound on the posted tasks
    MaxRuns      \* bound on the run loops started

ASSUME MainAssumption == Main \notin Callers
ASSUME LoopBoundsAssumption ==
    MaxNesting \in Nat \ {0} /\ MaxTasks \in Nat /\ MaxRuns \in Nat

VARIABLES
    flags, event, loopCall, loopPc, immediate, allowed, nesting, quits, stopped,
    quitPending, runs,
    source,      \* the tasks in the task source
    postedTasks  \* the tasks posted so far

Loop == INSTANCE ThreadController WITH
            Posters <- Callers, MaxDepth <- MaxNesting, MaxPosts <- MaxTasks,
            work <- source, call <- loopCall, pc <- loopPc, next <- immediate,
            depth <- nesting, posts <- postedTasks

LoopSpec == Loop!LiveSpec

-----------------------------------------------------------------------------
(* The properties of ThreadController, for this loop.                        *)

\* The thread never sleeps on work it may run: once every call that posts
\* has returned, a waiting thread with tasks in its source is signaled.
NoStrandedWork == Loop!NoStrandedWork

\* A run loop that was quit takes no further task, though loops nested in it
\* have reset quit_pending and may have been quit after it.
QuitHeeded == Loop!QuitHeeded

\* A task that is in the source gets the loop to run it, unless the loop is
\* left, or a nested loop that allows no tasks is entered.
WorkRuns == Loop!WorkRuns

-----------------------------------------------------------------------------
(* The loop keeps to what its task source relies on.                         *)

\* Where the thread is.  It does not look for tasks that it may not run, nor
\* for more of them after it was told to quit.
LoopPlace ==
    IF ~allowed \/ quitPending THEN "working"
    ELSE IF loopPc \in {"delay", "did"} THEN "looking"
    ELSE IF loopPc \in {"pump", "idle", "wait"} /\ ~immediate THEN "asleep"
    ELSE "working"

Requests == INSTANCE WorkRequests WITH
                place <- LoopPlace, requested <- ("pending" \in flags)

\* The flag pending is what WorkRequests says of a request: it is taken back
\* before the thread's last look for work, and no request made since is lost
\* before the thread is back at work.
KeepsRequests == Requests!Spec
=============================================================================
