----------------------------- MODULE WorkRequests -----------------------------
(***************************************************************************)
(* What a thread controller and its task source keep to so that no request *)
(* for work is lost: before it goes to sleep the bound thread takes the    *)
(* request back and then looks for work again; from then on a request      *)
(* stands until the thread is back at work.  ThreadController keeps to it  *)
(* with the pending flag of the deduplicator, SequenceManager with         *)
(* `requested'.                                                            *)
(***************************************************************************)
VARIABLES
    place,     \* the thread is at work, looks for more of it, or is asleep
    requested  \* ScheduleWork was called since the request was taken back

vars == <<place, requested>>

Init == place = "working" /\ requested = FALSE

\* OnWorkRequested, by any thread at any time.
Request == requested' = TRUE /\ UNCHANGED place

\* OnWorkStarted: what was requested so far is done now.
StartWork == place = "working" /\ requested' = FALSE /\ UNCHANGED place

\* WillCheckForMoreWork: the last look before the thread may sleep.
LookAgain == place = "working" /\ place' = "looking" /\ requested' = FALSE

\* DidCheckForMoreWork without an immediate next task.
Sleep == place = "looking" /\ place' = "asleep" /\ UNCHANGED requested

\* There is work, the pump's wait ended, or the loop is left.
Resume ==
    /\ place \in {"looking", "asleep"}
    /\ place' = "working"
    /\ requested' \in {requested, TRUE}

Next == Request \/ StartWork \/ LookAgain \/ Sleep \/ Resume

Spec == Init /\ [][Next]_vars
=============================================================================
