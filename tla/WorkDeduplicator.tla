--------------------------- MODULE WorkDeduplicator ---------------------------
(***************************************************************************)
(* task/sequence_manager/work_deduplicator: the atomic flags by which      *)
(* threads that request work and the thread that does it agree on whether  *)
(* the message pump must be told.  Each operator is one access to state_;  *)
(* the operators named Schedules... say whether it returns                 *)
(* kScheduleImmediate.  ThreadController uses them.                        *)
(***************************************************************************)
VARIABLE flags   \* state_, as the set of its flags

Flags == {"inDoWork", "pending", "bound"}

Unbound == {}
Idle == {"bound"}
DoWorkPending == {"pending", "bound"}
InDoWork == {"inDoWork", "bound"}

BindToCurrentThread == flags' = flags \cup {"bound"}
SchedulesOnBind == "pending" \in flags

OnWorkRequested == flags' = flags \cup {"pending"}
SchedulesOnRequest == flags = Idle

OnWorkStarted == flags' = InDoWork

WillCheckForMoreWork == flags' = InDoWork

\* Mutation of DidCheckForMoreWork: the state is stored anew, without what
\* other threads have set meanwhile.
DidCheckOverwriting(immediate) ==
    flags' = IF immediate THEN DoWorkPending ELSE Idle

\* With an immediate next task the pending flag is set, otherwise only the
\* mark of being in a DoWork is taken away.
DidCheckForMoreWork(immediate) ==
    flags' = IF immediate THEN DoWorkPending ELSE flags \ {"inDoWork"}

\* Mutation of SchedulesOnDidCheck: a request made meanwhile is overlooked.
SchedulesOnlyImmediate(immediate) == immediate

SchedulesOnDidCheck(immediate) == immediate \/ "pending" \in flags
=============================================================================
