----------------------- MODULE DelayedTaskManagerProofs -----------------------
(***************************************************************************)
(* For any number of posting threads, tasks and delays: the task that is   *)
(* to run first always has a call of ProcessRipeTasks that will take it    *)
(* (from CallInv), tasks are forwarded in order, each of them once (from   *)
(* ForwardInv, what the queue, the batch and the history hold).            *)
(***************************************************************************)
EXTENDS DelayedTaskManager, TLAPS

-----------------------------------------------------------------------------
(* The inductive invariant.                                                  *)

\* The types of what the argument uses; the sequences are not part of it.
Types ==
    /\ now \in Times
    /\ started \in BOOLEAN
    /\ runTime \in [Nums -> Times \cup {Never}]
    /\ queue \subseteq Nums
    /\ scheduled \subseteq Nums
    /\ wakeup \in [Nums -> Times \cup {Never}]
    /\ pc \in [Threads -> PCs]
    /\ task \in [Threads -> Nums \cup {0}]
    /\ delay \in [Threads -> Times]

Scheduling(t) == pc[t] \in {"schedule", "post"}

\* Tasks that were added or have scheduled a call were constructed.
Constructed ==
    \A n \in queue \cup scheduled : runTime[n] # Never

\* A task on its way to AddDelayedTask is the poster's own, and new.
AddInv ==
    \A p \in Threads : pc[p] = "add" =>
        /\ task[p] \in Nums
        /\ runTime[task[p]] # Never
        /\ task[p] \notin queue \cup scheduled
        /\ \A t \in Threads : pc[t] = "add" /\ task[t] = task[p] => t = p

\* A thread between the lock and the post holds a task that is marked.
HoldInv == \A t \in Threads : Scheduling(t) => task[t] \in scheduled

\* Calls are not early: neither the delay that is about to be posted nor the
\* time a call is due.
DelayInv ==
    \A t \in Threads : pc[t] = "post" => delay[t] >= runTime[task[t]] - now
WakeupInv ==
    \A n \in Nums : wakeup[n] # Never => runTime[n] # Never /\ wakeup[n] >= runTime[n]

\* A marked task that is still queued has its call, and from Start on the
\* ripest task is marked.
MarkedInv == \A n \in queue \cap scheduled : CallOwed(n)
RipestInv == started => \A n \in queue : Ripest(n, queue) => n \in scheduled

CallInv ==
    /\ Types /\ Constructed /\ AddInv /\ HoldInv
    /\ DelayInv /\ WakeupInv /\ MarkedInv /\ RipestInv

-----------------------------------------------------------------------------
(* The invariant is inductive.                                               *)

LEMMA NeverIsNoTime == Never \notin Times /\ Horizon \in Nat /\ Times \subseteq Nat
BY BoundsAssumption DEF Never, Times

LEMMA Initially == Init => CallInv
<1>1. 0 \in Times /\ 0 \in Nat
  BY BoundsAssumption DEF Times
<1>2. Init => Types
  BY <1>1 DEF Init, Types, PCs
<1>3. Init => Constructed /\ AddInv /\ HoldInv /\ DelayInv /\ WakeupInv
                 /\ MarkedInv /\ RipestInv
  BY DEF Init, Constructed, AddInv, HoldInv, Scheduling, DelayInv, WakeupInv,
         MarkedInv, RipestInv
<1>4. QED
  BY <1>2, <1>3 DEF CallInv

\* What a critical section that leaves the queue q leaves behind, for a thread
\* that held no mark before and a queue whose tasks were constructed.
LEMMA SectionEnds ==
    ASSUME CallInv, NEW t \in Threads, NEW q \in SUBSET Nums,
           NEW next \in PCs \ {"add", "schedule", "post"},
           ScheduleRipest(t, q, next),
           ~Scheduling(t),
           UNCHANGED <<now, delay>>,
           queue' = q,
           \A n \in Nums : runTime'[n] = runTime[n],
           runTime' \in [Nums -> Times \cup {Never}],
           \A n \in q : runTime[n] # Never,
           wakeup' \in [Nums -> Times \cup {Never}],
           \A n \in Nums : wakeup'[n] = wakeup[n]
                              \/ (wakeup'[n] = Never /\ n \notin q),
           started' \in BOOLEAN,
           \A n \in q \cap scheduled : n \in queue,
           \A p \in Threads \ {t} : pc[p] = "add" => task[p] \notin q
    PROVE  CallInv'
<1>. USE DEF CallInv
<1>1. Types'
  <2>1. scheduled' \subseteq Nums /\ task' \in [Threads -> Nums \cup {0}]
    BY DEF ScheduleRipest, Types
  <2>2. pc' \in [Threads -> PCs]
    BY DEF ScheduleRipest, Types, PCs
  <2>3. QED
    BY <2>1, <2>2 DEF Types
<1>2. /\ scheduled \subseteq scheduled'
      /\ scheduled' \subseteq scheduled \cup q
      /\ \A p \in Threads \ {t} : pc'[p] = pc[p] /\ task'[p] = task[p]
      /\ pc'[t] = "schedule" \/ pc'[t] = next
      /\ pc'[t] = "schedule" => task'[t] \in scheduled'
      /\ \A n \in scheduled' : n \in scheduled \/ (pc'[t] = "schedule" /\ task'[t] = n)
  BY DEF ScheduleRipest, Types
<1>3. Constructed'
  BY <1>2 DEF Constructed, Types
<1>4. AddInv'
  <2>1. \A p \in Threads : pc'[p] = "add" => p # t /\ pc[p] = "add" /\ task'[p] = task[p]
    BY <1>2 DEF Types
  <2>2. \A p \in Threads : pc'[p] = "add" => task[p] \notin q \cup scheduled
    BY <2>1 DEF AddInv
  <2>3. QED
    BY <1>2, <2>1, <2>2 DEF AddInv
<1>5. HoldInv'
  BY <1>2 DEF HoldInv, Scheduling, PCs
<1>6. DelayInv'
  BY <1>2, <1>5 DEF DelayInv, HoldInv, Scheduling, Types
<1>7. WakeupInv'
  BY DEF WakeupInv
<1>8. MarkedInv'
  <2>. SUFFICES ASSUME NEW n \in q, n \in scheduled'
                PROVE  CallOwed(n)'
    BY DEF MarkedInv
  <2>1. CASE n \notin scheduled
    BY <1>2, <2>1 DEF CallOwed
  <2>2. CASE n \in scheduled
    <3>1. CallOwed(n)
      BY <2>2 DEF MarkedInv
    <3>2. wakeup[n] # Never => wakeup'[n] # Never
      BY DEF Types
    <3>3. \A p \in Threads : Scheduling(p) /\ task[p] = n
                => pc'[p] \in {"schedule", "post"} /\ task'[p] = n
      BY <1>2 DEF Scheduling
    <3>4. QED
      BY <3>1, <3>2, <3>3 DEF CallOwed, Scheduling
  <2>3. QED
    BY <2>1, <2>2
<1>9. RipestInv'
  <2>1. \A m \in q : Ripest(m, q)' <=> Ripest(m, q)
    BY DEF Ripest, Before
  <2>2. \A m, n \in q : Ripest(m, q) /\ Ripest(n, q) => m = n
    <3>. SUFFICES ASSUME NEW m \in q, NEW n \in q, Ripest(m, q), Ripest(n, q)
                  PROVE  m = n
      OBVIOUS
    <3>1. Before(m, n) /\ Before(n, m)
      BY DEF Ripest
    <3>2. m \in Int /\ n \in Int
      BY DEF Nums
    <3>3. runTime[m] \in Int /\ runTime[n] \in Int
      BY BoundsAssumption DEF Types, Times, Never
    <3>4. QED
      BY <3>1, <3>2, <3>3 DEF Before
  <2>3. \A m \in q : Ripest(m, q) => m \in scheduled'
    BY <2>2 DEF ScheduleRipest
  <2>4. QED
    BY <2>1, <2>3 DEF RipestInv
<1>10. QED
  BY <1>1, <1>3, <1>4, <1>5, <1>6, <1>7, <1>8, <1>9

LEMMA StepsPreserveCallInv == CallInv /\ [Next]_vars => CallInv'
<1>. SUFFICES ASSUME CallInv, [Next]_vars
              PROVE  CallInv'
  OBVIOUS
<1>. USE DEF CallInv
<1>1. CASE Start
  <2>1. Starter \in Threads /\ pc[Starter] = "idle" /\ "done" \in PCs \ {"add", "schedule", "post"}
    BY <1>1 DEF Start, Threads, PCs
  <2>2. \A p \in Threads : pc[p] = "add" => task[p] \notin queue
    BY DEF AddInv
  <2>3. QED
    BY <1>1, <2>1, <2>2, SectionEnds DEF Start, Types, Scheduling, Constructed
<1>2. ASSUME NEW p \in Posters, ConstructTask(p)
      PROVE  CallInv'
  <2>1. PICK n \in Nums, d \in Delays :
            /\ now + d <= Horizon
            /\ \A m \in Nums : runTime[m] # Never <=> m < n
            /\ runTime' = [runTime EXCEPT ![n] = now + d]
            /\ task' = [task EXCEPT ![p] = n]
    BY <1>2 DEF ConstructTask
  <2>2. /\ p \in Threads
        /\ pc[p] = "idle" /\ pc' = [pc EXCEPT ![p] = "add"]
        /\ UNCHANGED <<now, started, queue, scheduled, wakeup, delay>>
    BY <1>2 DEF ConstructTask, Threads
  <2>3. runTime[n] = Never /\ now + d \in Times /\ now + d # Never
    BY <2>1, BoundsAssumption DEF Types, Nums, Times, Never
  <2>4. n \notin queue \cup scheduled /\ wakeup[n] = Never
    BY <2>3 DEF Constructed, WakeupInv
  <2>5. \A m \in Nums : m # n => runTime'[m] = runTime[m]
    BY <2>1 DEF Types
  <2>6. \A t \in Threads : t # p => pc'[t] = pc[t] /\ task'[t] = task[t]
    BY <2>1, <2>2 DEF Types
  <2>7. pc'[p] = "add" /\ task'[p] = n /\ runTime'[n] = now + d
    BY <2>1, <2>2 DEF Types
  <2>8. Types'
    BY <2>1, <2>2, <2>3 DEF Types, PCs
  <2>9. Constructed'
    BY <2>2, <2>4, <2>5 DEF Constructed, Types
  <2>10. AddInv'
    <3>1. \A t \in Threads : t # p /\ pc'[t] = "add" => task'[t] # n /\ runTime[task[t]] # Never
      BY <2>3, <2>6 DEF AddInv
    <3>2. \A t \in Threads : pc'[t] = "add" =>
            /\ task'[t] \in Nums
            /\ runTime'[task'[t]] # Never
            /\ task'[t] \notin queue' \cup scheduled'
      BY <3>1, <2>2, <2>3, <2>4, <2>5, <2>6, <2>7 DEF AddInv
    <3>3. \A t, u \in Threads : pc'[t] = "add" /\ pc'[u] = "add" /\ task'[t] = task'[u] => t = u
      BY <3>1, <2>6, <2>7 DEF AddInv
    <3>4. QED
      BY <3>2, <3>3 DEF AddInv
  <2>11. HoldInv' /\ DelayInv' /\ WakeupInv' /\ MarkedInv'
    <3>1. HoldInv'
      BY <2>2, <2>6, <2>7 DEF HoldInv, Scheduling
    <3>2. \A t \in Threads : Scheduling(t) => task[t] \in scheduled /\ task[t] # n /\ task[t] \in Nums
      BY <2>4 DEF HoldInv, Types
    <3>3. DelayInv'
      BY <3>2, <2>2, <2>5, <2>6, <2>7 DEF DelayInv, Scheduling
    <3>4. WakeupInv'
      BY <2>2, <2>4, <2>5 DEF WakeupInv
    <3>5. \A m \in queue \cap scheduled : CallOwed(m) => CallOwed(m)'
      BY <2>2, <2>6, <2>7 DEF CallOwed
    <3>6. MarkedInv'
      BY <3>5, <2>2 DEF MarkedInv
    <3>7. QED
      BY <3>1, <3>3, <3>4, <3>6
  <2>12. RipestInv'
    <3>1. \A m \in queue : Ripest(m, queue)' <=> Ripest(m, queue)
      BY <2>2, <2>4, <2>5 DEF Ripest, Before, Types
    <3>2. QED
      BY <3>1, <2>2 DEF RipestInv
  <2>13. QED
    BY <2>8, <2>9, <2>10, <2>11, <2>12
<1>3. ASSUME NEW p \in Posters, AddDelayedTask(p)
      PROVE  CallInv'
  <2>1. /\ p \in Threads /\ pc[p] = "add"
        /\ queue' = queue \cup {task[p]}
        /\ UNCHANGED <<now, started, runTime, wakeup, delay>>
    BY <1>3 DEF AddDelayedTask, Threads
  <2>2. /\ task[p] \in Nums /\ runTime[task[p]] # Never
        /\ task[p] \notin queue \cup scheduled
        /\ \A t \in Threads : pc[t] = "add" /\ t # p => task[t] \notin queue \cup {task[p]}
    BY <2>1 DEF AddInv
  <2>3. CASE /\ ~started /\ pc' = [pc EXCEPT ![p] = "idle"]
             /\ task' = [task EXCEPT ![p] = 0] /\ UNCHANGED scheduled
    <3>1. \A t \in Threads : t # p => pc'[t] = pc[t] /\ task'[t] = task[t]
      BY <2>3 DEF Types
    <3>2. pc'[p] = "idle" /\ task'[p] = 0
      BY <2>1, <2>3 DEF Types
    <3>3. Types'
      BY <2>1, <2>2, <2>3 DEF Types, PCs
    <3>4. Constructed' /\ AddInv' /\ HoldInv'
      BY <2>1, <2>2, <2>3, <3>1, <3>2 DEF Constructed, AddInv, HoldInv, Scheduling
    <3>5. DelayInv' /\ WakeupInv' /\ RipestInv'
      BY <2>1, <2>3, <3>1, <3>2 DEF DelayInv, WakeupInv, RipestInv
    <3>6. MarkedInv'
      BY <2>1, <2>2, <2>3, <3>1 DEF MarkedInv, CallOwed
    <3>7. QED
      BY <3>3, <3>4, <3>5, <3>6
  <2>4. CASE started /\ ScheduleRipest(p, queue', "idle")
    <3>1. queue \cup {task[p]} \in SUBSET Nums /\ ~Scheduling(p)
          /\ "idle" \in PCs \ {"add", "schedule", "post"}
      BY <2>1, <2>2 DEF Types, Scheduling, PCs
    <3>2. \A n \in queue \cup {task[p]} : runTime[n] # Never
      BY <2>2 DEF Constructed
    <3>3. \A n \in (queue \cup {task[p]}) \cap scheduled : n \in queue
      BY <2>2
    <3>4. QED
      BY <2>1, <2>2, <2>4, <3>1, <3>2, <3>3, SectionEnds DEF Types
  <2>5. QED
    BY <1>3, <2>3, <2>4 DEF AddDelayedTask
<1>4. ASSUME NEW t \in Threads, ComputeDelay(t)
      PROVE  CallInv'
  <2>1. /\ pc[t] = "schedule"
        /\ delay' = [delay EXCEPT ![t] = Larger(0, runTime[task[t]] - now)]
        /\ pc' = [pc EXCEPT ![t] = "post"]
        /\ UNCHANGED <<now, started, runTime, queue, scheduled, wakeup, task>>
    BY <1>4 DEF ComputeDelay
  <2>2. task[t] \in Nums /\ runTime[task[t]] \in Times /\ now \in Times
    BY <2>1 DEF HoldInv, Scheduling, Constructed, Types
  <2>3. /\ Larger(0, runTime[task[t]] - now) \in Times
        /\ Larger(0, runTime[task[t]] - now) >= runTime[task[t]] - now
    BY <2>2, BoundsAssumption DEF Larger, Times
  <2>4. Types'
    BY <2>1, <2>3 DEF Types, PCs
  <2>5. Constructed' /\ AddInv' /\ WakeupInv' /\ RipestInv' /\ HoldInv'
    BY <2>1 DEF Types, Constructed, AddInv, WakeupInv, RipestInv, HoldInv,
                Scheduling, Ripest, Before
  <2>6. DelayInv'
    BY <2>1, <2>3 DEF DelayInv, Types
  <2>7. MarkedInv'
    BY <2>1 DEF MarkedInv, CallOwed, Types
  <2>8. QED
    BY <2>4, <2>5, <2>6, <2>7
<1>5. ASSUME NEW t \in Threads, PostDelayedTask(t)
      PROVE  CallInv'
  <2>1. /\ pc[t] = "post"
        /\ wakeup' = [wakeup EXCEPT ![task[t]] = Smaller(now + delay[t], Horizon)]
        /\ pc' = [pc EXCEPT ![t] = AfterSchedule(t)]
        /\ task' = [task EXCEPT ![t] = 0]
        /\ delay' = [delay EXCEPT ![t] = 0]
        /\ UNCHANGED <<now, started, runTime, queue, scheduled>>
    BY <1>5 DEF PostDelayedTask
  <2>2. /\ task[t] \in Nums /\ runTime[task[t]] \in Times /\ now \in Times
        /\ delay[t] \in Times /\ delay[t] >= runTime[task[t]] - now
    BY <2>1 DEF HoldInv, DelayInv, Scheduling, Constructed, Types
  <2>3. /\ Smaller(now + delay[t], Horizon) \in Times
        /\ Smaller(now + delay[t], Horizon) >= runTime[task[t]]
        /\ 0 \in Times
    BY <2>2, BoundsAssumption DEF Smaller, Times
  <2>4. AfterSchedule(t) \in PCs \ {"add", "schedule", "post"}
    BY DEF AfterSchedule, PCs
  <2>5. Types'
    BY <2>1, <2>2, <2>3, <2>4 DEF Types
  <2>6. \A u \in Threads : u # t => pc'[u] = pc[u] /\ task'[u] = task[u] /\ delay'[u] = delay[u]
    BY <2>1 DEF Types
  <2>7. pc'[t] \in PCs \ {"add", "schedule", "post"} /\ wakeup'[task[t]] # Never
    BY <2>1, <2>2, <2>3, <2>4, NeverIsNoTime DEF Types
  <2>8. Constructed' /\ AddInv' /\ HoldInv' /\ DelayInv'
    <3>1. Constructed' /\ AddInv'
      BY <2>1, <2>6, <2>7 DEF Constructed, AddInv
    <3>2. HoldInv' /\ DelayInv'
      BY <2>1, <2>6, <2>7 DEF HoldInv, DelayInv, Scheduling
    <3>3. QED
      BY <3>1, <3>2
  <2>9. WakeupInv'
    BY <2>1, <2>2, <2>3, NeverIsNoTime DEF WakeupInv, Types
  <2>10. MarkedInv'
    <3>. SUFFICES ASSUME NEW n \in queue \cap scheduled
                  PROVE  CallOwed(n)'
      BY <2>1 DEF MarkedInv
    <3>1. CASE n = task[t]
      BY <3>1, <2>7 DEF CallOwed
    <3>2. CASE n # task[t]
      <4>1. wakeup'[n] = wakeup[n]
        BY <3>2, <2>1 DEF Types
      <4>2. CallOwed(n)
        BY DEF MarkedInv
      <4>3. \A u \in Threads : task[u] = n => u # t
        BY <3>2
      <4>4. QED
        BY <4>1, <4>2, <4>3, <2>6 DEF CallOwed
    <3>3. QED
      BY <3>1, <3>2
  <2>11. RipestInv'
    BY <2>1 DEF RipestInv, Ripest, Before
  <2>12. QED
    BY <2>5, <2>8, <2>9, <2>10, <2>11
<1>6. CASE ProcessRipeTasks
  <2>1. PICK n \in Nums : /\ wakeup[n] # Never /\ wakeup[n] <= now
                          /\ wakeup' = [wakeup EXCEPT ![n] = Never]
    BY <1>6 DEF ProcessRipeTasks
  <2>2. /\ Service \in Threads /\ pc[Service] = "idle"
        /\ queue' = {m \in queue : runTime[m] > now}
        /\ ScheduleRipest(Service, queue', "forward")
        /\ UNCHANGED <<now, started, runTime, delay>>
    BY <1>6 DEF ProcessRipeTasks, Threads
  <2>. DEFINE q == {m \in queue : runTime[m] > now}
  <2>3. runTime[n] \in Times /\ wakeup[n] \in Times /\ wakeup[n] >= runTime[n]
    BY <2>1 DEF WakeupInv, Types
  <2>4. n \notin q
    BY <2>1, <2>3 DEF Types, Times
  <2>5. wakeup' \in [Nums -> Times \cup {Never}]
    BY <2>1 DEF Types
  <2>6. \A m \in Nums : wakeup'[m] = wakeup[m] \/ (wakeup'[m] = Never /\ m \notin q)
    BY <2>1, <2>4 DEF Types
  <2>7. /\ q \in SUBSET Nums /\ q \subseteq queue /\ queue' = q /\ ~Scheduling(Service)
        /\ "forward" \in PCs \ {"add", "schedule", "post"}
    BY <2>2 DEF Types, Scheduling, PCs
  <2>8. \A p \in Threads : pc[p] = "add" => task[p] \notin q
    BY <2>7 DEF AddInv
  <2>9. \A m \in q : runTime[m] # Never
    BY <2>7 DEF Constructed
  <2>10. ScheduleRipest(Service, q, "forward")
    BY <2>2
  <2>11. /\ \A m \in Nums : runTime'[m] = runTime[m]
         /\ runTime' \in [Nums -> Times \cup {Never}]
         /\ started' \in BOOLEAN
    BY <2>2 DEF Types
  <2>12. \A m \in q \cap scheduled : m \in queue
    BY <2>7
  <2>. HIDE DEF q
  <2>13. QED
    BY <2>2, <2>5, <2>6, <2>7, <2>8, <2>9, <2>10, <2>11, <2>12, SectionEnds
<1>7. CASE Forward
  <2>1. /\ pc[Service] = "forward" /\ Service \in Threads
        /\ pc' = [pc EXCEPT ![Service] = "idle"] \/ pc' = pc
        /\ UNCHANGED <<now, started, runTime, queue, scheduled, wakeup, task, delay>>
    BY <1>7 DEF Forward, Threads
  <2>2. \A t \in Threads : pc'[t] = pc[t] \/ (pc[t] = "forward" /\ pc'[t] = "idle")
    BY <2>1 DEF Types
  <2>3. Types'
    BY <2>1 DEF Types, PCs
  <2>4. Constructed' /\ AddInv' /\ HoldInv' /\ DelayInv' /\ WakeupInv' /\ RipestInv'
    BY <2>1, <2>2 DEF Constructed, AddInv, HoldInv, Scheduling, DelayInv,
                      WakeupInv, RipestInv, Ripest, Before
  <2>5. MarkedInv'
    BY <2>1, <2>2 DEF MarkedInv, CallOwed
  <2>6. QED
    BY <2>3, <2>4, <2>5
<1>8. CASE Tick
  <2>1. /\ now' = now + 1 /\ now < Horizon
        /\ UNCHANGED <<started, runTime, queue, scheduled, wakeup, pc, task, delay>>
    BY <1>8 DEF Tick
  <2>2. Types'
    BY <2>1, BoundsAssumption DEF Types, Times
  <2>3. DelayInv'
    <3>. SUFFICES ASSUME NEW t \in Threads, pc[t] = "post"
                  PROVE  delay[t] >= runTime[task[t]] - (now + 1)
      BY <2>1 DEF DelayInv
    <3>1. runTime[task[t]] \in Times
      BY DEF HoldInv, Scheduling, Constructed, Types
    <3>2. delay[t] >= runTime[task[t]] - now /\ delay[t] \in Times /\ now \in Times
      BY DEF DelayInv, Types
    <3>3. QED
      BY <3>1, <3>2, BoundsAssumption DEF Times
  <2>4. Constructed' /\ AddInv' /\ HoldInv' /\ WakeupInv' /\ RipestInv' /\ MarkedInv'
    BY <2>1 DEF Constructed, AddInv, HoldInv, Scheduling, WakeupInv, RipestInv,
                Ripest, Before, MarkedInv, CallOwed
  <2>5. QED
    BY <2>2, <2>3, <2>4
<1>9. CASE UNCHANGED vars
  BY <1>9 DEF vars, Types, Constructed, AddInv, HoldInv, Scheduling, DelayInv,
              WakeupInv, RipestInv, Ripest, Before, MarkedInv, CallOwed
<1>10. QED
  BY <1>1, <1>2, <1>3, <1>4, <1>5, <1>6, <1>7, <1>8, <1>9 DEF Next, ThreadStep

-----------------------------------------------------------------------------
(* What the sequences hold.                                                  *)

Sequences ==
    /\ batch \in Seq(Nums)
    /\ added \in Seq(Nums)
    /\ forwarded \in Seq(Nums)

LEMMA SequencesStay == CallInv /\ Sequences /\ [Next]_vars => Sequences'
<1>. SUFFICES ASSUME CallInv, Sequences, [Next]_vars
              PROVE  Sequences'
  OBVIOUS
<1>. USE DEF Sequences
<1>1. ASSUME NEW p \in Posters, AddDelayedTask(p)
      PROVE  Sequences'
  <2>1. task[p] \in Nums
    BY <1>1 DEF AddDelayedTask, CallInv, AddInv, Threads
  <2>2. QED
    BY <1>1, <2>1 DEF AddDelayedTask
<1>2. CASE ProcessRipeTasks
  <2>1. PICK len \in 0..MaxTasks : \E s \in [1..len -> queue] : batch' = s
    BY <1>2 DEF ProcessRipeTasks
  <2>2. batch' \in [1..len -> Nums] /\ len \in Nat
    BY <2>1, BoundsAssumption DEF CallInv, Types
  <2>3. batch' \in Seq(Nums)
    BY <2>2
  <2>4. QED
    BY <1>2, <2>3 DEF ProcessRipeTasks
<1>3. CASE Forward
  <2>1. CASE batch = <<>>
    BY <1>3, <2>1 DEF Forward
  <2>2. CASE batch # <<>>
    <3>1. Head(batch) \in Nums /\ Tail(batch) \in Seq(Nums)
      BY <2>2
    <3>2. /\ batch' = Tail(batch) /\ forwarded' = Append(forwarded, Head(batch))
          /\ UNCHANGED added
      BY <1>3, <2>2 DEF Forward
    <3>3. Append(forwarded, Head(batch)) \in Seq(Nums)
      BY <3>1
    <3>4. QED
      BY <3>1, <3>2, <3>3
  <2>3. QED
    BY <2>1, <2>2
<1>4. CASE Start \/ Tick \/ UNCHANGED vars
  BY <1>4 DEF Start, Tick, vars
<1>5. ASSUME NEW p \in Posters, ConstructTask(p)
      PROVE  Sequences'
  BY <1>5 DEF ConstructTask
<1>6. ASSUME NEW t \in Threads, ThreadStep(t)
      PROVE  Sequences'
  BY <1>6 DEF ThreadStep, ComputeDelay, PostDelayedTask
<1>7. QED
  BY <1>1, <1>2, <1>3, <1>4, <1>5, <1>6 DEF Next

-----------------------------------------------------------------------------
(* The order in which tasks are forwarded.                                   *)

In(n, s) == \E i \in DOMAIN s : s[i] = n

\* The service thread holds ripe tasks only within a call.
BatchInv == pc[Service] = "idle" => batch = <<>>

\* Tasks that were added stay what they were; what was popped has left the
\* queue, and what is on its way there was in none of the sequences.
AddedInv ==
    /\ \A n : In(n, added) \/ In(n, batch) \/ In(n, forwarded) =>
          n \in Nums /\ runTime[n] # Never
    /\ \A n : In(n, batch) \/ In(n, forwarded) => n \notin queue
    /\ \A t \in Threads : pc[t] = "add" =>
          ~In(task[t], added) /\ ~In(task[t], batch) /\ ~In(task[t], forwarded)

\* The batch is sorted.
SortedInv ==
    \A i, j \in DOMAIN batch : i < j => batch[i] # batch[j] /\ Before(batch[i], batch[j])

AddedFirst(m, n) == \E k, l \in DOMAIN added : k < l /\ added[k] = m /\ added[l] = n

\* A task that was added first and is to run first is the first to leave the
\* queue, and the batch, or leaves them with the other one.
OrderInv ==
    \A m, n : AddedFirst(m, n) /\ Before(m, n) =>
        /\ m \in queue => n \in queue
        /\ In(m, batch) => ~In(n, forwarded)
        /\ \A i, j \in DOMAIN forwarded : forwarded[j] = m /\ forwarded[i] = n => j <= i

ForwardInv == CallInv /\ Sequences /\ BatchInv /\ AddedInv /\ SortedInv /\ OrderInv

LEMMA OrderIsKept == ForwardInv => ForwardedInOrder
BY DEF ForwardInv, OrderInv, AddedFirst, ForwardedInOrder

-----------------------------------------------------------------------------
LEMMA InAppend ==
    ASSUME NEW s \in Seq(Nums), NEW x \in Nums, NEW n
    PROVE  In(n, Append(s, x)) <=> In(n, s) \/ n = x
<1>1. /\ DOMAIN s = 1..Len(s) /\ DOMAIN Append(s, x) = 1..(Len(s) + 1) /\ Len(s) \in Nat
      /\ \A i \in DOMAIN s : Append(s, x)[i] = s[i]
      /\ Append(s, x)[Len(s) + 1] = x
  OBVIOUS
<1>2. \A i \in DOMAIN Append(s, x) : i \in DOMAIN s \/ i = Len(s) + 1
  BY <1>1
<1>3. DOMAIN s \subseteq DOMAIN Append(s, x) /\ Len(s) + 1 \in DOMAIN Append(s, x)
  BY <1>1
<1>. QED
  BY <1>1, <1>2, <1>3 DEF In

LEMMA InTail ==
    ASSUME NEW s \in Seq(Nums), s # <<>>, NEW n
    PROVE  In(n, s) <=> In(n, Tail(s)) \/ n = Head(s)
<1>1. /\ DOMAIN s = 1..Len(s) /\ DOMAIN Tail(s) = 1..(Len(s) - 1) /\ Len(s) \in Nat \ {0}
      /\ Head(s) = s[1]
  OBVIOUS
<1>2. \A i \in DOMAIN Tail(s) : Tail(s)[i] = s[i + 1] /\ i + 1 \in DOMAIN s
  BY <1>1
<1>3. \A i \in DOMAIN s : i # 1 => i - 1 \in DOMAIN Tail(s) /\ Tail(s)[i - 1] = s[i]
  BY <1>1
<1>4. 1 \in DOMAIN s
  BY <1>1
<1>. QED
  BY <1>1, <1>2, <1>3, <1>4 DEF In

LEMMA BeforeIsAntisymmetric ==
    ASSUME NEW m \in Nums, NEW n \in Nums, Types, runTime[m] # Never, runTime[n] # Never,
           Before(m, n), Before(n, m)
    PROVE  m = n
BY BoundsAssumption DEF Before, Types, Nums, Times

\* Steps that neither construct tasks nor change the queue or the sequences.
LEMMA QuietSteps ==
    ASSUME ForwardInv, UNCHANGED <<runTime, queue, batch, added, forwarded>>,
           \A t \in Threads : pc'[t] = "add" => pc[t] = "add" /\ task'[t] = task[t]
    PROVE  AddedInv' /\ SortedInv' /\ OrderInv'
<1>. USE DEF ForwardInv
<1>1. \A m, n : Before(m, n)' <=> Before(m, n)
  BY DEF Before
<1>2. AddedInv'
  BY DEF AddedInv, In
<1>3. SortedInv'
  BY <1>1 DEF SortedInv
<1>4. OrderInv'
  BY <1>1 DEF OrderInv, AddedFirst, In
<1>. QED
  BY <1>2, <1>3, <1>4

LEMMA AddingKeepsOrder ==
    ASSUME ForwardInv, NEW p \in Posters, AddDelayedTask(p)
    PROVE  AddedInv' /\ SortedInv' /\ OrderInv'
<1>. USE DEF ForwardInv
<1>1. /\ p \in Threads /\ pc[p] = "add" /\ queue' = queue \cup {task[p]}
      /\ added' = Append(added, task[p]) /\ UNCHANGED <<runTime, batch, forwarded>>
      /\ pc \in [Threads -> PCs]
  BY DEF AddDelayedTask, Threads, CallInv, Types
<1>2. PICK n \in Nums : n = task[p] /\ runTime[n] # Never /\ n \notin queue
  BY <1>1 DEF CallInv, AddInv
<1>3. ~In(n, added) /\ ~In(n, batch) /\ ~In(n, forwarded)
  BY <1>1, <1>2 DEF AddedInv
<1>4. \A t \in Threads : pc'[t] = "add" => /\ pc[t] = "add" /\ task'[t] = task[t]
                                           /\ task[t] # n
  <2>1. \A t \in Threads : pc'[t] = "add" => t # p /\ pc[t] = "add" /\ task'[t] = task[t]
    BY <1>1 DEF AddDelayedTask, ScheduleRipest, CallInv, Types
  <2>2. QED
    BY <1>1, <1>2, <2>1 DEF CallInv, AddInv
<1>5. \A m : In(m, added') <=> In(m, added) \/ m = n
  BY <1>1, <1>2, InAppend DEF Sequences
<1>6. \A m : (In(m, batch') <=> In(m, batch)) /\ (In(m, forwarded') <=> In(m, forwarded))
  BY <1>1 DEF In
<1>7. \A l, m : Before(l, m)' <=> Before(l, m)
  BY <1>1 DEF Before
<1>8. AddedInv'
  BY <1>1, <1>2, <1>3, <1>4, <1>5, <1>6 DEF AddedInv
<1>9. SortedInv'
  BY <1>1, <1>7 DEF SortedInv
<1>10. ASSUME NEW l, NEW m, AddedFirst(l, m)', Before(l, m)
       PROVE  /\ l \in queue' => m \in queue'
              /\ In(l, batch') => ~In(m, forwarded')
              /\ \A i, j \in DOMAIN forwarded' : forwarded'[j] = l /\ forwarded'[i] = m => j <= i
  <2>1. AddedFirst(l, m) \/ m = n
    BY <1>1, <1>2, <1>10 DEF AddedFirst, Sequences
  <2>2. CASE m = n
    BY <1>1, <1>2, <1>3, <2>2 DEF In
  <2>3. CASE AddedFirst(l, m) /\ m # n
    <3>1. l # n
      BY <1>3, <2>3 DEF AddedFirst, In
    <3>2. QED
      BY <1>1, <1>2, <1>6, <1>10, <2>3, <3>1 DEF OrderInv
  <2>4. QED
    BY <2>1, <2>2, <2>3
<1>11. OrderInv'
  BY <1>7, <1>10 DEF OrderInv
<1>12. QED
  BY <1>8, <1>9, <1>11

LEMMA ConstructingKeepsOrder ==
    ASSUME ForwardInv, NEW p \in Posters, ConstructTask(p)
    PROVE  AddedInv' /\ SortedInv' /\ OrderInv'
<1>. USE DEF ForwardInv
<1>1. PICK n \in Nums, d \in Delays :
          /\ now + d <= Horizon /\ \A m \in Nums : runTime[m] # Never <=> m < n
          /\ runTime' = [runTime EXCEPT ![n] = now + d] /\ task' = [task EXCEPT ![p] = n]
  BY DEF ConstructTask
<1>2. /\ runTime[n] = Never /\ pc' = [pc EXCEPT ![p] = "add"] /\ p \in Threads
      /\ UNCHANGED <<queue, batch, added, forwarded>>
      /\ runTime \in [Nums -> Times \cup {Never}] /\ task \in [Threads -> Nums \cup {0}]
      /\ pc \in [Threads -> PCs]
  BY <1>1 DEF ConstructTask, CallInv, Types, Nums, Threads
<1>3. ~In(n, added) /\ ~In(n, batch) /\ ~In(n, forwarded)
  BY <1>2 DEF AddedInv
<1>4. \A m \in Nums : m # n => runTime'[m] = runTime[m]
  BY <1>1, <1>2
<1>5. \A m : /\ In(m, batch') <=> In(m, batch)
             /\ In(m, forwarded') <=> In(m, forwarded)
             /\ In(m, added') <=> In(m, added)
  BY <1>2 DEF In
<1>6. AddedInv'
  <2>1. \A m : In(m, added) \/ In(m, batch) \/ In(m, forwarded) =>
           m \in Nums /\ runTime'[m] # Never
    BY <1>3, <1>4 DEF AddedInv
  <2>2. \A t \in Threads : pc'[t] = "add" =>
           ~In(task'[t], added) /\ ~In(task'[t], batch) /\ ~In(task'[t], forwarded)
    BY <1>1, <1>2, <1>3 DEF AddedInv
  <2>3. QED
    BY <1>2, <1>5, <2>1, <2>2 DEF AddedInv
<1>7. ASSUME NEW l, NEW m, l \in Nums, m \in Nums, l # n, m # n
      PROVE  Before(l, m)' <=> Before(l, m)
  BY <1>4, <1>7 DEF Before
<1>8. SortedInv'
  <2>1. \A i \in DOMAIN batch : batch[i] \in Nums /\ batch[i] # n
    BY <1>3 DEF In, AddedInv
  <2>2. QED
    BY <1>2, <1>7, <2>1 DEF SortedInv
<1>9. OrderInv'
  <2>1. \A l, m : AddedFirst(l, m) => l \in Nums /\ m \in Nums /\ l # n /\ m # n
    BY <1>3 DEF AddedFirst, AddedInv, In
  <2>2. \A l, m : AddedFirst(l, m)' <=> AddedFirst(l, m)
    BY <1>2 DEF AddedFirst
  <2>3. QED
    BY <1>2, <1>5, <1>7, <2>1, <2>2 DEF OrderInv
<1>10. QED
  BY <1>6, <1>8, <1>9

LEMMA PoppingKeepsOrder ==
    ASSUME ForwardInv, ProcessRipeTasks
    PROVE  AddedInv' /\ SortedInv' /\ OrderInv'
<1>. USE DEF ForwardInv
<1>1. /\ queue' = {n \in queue : runTime[n] > now}
      /\ UNCHANGED <<now, runTime, added, forwarded>>
      /\ queue \subseteq Nums /\ runTime \in [Nums -> Times \cup {Never}] /\ now \in Times
      /\ pc \in [Threads -> PCs]
  BY DEF ProcessRipeTasks, CallInv, Types
<1>2. RipeInOrder(batch')
  BY DEF ProcessRipeTasks
<1>3. \A m : In(m, batch') <=> m \in queue /\ runTime[m] <= now
  BY <1>2 DEF RipeInOrder, In
<1>4. \A t \in Threads : pc'[t] = "add" => pc[t] = "add" /\ task'[t] = task[t]
  BY <1>1 DEF ProcessRipeTasks, ScheduleRipest, CallInv, Types
<1>5. \A m : (In(m, added') <=> In(m, added)) /\ (In(m, forwarded') <=> In(m, forwarded))
  BY <1>1 DEF In
<1>6. AddedInv'
  <2>1. \A m : In(m, batch') => m \in Nums /\ runTime[m] # Never /\ m \notin queue'
    BY <1>1, <1>3, BoundsAssumption DEF CallInv, Constructed, Times
  <2>2. \A t \in Threads : pc'[t] = "add" => ~In(task'[t], batch')
    BY <1>3, <1>4 DEF CallInv, AddInv
  <2>3. QED
    BY <1>1, <1>4, <1>5, <2>1, <2>2 DEF AddedInv
<1>7. SortedInv'
  BY <1>1, <1>2 DEF RipeInOrder, SortedInv, Before
<1>8. ASSUME NEW l, NEW m, AddedFirst(l, m), Before(l, m)
      PROVE  /\ l \in queue' => m \in queue'
             /\ In(l, batch') => ~In(m, forwarded)
  <2>1. /\ l \in queue => m \in queue
        /\ l \in queue => ~In(m, forwarded)
    BY <1>8 DEF OrderInv, AddedInv
  <2>2. ASSUME l \in queue'
        PROVE  m \in queue'
    <3>1. l \in queue /\ m \in queue /\ runTime[l] > now
      BY <1>1, <2>1, <2>2
    <3>2. runTime[l] \in Int /\ runTime[m] \in Int /\ now \in Int
      BY <1>1, <3>1, NeverIsNoTime DEF Times, Never
    <3>3. runTime[m] > now
      BY <1>8, <3>1, <3>2 DEF Before
    <3>4. QED
      BY <1>1, <3>1, <3>3
  <2>3. QED
    BY <1>3, <2>1, <2>2
<1>9. OrderInv'
  <2>1. \A l, m : (AddedFirst(l, m)' <=> AddedFirst(l, m)) /\ (Before(l, m)' <=> Before(l, m))
    BY <1>1 DEF AddedFirst, Before
  <2>2. QED
    BY <1>1, <1>5, <1>8, <2>1 DEF OrderInv
<1>10. QED
  BY <1>6, <1>7, <1>9

LEMMA ForwardingKeepsOrder ==
    ASSUME ForwardInv, Forward
    PROVE  AddedInv' /\ SortedInv' /\ OrderInv'
<1>. USE DEF ForwardInv
<1>1. /\ UNCHANGED <<now, runTime, queue, task, added>>
      /\ \A t \in Threads : pc'[t] = "add" => pc[t] = "add"
  BY DEF Forward, CallInv, Types
<1>2. CASE batch = <<>>
  BY <1>1, <1>2, QuietSteps DEF Forward
<1>3. CASE batch # <<>>
  <2>1. PICK h \in Nums : h = Head(batch)
    BY <1>3 DEF Sequences
  <2>2. batch' = Tail(batch) /\ forwarded' = Append(forwarded, h)
    BY <1>3, <2>1 DEF Forward
  <2>3. \A n : /\ In(n, added') <=> In(n, added)
               /\ In(n, batch) <=> In(n, batch') \/ n = h
               /\ In(n, forwarded') <=> In(n, forwarded) \/ n = h
    BY <1>1, <1>3, <2>1, <2>2, InAppend, InTail DEF Sequences
  <2>4. \A m, n : Before(m, n)' <=> Before(m, n)
    BY <1>1 DEF Before
  <2>5. AddedInv'
    BY <1>1, <2>3 DEF AddedInv
  <2>6. /\ batch \in Seq(Nums) /\ Len(batch) \in Nat \ {0} /\ h = batch[1]
        /\ DOMAIN batch = 1..Len(batch) /\ DOMAIN batch' = 1..(Len(batch) - 1)
        /\ \A i \in DOMAIN batch' : batch'[i] = batch[i + 1]
    BY <1>3, <2>1, <2>2 DEF Sequences
  <2>7. SortedInv'
    <3>1. \A i, j \in DOMAIN batch' : i < j =>
             i + 1 \in DOMAIN batch /\ j + 1 \in DOMAIN batch /\ i + 1 < j + 1
      BY <2>6
    <3>2. QED
      BY <2>4, <2>6, <3>1 DEF SortedInv
  <2>8. \A n : In(n, batch') => Before(h, n) /\ n # h
    <3>1. \A i \in DOMAIN batch' : 1 \in DOMAIN batch /\ i + 1 \in DOMAIN batch /\ 1 < i + 1
      BY <2>6
    <3>2. QED
      BY <2>6, <3>1 DEF SortedInv, In
  <2>9. ASSUME NEW m, NEW n, AddedFirst(m, n), Before(m, n)
        PROVE  /\ m \in queue => n \in queue
               /\ In(m, batch') => ~In(n, forwarded')
               /\ \A i, j \in DOMAIN forwarded' :
                     forwarded'[j] = m /\ forwarded'[i] = n => j <= i
    <3>1. /\ m \in queue => n \in queue
          /\ In(m, batch) => ~In(n, forwarded)
          /\ \A i, j \in DOMAIN forwarded : forwarded[j] = m /\ forwarded[i] = n => j <= i
      BY <2>9 DEF OrderInv
    <3>2. ASSUME In(m, batch')
          PROVE  n # h
      <4>1. m \in Nums /\ runTime[m] # Never /\ runTime[h] # Never
        BY <2>3, <3>2 DEF AddedInv
      <4>2. QED
        BY <2>1, <2>8, <2>9, <3>2, <4>1, BeforeIsAntisymmetric DEF CallInv
    <3>3. ASSUME NEW i \in DOMAIN forwarded', NEW j \in DOMAIN forwarded',
                 forwarded'[j] = m, forwarded'[i] = n
          PROVE  j <= i
      <4>1. /\ forwarded \in Seq(Nums) /\ Len(forwarded) \in Nat
            /\ DOMAIN forwarded = 1..Len(forwarded)
            /\ DOMAIN forwarded' = 1..(Len(forwarded) + 1)
            /\ \A k \in DOMAIN forwarded : forwarded'[k] = forwarded[k]
            /\ forwarded'[Len(forwarded) + 1] = h
        BY <2>1, <2>2 DEF Sequences
      <4>2. CASE i = Len(forwarded) + 1
        BY <4>1, <4>2
      <4>3. CASE i # Len(forwarded) + 1
        <5>1. i \in DOMAIN forwarded /\ forwarded[i] = n
          BY <3>3, <4>1, <4>3
        <5>2. m # h
          BY <2>3, <3>1, <5>1 DEF In
        <5>3. j \in DOMAIN forwarded /\ forwarded[j] = m
          BY <3>3, <4>1, <5>2
        <5>4. QED
          BY <3>1, <5>1, <5>3
      <4>4. QED
        BY <4>2, <4>3
    <3>4. QED
      BY <2>3, <3>1, <3>2, <3>3
  <2>10. OrderInv'
    <3>1. \A m, n : AddedFirst(m, n)' <=> AddedFirst(m, n)
      BY <1>1 DEF AddedFirst
    <3>2. QED
      BY <1>1, <2>4, <2>9, <3>1 DEF OrderInv
  <2>11. QED
    BY <2>5, <2>7, <2>10
<1>4. QED
  BY <1>2, <1>3

LEMMA StepsKeepForwardInv == ForwardInv /\ [Next]_vars => ForwardInv'
<1>. SUFFICES ASSUME ForwardInv, [Next]_vars
              PROVE  BatchInv' /\ AddedInv' /\ SortedInv' /\ OrderInv'
  BY StepsPreserveCallInv, SequencesStay DEF ForwardInv
<1>0. Types /\ BatchInv /\ pc \in [Threads -> PCs] /\ Service \in Threads /\ Starter \in Threads
  BY DEF ForwardInv, CallInv, Types, Threads
<1>1. BatchInv'
  <2>1. ASSUME NEW p \in Posters, ConstructTask(p) \/ AddDelayedTask(p)
        PROVE  UNCHANGED batch /\ pc'[Service] = pc[Service]
    BY <1>0, <2>1, ThreadsAssumption DEF ConstructTask, AddDelayedTask, ScheduleRipest
  <2>2. ASSUME NEW t \in Threads, ThreadStep(t)
        PROVE  UNCHANGED batch /\ (pc'[Service] = "idle" => pc[Service] = "idle")
    BY <1>0, <2>2, ThreadsAssumption
    DEF ThreadStep, ComputeDelay, PostDelayedTask, AfterSchedule
  <2>3. CASE Start
    BY <1>0, <2>3, ThreadsAssumption DEF Start, ScheduleRipest, BatchInv
  <2>4. CASE ProcessRipeTasks
    BY <1>0, <2>4 DEF ProcessRipeTasks, ScheduleRipest, BatchInv
  <2>5. CASE Forward
    BY <1>0, <2>5 DEF Forward, BatchInv
  <2>6. CASE Tick \/ UNCHANGED vars
    BY <1>0, <2>6 DEF Tick, vars, BatchInv
  <2>7. QED
    BY <1>0, <2>1, <2>2, <2>3, <2>4, <2>5, <2>6 DEF Next, BatchInv
<1>2. AddedInv' /\ SortedInv' /\ OrderInv'
  <2>1. ASSUME NEW t \in Threads, ThreadStep(t)
        PROVE  AddedInv' /\ SortedInv' /\ OrderInv'
    <3>1. /\ UNCHANGED <<runTime, queue, batch, added, forwarded>>
          /\ \A u \in Threads : pc'[u] = "add" => pc[u] = "add" /\ task'[u] = task[u]
      BY <1>0, <2>1 DEF ThreadStep, ComputeDelay, PostDelayedTask, AfterSchedule, Types
    <3>2. QED
      BY <3>1, QuietSteps
  <2>2. CASE Start
    <3>1. /\ UNCHANGED <<runTime, queue, batch, added, forwarded>>
          /\ \A u \in Threads : pc'[u] = "add" => pc[u] = "add" /\ task'[u] = task[u]
      BY <1>0, <2>2 DEF Start, ScheduleRipest, Types
    <3>2. QED
      BY <3>1, QuietSteps
  <2>3. CASE Tick \/ UNCHANGED vars
    BY <2>3, QuietSteps DEF Tick, vars
  <2>4. QED
    BY <2>1, <2>2, <2>3, AddingKeepsOrder, ConstructingKeepsOrder, PoppingKeepsOrder,
       ForwardingKeepsOrder DEF Next
<1>3. QED
  BY <1>1, <1>2

LEMMA ForwardInvInitially == Init => ForwardInv
<1>1. Init => Sequences /\ BatchInv /\ AddedInv /\ SortedInv /\ OrderInv
  BY DEF Init, Sequences, BatchInv, AddedInv, SortedInv, OrderInv, AddedFirst, In
<1>2. QED
  BY <1>1, Initially DEF ForwardInv

-----------------------------------------------------------------------------
(* The theorems.                                                             *)

LEMMA Inductive == Spec => []CallInv
<1>1. QED
  BY Initially, StepsPreserveCallInv, PTL DEF Spec

\* RipestHasCall holds for any number of threads and tasks: no task that is to
\* run first waits without a call of ProcessRipeTasks that will take it.
THEOREM NoLostCall == Spec => []RipestHasCall
<1>1. CallInv => RipestHasCall
  BY DEF CallInv, RipestHasCall, RipestInv, MarkedInv
<1>2. QED
  BY <1>1, Inductive, PTL

\* CallsNotEarly: a call of ProcessRipeTasks is never due before the run time
\* of the task it was scheduled for, whenever the clock is read on the way
\* (delayed_task_manager.cpp:150).
CallsNotEarly == \A n \in Nums : wakeup[n] # Never => wakeup[n] >= runTime[n]

\* It is what NoLostCall rests on: an early call would leave the ripest task
\* marked and without another.
THEOREM NoEarlyCall == Spec => []CallsNotEarly
<1>1. CallInv => CallsNotEarly
  BY DEF CallInv, CallsNotEarly, WakeupInv
<1>2. QED
  BY <1>1, Inductive, PTL

\* ForwardedInOrder holds for any number of posters, tasks and delays: neither
\* the calls that riper tasks schedule, nor the batches, nor additions that
\* race with them reorder two tasks that were added in the order they are due.
THEOREM NoReordering == Spec => []ForwardedInOrder
BY ForwardInvInitially, StepsKeepForwardInv, OrderIsKept, PTL DEF Spec

\* NoneLostNorTwice: a task that was added is queued, or popped, or forwarded,
\* and nothing else is; none is forwarded twice (delayed_task_manager.cpp:99).
NoneLostNorTwice ==
    /\ \A n : In(n, added) <=> n \in queue \/ In(n, batch) \/ In(n, forwarded)
    /\ \A n : In(n, batch) => ~In(n, forwarded)
    /\ \A i, j \in DOMAIN forwarded : forwarded[i] = forwarded[j] => i = j

\* Together with the queue, the batch and what was forwarded are what was added.
THEOREM AddedIsForwardedOnce == Spec => []NoneLostNorTwice
<1>1. Init => ForwardInv /\ NoneLostNorTwice
  BY ForwardInvInitially DEF Init, NoneLostNorTwice, In
<1>2. ForwardInv /\ NoneLostNorTwice /\ [Next]_vars => NoneLostNorTwice'
  <2>. SUFFICES ASSUME ForwardInv, NoneLostNorTwice, [Next]_vars
                PROVE  NoneLostNorTwice'
    OBVIOUS
  <2>. USE DEF ForwardInv
  <2>1. ASSUME UNCHANGED <<queue, batch, added, forwarded>>
        PROVE  NoneLostNorTwice'
    BY <2>1 DEF NoneLostNorTwice, In
  <2>2. ASSUME NEW p \in Posters, AddDelayedTask(p)
        PROVE  NoneLostNorTwice'
    <3>1. PICK n \in Nums : n = task[p]
      BY <2>2 DEF AddDelayedTask, CallInv, AddInv, Threads
    <3>2. /\ queue' = queue \cup {n} /\ added' = Append(added, n)
          /\ UNCHANGED <<batch, forwarded>>
      BY <2>2, <3>1 DEF AddDelayedTask
    <3>3. \A m : In(m, added') <=> In(m, added) \/ m = n
      BY <3>2, InAppend DEF Sequences
    <3>4. QED
      BY <3>2, <3>3 DEF NoneLostNorTwice
  <2>3. CASE ProcessRipeTasks
    <3>1. /\ queue' = {n \in queue : runTime[n] > now} /\ UNCHANGED <<added, forwarded>>
          /\ RipeInOrder(batch') /\ batch = <<>>
      BY <2>3 DEF ProcessRipeTasks, BatchInv
    <3>2. \A m : (In(m, batch') <=> m \in queue /\ runTime[m] <= now) /\ ~In(m, batch)
      BY <3>1 DEF RipeInOrder, In
    <3>3. \A m \in queue : m \in queue' \/ runTime[m] <= now
      <4>1. \A m \in queue : runTime[m] \in Int /\ now \in Int
        BY BoundsAssumption DEF CallInv, Types, Times, Never
      <4>2. QED
        BY <3>1, <4>1
    <3>4. \A m \in queue : ~In(m, forwarded)
      BY DEF AddedInv
    <3>5. QED
      BY <3>1, <3>2, <3>3, <3>4 DEF NoneLostNorTwice
  <2>4. CASE Forward /\ batch # <<>>
    <3>1. PICK h \in Nums : h = Head(batch)
      BY <2>4 DEF Sequences
    <3>2. /\ batch' = Tail(batch) /\ forwarded' = Append(forwarded, h)
          /\ UNCHANGED <<queue, added>>
      BY <2>4, <3>1 DEF Forward
    <3>3. \A n : /\ In(n, batch) <=> In(n, batch') \/ n = h
                 /\ In(n, forwarded') <=> In(n, forwarded) \/ n = h
      BY <2>4, <3>1, <3>2, InAppend, InTail DEF Sequences
    <3>4. ~In(h, batch') /\ ~In(h, forwarded)
      <4>1. ~In(h, forwarded)
        BY <3>3 DEF NoneLostNorTwice
      <4>2. /\ batch \in Seq(Nums) /\ Len(batch) \in Nat \ {0} /\ h = batch[1]
            /\ DOMAIN batch = 1..Len(batch) /\ DOMAIN batch' = 1..(Len(batch) - 1)
            /\ \A i \in DOMAIN batch' : batch'[i] = batch[i + 1]
        BY <2>4, <3>1, <3>2 DEF Sequences
      <4>3. \A i \in DOMAIN batch' : 1 \in DOMAIN batch /\ i + 1 \in DOMAIN batch /\ 1 < i + 1
        BY <4>2
      <4>4. QED
        BY <4>1, <4>2, <4>3 DEF SortedInv, In
    <3>5. \A i, j \in DOMAIN forwarded' : forwarded'[i] = forwarded'[j] => i = j
      <4>1. /\ forwarded \in Seq(Nums) /\ Len(forwarded) \in Nat
            /\ DOMAIN forwarded = 1..Len(forwarded)
            /\ DOMAIN forwarded' = 1..(Len(forwarded) + 1)
            /\ \A k \in DOMAIN forwarded : forwarded'[k] = forwarded[k]
            /\ forwarded'[Len(forwarded) + 1] = h
        BY <3>1, <3>2 DEF Sequences
      <4>2. \A k \in DOMAIN forwarded : forwarded[k] # h
        BY <3>4 DEF In
      <4>3. QED
        BY <4>1, <4>2 DEF NoneLostNorTwice
    <3>6. QED
      BY <3>2, <3>3, <3>4, <3>5 DEF NoneLostNorTwice
  <2>5. CASE Forward /\ batch = <<>>
    BY <2>1, <2>5 DEF Forward
  <2>6. CASE Start \/ Tick \/ UNCHANGED vars
    BY <2>1, <2>6 DEF Start, Tick, vars
  <2>7. ASSUME NEW p \in Posters, ConstructTask(p)
        PROVE  NoneLostNorTwice'
    BY <2>1, <2>7 DEF ConstructTask
  <2>8. ASSUME NEW t \in Threads, ThreadStep(t)
        PROVE  NoneLostNorTwice'
    BY <2>1, <2>8 DEF ThreadStep, ComputeDelay, PostDelayedTask
  <2>9. QED
    BY <2>2, <2>3, <2>4, <2>5, <2>6, <2>7, <2>8 DEF Next
<1>3. QED
  BY <1>1, <1>2, StepsKeepForwardInv, PTL DEF Spec

\* Every variable keeps its type.
THEOREM TypesHold == Spec => []TypeOK
<1>1. Init => Sequences
  BY DEF Init, Sequences
<1>2. CallInv /\ Sequences => TypeOK
  BY DEF CallInv, Types, Sequences, TypeOK
<1>3. QED
  BY <1>1, <1>2, SequencesStay, Inductive, PTL DEF Spec
=============================================================================
