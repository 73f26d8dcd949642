-------------------------- MODULE SequenceManagerProofs --------------------------
(***************************************************************************)
(* The thread that runs tasks, for any number of queues, posting threads,  *)
(* posts, operations and nested loops.  Of its queues (SequenceManager):   *)
(* the heaps are exact, no flag is lost, the tasks of a queue keep their   *)
(* order and the thread never sleeps on a task that may run.  Of its loop  *)
(* (ThreadController, through ThreadLoop): it never sleeps on work it may  *)
(* run, and a loop that was quit takes no further task.                    *)
(***************************************************************************)
EXTENDS SequenceManager, ThreadLoop, FiniteSetTheorems, SequenceTheorems, TLAPS

-----------------------------------------------------------------------------
(* The inductive invariant of the queues.                                    *)

\* Where the bound thread is in the middle of an operation on a queue.
InOperation == pc \in {"fence", "enable", "unregister"}

Pushers == {p \in Posters : call[p].at = "push"}

\* The bounds: every order that was drawn, or that a call is about to draw,
\* stands for a post or an operation.
DrawnInv ==
    /\ IsFiniteSet(Pushers)
    /\ nextOrder + Cardinality(Pushers) <= FirstOrder + posts + ops

\* What the place of a thread says of what it holds.
PlaceInv ==
    /\ InOperation <=> op.queue \in Queues
    /\ \A p \in Posters : call[p].at = "none" <=> call[p].queue = NoQueue
    /\ reloading # {} => pc \in {"select", "delayed"}
    /\ deferred # <<>> => depth > 0 \/ pc \in {"requeue", "crashed"}

\* A queue is closing during its Unregister; afterwards it is empty and
\* nobody posts to it.
LifeInv ==
    /\ \A q \in Queues :
          /\ life[q] = "closing" <=> pc = "unregister" /\ op.queue = q
          /\ life[q] = "gone" =>
                /\ work[q] = <<>> /\ incoming[q] = <<>>
                /\ \A p \in Posters : call[p].queue # q
    /\ pc \in {"fence", "enable"} => life[op.queue] = "registered"

\* A flag is set, or taken and yet to be served, exactly for the queues that
\* have incoming tasks and an empty work queue.
FlagInv ==
    /\ \A q \in Queues :
          q \in reload \cup reloading <=> work[q] = <<>> /\ incoming[q] # <<>>
    /\ reload \cap reloading = {}

\* Posting threads are told the truth, but for a fence whose InsertFence has
\* yet to take the lock.
KnownFence(q) ==
    IF pc = "fence" /\ op.queue = q THEN op.previous ELSE fence[q]
ToldInv ==
    \A q \in Queues :
        /\ life[q] # "gone" => (workEmpty[q] <=> work[q] = <<>>)
        /\ schedules[q] <=> enabled[q] /\ KnownFence(q) = None

\* The heaps are exact; a queue that is being unregistered is in none.
HeapInv == SelectorExact /\ (pc = "unregister" => keys[op.queue] = None)

Ascending(tasks) ==
    \A i, j \in DOMAIN tasks : i < j => tasks[i].order < tasks[j].order

\* The tasks of a queue are in the order they were posted; those that were
\* deferred come before the others.
OrderInv ==
    /\ \A q \in Queues :
          /\ Ascending(Pending(q))
          /\ \A i \in DOMAIN Pending(q) : Pending(q)[i].order < nextOrder
    /\ \A i \in DOMAIN deferred :
          /\ ~deferred[i].task.nestable
          /\ deferred[i].task.order < nextOrder
          /\ \A q \in Queues : deferred[i].queue = q =>
                \A k \in DOMAIN Pending(q) :
                   deferred[i].task.order < Pending(q)[k].order
          /\ \A j \in DOMAIN deferred :
                i < j /\ deferred[i].queue = deferred[j].queue =>
                   deferred[i].task.order < deferred[j].task.order

\* What ran of a queue came before what is there.
RanInv ==
    /\ \A q \in Queues, b \in BOOLEAN : ran[q][b] < nextOrder
    /\ \A q \in Queues : \A i \in DOMAIN Pending(q) :
          ran[q][Pending(q)[i].nestable] < Pending(q)[i].order
    /\ \A i \in DOMAIN deferred :
          ran[deferred[i].queue][FALSE] < deferred[i].task.order

\* Fences are drawn like tasks: no task has the number of a fence.
NotOf(q, f) ==
    /\ f < nextOrder
    /\ \A i \in DOMAIN Pending(q) : Pending(q)[i].order # f
    /\ \A i \in DOMAIN deferred :
          deferred[i].queue = q => deferred[i].task.order # f
FenceInv ==
    /\ \A q \in Queues : NotOf(q, fence[q])
    /\ pc = "fence" => NotOf(op.queue, op.previous)

\* The thread sleeps, or handles a native message in its sleep.
Asleep == pc = "sleep" \/ (InOperation /\ op.back = "sleep")

\* Somebody has requested work or is about to.
Requesting == requested \/ \E p \in Posters : call[p].at = "schedule"

\* The operation that the bound thread is in the middle of will request work
\* if q has some.
WillRequest(q) ==
    /\ op.queue = q
    /\ \/ pc = "fence" /\ enabled[q]
          /\ (op.unblocked \/ IncomingUnblocked(q, op.previous, fence[q]))
       \/ pc = "enable"

\* Tasks that came after the flags were taken for the last time left a
\* request; so did operations that made tasks runnable.
RestInv ==
    /\ pc = "delayed" =>
          \A q \in Queues \ reloading :
              work[q] = <<>> /\ Runnable(q) => Requesting
    /\ Asleep => \A q \in Queues : Runnable(q) => Requesting \/ WillRequest(q)

ManagerInv ==
    /\ TypeOK /\ DrawnInv /\ PlaceInv /\ LifeInv /\ FlagInv /\ ToldInv
    /\ HeapInv /\ OrderInv /\ RanInv /\ FenceInv /\ RestInv

-----------------------------------------------------------------------------
(* The sequences of a queue.                                                 *)

\* Concatenation, element by element.
LEMMA ConcatAt ==
    \A a, b \in Seq(Tasks) :
       /\ a \o b \in Seq(Tasks)
       /\ Len(a) \in Nat /\ Len(b) \in Nat
       /\ Len(a \o b) = Len(a) + Len(b)
       /\ \A k \in 1..Len(a) + Len(b) :
             (a \o b)[k] = IF k <= Len(a) THEN a[k] ELSE b[k - Len(a)]
  BY ConcatProperties, LenProperties

\* The front of a queue is that of its work queue, if that is not empty.
LEMMA PendingFront ==
    ASSUME NEW w \in Seq(Tasks), NEW i \in Seq(Tasks)
    PROVE  /\ w \o i \in Seq(Tasks)
           /\ w \o i = <<>> <=> w = <<>> /\ i = <<>>
           /\ w # <<>> => Head(w \o i) = Head(w)
           /\ w = <<>> => w \o i = i
           /\ w \o i # <<>> => Head(w \o i) = (w \o i)[1] /\ Head(w \o i) \in Tasks
<1>1. /\ w \o i \in Seq(Tasks)
      /\ Len(w \o i) = Len(w) + Len(i)
      /\ \A k \in 1..Len(w) + Len(i) :
            (w \o i)[k] = IF k <= Len(w) THEN w[k] ELSE i[k - Len(w)]
  BY ConcatAt
<1>2. w \o i = <<>> <=> w = <<>> /\ i = <<>>
  BY ConcatEqualIffEmpty
<1>3. w = <<>> => w \o i = i
  BY ConcatEmptySeq
<1>4. ASSUME w # <<>> PROVE Head(w \o i) = Head(w)
  <2>1. Len(w) \in Nat \ {0} /\ Len(i) \in Nat
    BY <1>4, EmptySeq, LenProperties
  <2>2. (w \o i)[1] = w[1]
    BY <1>1, <2>1
  <2> QED
    BY <2>2, <1>1, <1>2, <1>4
<1>5. ASSUME w \o i # <<>> PROVE Head(w \o i) = (w \o i)[1] /\ Head(w \o i) \in Tasks
  BY <1>1, <1>5, HeadTailProperties
<1> QED
  BY <1>1, <1>2, <1>3, <1>4, <1>5

\* What the tasks of a queue become: t comes last, t comes first, or the
\* first k go.
Added(old, new, t) ==
    /\ Len(new) = Len(old) + 1
    /\ new[Len(old) + 1] = t
    /\ \A i \in 1..Len(old) : new[i] = old[i]
PutFirst(old, new, t) ==
    /\ Len(new) = Len(old) + 1
    /\ new[1] = t
    /\ \A i \in 1..Len(old) : new[i + 1] = old[i]
Dropped(old, new, k) ==
    /\ Len(new) = Len(old) - k
    /\ \A i \in 1..Len(new) : new[i] = old[i + k]

LEMMA AppendAdds ==
    ASSUME NEW w \in Seq(Tasks), NEW i \in Seq(Tasks), NEW t \in Tasks
    PROVE  Added(w \o i, w \o Append(i, t), t)
<1> DEFINE j == Append(i, t)
<1>1. /\ j \in Seq(Tasks) /\ Len(j) = Len(i) + 1
      /\ \A k \in 1..Len(i) : j[k] = i[k]
      /\ j[Len(i) + 1] = t
  BY AppendProperties
<1> HIDE DEF j
<1>2. /\ Len(w) \in Nat /\ Len(i) \in Nat
      /\ Len(w \o i) = Len(w) + Len(i)
      /\ \A k \in 1..Len(w) + Len(i) :
            (w \o i)[k] = IF k <= Len(w) THEN w[k] ELSE i[k - Len(w)]
  BY ConcatAt
<1>3. /\ Len(w \o j) = Len(w) + Len(j)
      /\ \A k \in 1..Len(w) + Len(j) :
            (w \o j)[k] = IF k <= Len(w) THEN w[k] ELSE j[k - Len(w)]
  BY <1>1, ConcatAt
<1>4. Added(w \o i, w \o j, t)
  <2>1. Len(w \o j) = Len(w \o i) + 1
    BY <1>1, <1>2, <1>3
  <2>2. (w \o j)[Len(w \o i) + 1] = t
    BY <1>1, <1>2, <1>3
  <2>3. ASSUME NEW k \in 1..Len(w \o i) PROVE (w \o j)[k] = (w \o i)[k]
    BY <1>1, <1>2, <1>3
  <2> QED
    BY <2>1, <2>2, <2>3 DEF Added
<1> QED
  BY <1>4 DEF j

LEMMA ConcatPutsFirst ==
    ASSUME NEW w \in Seq(Tasks), NEW i \in Seq(Tasks), NEW t \in Tasks
    PROVE  /\ <<t>> \o w \in Seq(Tasks)
           /\ Head(<<t>> \o w) = t
           /\ <<t>> \o w # <<>>
           /\ PutFirst(w \o i, (<<t>> \o w) \o i, t)
<1>1. <<t>> \in Seq(Tasks) /\ Len(<<t>>) = 1 /\ <<t>>[1] = t
  OBVIOUS
<1>2. w \o i \in Seq(Tasks) /\ <<t>> \o w \in Seq(Tasks)
  BY <1>1, ConcatAt
<1>3. (<<t>> \o w) \o i = <<t>> \o (w \o i)
  BY <1>1, ConcatAssociative
<1>4. /\ Len(<<t>> \o (w \o i)) = 1 + Len(w \o i)
      /\ \A k \in 1..1 + Len(w \o i) :
            (<<t>> \o (w \o i))[k] = IF k <= 1 THEN <<t>>[k] ELSE (w \o i)[k - 1]
  BY <1>1, <1>2, ConcatAt
<1>5. Len(w \o i) \in Nat
  BY <1>2, LenProperties
<1>6. PutFirst(w \o i, (<<t>> \o w) \o i, t)
  BY <1>1, <1>3, <1>4, <1>5 DEF PutFirst
<1>7. /\ Len(<<t>> \o w) = 1 + Len(w) /\ Len(w) \in Nat
      /\ (<<t>> \o w)[1] = t
  BY <1>1, ConcatAt, LenProperties
<1>8. Head(<<t>> \o w) = t /\ <<t>> \o w # <<>>
  BY <1>7, <1>2, EmptySeq, HeadTailProperties
<1> QED
  BY <1>2, <1>6, <1>8

\* The first k tasks of a work queue go; an empty one is refilled.
LEMMA PopDrops ==
    ASSUME NEW w \in Seq(Tasks), NEW i \in Seq(Tasks), NEW k \in 1..Len(w),
           NEW rest, rest = SubSeq(w, k + 1, Len(w))
    PROVE  /\ rest \in Seq(Tasks)
           /\ rest # <<>> => Dropped(w \o i, rest \o i, k)
           /\ rest = <<>> => Dropped(w \o i, i \o <<>>, k)
<1>1. Len(w) \in Nat /\ Len(i) \in Nat /\ k \in Nat
  BY LenProperties
<1>2. \A j \in k + 1 .. Len(w) : w[j] \in Tasks
  BY <1>1, ElementOfSeq
<1>3. /\ rest \in Seq(Tasks)
      /\ Len(rest) = Len(w) - k
      /\ \A j \in 1..Len(w) - k : rest[j] = w[k + j]
  <2>1. k + 1 \in Int /\ Len(w) \in Int
    BY <1>1
  <2>2. /\ rest \in Seq(Tasks)
        /\ Len(rest) = IF k + 1 <= Len(w) THEN Len(w) - (k + 1) + 1 ELSE 0
        /\ \A j \in 1..Len(w) - (k + 1) + 1 : rest[j] = w[(k + 1) + j - 1]
    BY <1>2, <2>1, SubSeqProperties
  <2> QED
    BY <1>1, <2>2
<1>4. /\ Len(w \o i) = Len(w) + Len(i)
      /\ \A j \in 1..Len(w) + Len(i) :
            (w \o i)[j] = IF j <= Len(w) THEN w[j] ELSE i[j - Len(w)]
  BY ConcatAt
<1>5. Dropped(w \o i, rest \o i, k)
  <2>1. /\ Len(rest \o i) = Len(rest) + Len(i)
        /\ \A j \in 1..Len(rest) + Len(i) :
              (rest \o i)[j] = IF j <= Len(rest) THEN rest[j] ELSE i[j - Len(rest)]
    BY <1>3, ConcatAt
  <2>2. Len(rest \o i) = Len(w \o i) - k
    <3>1. Len(rest) = Len(w) - k /\ Len(w \o i) = Len(w) + Len(i)
      BY <1>3, <1>4
    <3>2. Len(rest \o i) = Len(rest) + Len(i)
      BY <2>1
    <3> QED
      BY <1>1, <3>1, <3>2
  <2>3. ASSUME NEW j \in 1..Len(rest \o i) PROVE (rest \o i)[j] = (w \o i)[j + k]
    BY <1>1, <1>3, <1>4, <2>1
  <2> QED
    BY <2>2, <2>3 DEF Dropped
<1>6. rest = <<>> => rest \o i = i /\ i \o <<>> = i
  BY <1>3, ConcatEmptySeq
<1> QED
  BY <1>3, <1>5, <1>6

LEMMA OrdersAreNumbers ==
    /\ \A n \in Orders : n \in Nat /\ n >= FirstOrder
    /\ None \in Nat /\ BlockingFence \in Nat /\ FirstOrder \in Nat
    /\ None < BlockingFence /\ BlockingFence < FirstOrder
  BY BoundsAssumption DEF Orders, FirstOrder, None, BlockingFence

\* A key is the number of a task, or none.
LEMMA KeysAreOrders ==
    ASSUME NEW w \in Seq(Tasks), NEW f
    PROVE  FrontKey(f, w) \in Orders \cup {None}
<1>1. w # <<>> => Head(w) \in Tasks
  BY HeadTailProperties
<1> QED
  BY <1>1 DEF FrontKey, Tasks

\* A fence that is behind the front task of a queue blocks it.
LEMMA FrontOfPending ==
    ASSUME TypeOK, NEW q \in Queues, NEW f
    PROVE  /\ Pending(q) \in Seq(Tasks)
           /\ Pending(q) = <<>> <=> work[q] = <<>> /\ incoming[q] = <<>>
           /\ work[q] # <<>> =>
                /\ Head(Pending(q)) = Head(work[q])
                /\ FrontKey(f, Pending(q)) = FrontKey(f, work[q])
           /\ work[q] = <<>> => Pending(q) = incoming[q]
           /\ Pending(q) # <<>> =>
                Head(Pending(q)) = Pending(q)[1] /\ Head(Pending(q)) \in Tasks
<1>1. work[q] \in Seq(Tasks) /\ incoming[q] \in Seq(Tasks)
  BY DEF TypeOK
<1> QED
  BY <1>1, PendingFront DEF Pending, FrontKey, BlockedByFence

-----------------------------------------------------------------------------
(* What an action does to the tasks of a queue.                              *)

OthersKept(q) ==
    \A r \in Queues \ {q} : work'[r] = work[r] /\ incoming'[r] = incoming[r]

QueuesTyped ==
    work' \in [Queues -> Seq(Tasks)] /\ incoming' \in [Queues -> Seq(Tasks)]

LEMMA PushAdds ==
    ASSUME TypeOK, NEW q \in Queues, NEW b \in BOOLEAN, PushTask(q, b),
           nextOrder \in Orders, work' = work
    PROVE  /\ QueuesTyped /\ OthersKept(q)
           /\ Added(Pending(q), Pending(q)', [order |-> nextOrder, nestable |-> b])
           /\ incoming'[q] # <<>>
           /\ incoming[q] # <<>> => Head(incoming'[q]) = Head(incoming[q])
           /\ incoming[q] = <<>> => Head(incoming'[q]).order = nextOrder
<1> DEFINE t == [order |-> nextOrder, nestable |-> b]
<1>1. t \in Tasks /\ t.order = nextOrder
  BY DEF Tasks
<1>2. work[q] \in Seq(Tasks) /\ incoming[q] \in Seq(Tasks)
  BY DEF TypeOK
<1>3. /\ incoming' = [incoming EXCEPT ![q] = Append(incoming[q], t)]
      /\ incoming'[q] = Append(incoming[q], t)
  BY DEF PushTask, TypeOK
<1> HIDE DEF t
<1>4. Append(incoming[q], t) \in Seq(Tasks) /\ Append(incoming[q], t) # <<>>
  BY <1>1, <1>2, AppendProperties
<1>5. QueuesTyped /\ OthersKept(q)
  BY <1>3, <1>4 DEF TypeOK, QueuesTyped, OthersKept
<1>6. Added(Pending(q), Pending(q)', t)
  BY <1>1, <1>2, <1>3, AppendAdds DEF Pending
<1>7. /\ incoming[q] # <<>> => Head(incoming'[q]) = Head(incoming[q])
      /\ incoming[q] = <<>> => Head(incoming'[q]) = t
  BY <1>1, <1>2, <1>3, HeadTailAppend
<1> QED
  BY <1>1, <1>3, <1>4, <1>5, <1>6, <1>7 DEF t

LEMMA PopRemoves ==
    ASSUME TypeOK, NEW q \in Queues, NEW k \in 1..Len(work[q]), NEW rest,
           rest = SubSeq(work[q], k + 1, Len(work[q])), PopFrontTasks(q, rest)
    PROVE  /\ QueuesTyped /\ OthersKept(q)
           /\ Dropped(Pending(q), Pending(q)', k)
<1>1. work[q] \in Seq(Tasks) /\ incoming[q] \in Seq(Tasks)
  BY DEF TypeOK
<1>2. /\ rest \in Seq(Tasks)
      /\ rest # <<>> => Dropped(work[q] \o incoming[q], rest \o incoming[q], k)
      /\ rest = <<>> => Dropped(work[q] \o incoming[q], incoming[q] \o <<>>, k)
  <2> DEFINE w == work[q]
  <2> DEFINE i == incoming[q]
  <2>1. w \in Seq(Tasks) /\ i \in Seq(Tasks) /\ k \in 1..Len(w)
    BY <1>1
  <2>2. rest = SubSeq(w, k + 1, Len(w))
    OBVIOUS
  <2> HIDE DEF w, i
  <2>3. /\ rest \in Seq(Tasks)
        /\ rest # <<>> => Dropped(w \o i, rest \o i, k)
        /\ rest = <<>> => Dropped(w \o i, i \o <<>>, k)
    BY <2>1, <2>2, PopDrops
  <2> QED
    BY <2>3 DEF w, i
<1>3. CASE rest # <<>>
  <2>1. work' = [work EXCEPT ![q] = rest] /\ incoming' = incoming
    BY <1>3 DEF PopFrontTasks
  <2>2. QueuesTyped /\ OthersKept(q)
    BY <2>1, <1>2 DEF TypeOK, QueuesTyped, OthersKept
  <2>3. Pending(q)' = rest \o incoming[q]
    BY <2>1 DEF TypeOK, Pending
  <2> QED
    BY <2>2, <2>3, <1>2, <1>3 DEF Pending
<1>4. CASE rest = <<>>
  <2>1. /\ work' = [work EXCEPT ![q] = incoming[q]]
        /\ incoming' = [incoming EXCEPT ![q] = <<>>]
    BY <1>4 DEF PopFrontTasks, TakeImmediateIncomingQueueTasks
  <2>2. QueuesTyped /\ OthersKept(q)
    BY <2>1, <1>1 DEF TypeOK, QueuesTyped, OthersKept
  <2>3. Pending(q)' = incoming[q] \o <<>>
    BY <2>1 DEF TypeOK, Pending
  <2> QED
    BY <2>2, <2>3, <1>2, <1>4 DEF Pending
<1> QED
  BY <1>3, <1>4

LEMMA ReloadKeeps ==
    ASSUME TypeOK, NEW q \in Queues, work[q] = <<>>,
           TakeImmediateIncomingQueueTasks(q)
    PROVE  /\ QueuesTyped /\ OthersKept(q)
           /\ work'[q] = incoming[q] /\ incoming'[q] = <<>>
           /\ Pending(q)' = Pending(q)
<1>1. work[q] \in Seq(Tasks) /\ incoming[q] \in Seq(Tasks)
  BY DEF TypeOK
<1>2. work'[q] = incoming[q] /\ incoming'[q] = <<>>
  BY DEF TakeImmediateIncomingQueueTasks, TypeOK
<1>3. QueuesTyped /\ OthersKept(q)
  BY <1>1 DEF TakeImmediateIncomingQueueTasks, TypeOK, QueuesTyped, OthersKept
<1>4. Pending(q)' = Pending(q)
  BY <1>1, <1>2, ConcatEmptySeq DEF Pending
<1> QED
  BY <1>2, <1>3, <1>4

\* The last of the deferred tasks, and those before it.
LEMMA LastOfDeferred ==
    ASSUME TypeOK, deferred # <<>>
    PROVE  /\ Len(deferred) \in Nat \ {0}
           /\ LastDeferred \in [task : Tasks, queue : Queues]
           /\ LastDeferred = deferred[Len(deferred)]
           /\ SubSeq(deferred, 1, Len(deferred) - 1)
                 \in Seq([task : Tasks, queue : Queues])
           /\ Len(SubSeq(deferred, 1, Len(deferred) - 1)) = Len(deferred) - 1
           /\ \A i \in 1..Len(deferred) - 1 :
                 SubSeq(deferred, 1, Len(deferred) - 1)[i] = deferred[i]
<1> DEFINE D == [task : Tasks, queue : Queues]
<1>1. deferred \in Seq(D)
  BY DEF TypeOK
<1> HIDE DEF D
<1>2. Len(deferred) \in Nat \ {0}
  BY <1>1, EmptySeq
<1>3. \A i \in 1..Len(deferred) : deferred[i] \in D
  BY <1>1, ElementOfSeq
<1>4. LastDeferred \in D /\ LastDeferred = deferred[Len(deferred)]
  BY <1>2, <1>3 DEF LastDeferred
<1> DEFINE n == Len(deferred) - 1
<1>5. n \in Nat /\ \A i \in 1..n : deferred[i] \in D
  BY <1>2, <1>3
<1>6. /\ SubSeq(deferred, 1, n) \in Seq(D)
      /\ Len(SubSeq(deferred, 1, n)) = IF 1 <= n THEN n - 1 + 1 ELSE 0
      /\ \A i \in 1..n - 1 + 1 : SubSeq(deferred, 1, n)[i] = deferred[1 + i - 1]
  <2> HIDE DEF n
  <2> QED
    BY <1>5, SubSeqProperties
<1>7. /\ Len(SubSeq(deferred, 1, n)) = n
      /\ \A i \in 1..n : SubSeq(deferred, 1, n)[i] = deferred[i]
  <2> HIDE DEF n
  <2> QED
    BY <1>5, <1>6
<1> QED
  BY <1>2, <1>4, <1>6, <1>7 DEF D

LEMMA RequeuePutsFirst ==
    ASSUME TypeOK, RequeueDeferredNonNestableTask, NEW q, q = LastDeferred.queue,
           NEW t, t = LastDeferred.task
    PROVE  /\ q \in Queues /\ t \in Tasks
           /\ QueuesTyped /\ OthersKept(q)
           /\ work'[q] # <<>> /\ Head(work'[q]) = t
           /\ PutFirst(Pending(q), Pending(q)', t)
<1>1. q \in Queues /\ t \in Tasks
  BY LastOfDeferred DEF RequeueDeferredNonNestableTask
<1>2. /\ work' = [work EXCEPT ![q] = <<t>> \o work[q]]
      /\ incoming' = incoming
  BY DEF RequeueDeferredNonNestableTask, PushNonNestableTaskToFront
<1>3. work[q] \in Seq(Tasks) /\ incoming[q] \in Seq(Tasks)
  BY <1>1 DEF TypeOK
<1>4. /\ <<t>> \o work[q] \in Seq(Tasks)
      /\ Head(<<t>> \o work[q]) = t
      /\ <<t>> \o work[q] # <<>>
      /\ PutFirst(work[q] \o incoming[q], (<<t>> \o work[q]) \o incoming[q], t)
  BY <1>1, <1>3, ConcatPutsFirst
<1>5. work'[q] = <<t>> \o work[q] /\ incoming'[q] = incoming[q]
  BY <1>1, <1>2 DEF TypeOK
<1>6. QueuesTyped /\ OthersKept(q)
  BY <1>2, <1>4 DEF TypeOK, QueuesTyped, OthersKept
<1>7. PutFirst(Pending(q), Pending(q)', t)
  BY <1>4, <1>5 DEF Pending
<1> QED
  BY <1>1, <1>4, <1>5, <1>6, <1>7

\* The work queue that the selector returns is not empty.
LEMMA SelectedHasTask ==
    ASSUME TypeOK, SelectorExact, NEW q \in Queues, SelectWorkQueueToService(q)
    PROVE  /\ work[q] \in Seq(Tasks) /\ work[q] # <<>>
           /\ Head(work[q]) \in Tasks
           /\ Len(work[q]) \in Nat \ {0} /\ 1 \in 1..Len(work[q])
           /\ Tail(work[q]) = SubSeq(work[q], 1 + 1, Len(work[q]))
           /\ enabled[q] /\ life[q] # "gone"
           /\ Head(Pending(q)) = Head(work[q]) /\ Pending(q)[1] = Head(work[q])
<1>1. keys[q] # None /\ pc = "select"
  BY DEF SelectWorkQueueToService, GetOldestQueueInSet
<1>2. /\ keys[q] = IF enabled[q] /\ life[q] # "gone"
                   THEN FrontKey(fence[q], work[q]) ELSE None
  BY <1>1 DEF SelectorExact
<1>3. enabled[q] /\ life[q] # "gone" /\ work[q] # <<>>
  BY <1>1, <1>2 DEF FrontKey
<1>4. work[q] \in Seq(Tasks)
  BY DEF TypeOK
<1>5. Head(work[q]) \in Tasks /\ Len(work[q]) \in Nat \ {0}
  BY <1>3, <1>4, EmptySeq, HeadTailProperties
<1>6. Tail(work[q]) = SubSeq(work[q], 1 + 1, Len(work[q]))
  BY <1>3, <1>4, TailIsSubSeq
<1>7. Head(Pending(q)) = Head(work[q]) /\ Pending(q)[1] = Head(work[q])
  BY <1>3, FrontOfPending
<1> QED
  BY <1>3, <1>4, <1>5, <1>6, <1>7

-----------------------------------------------------------------------------
(* Types and bounds are kept.                                                *)

\* A poster that begins or ends the locked part of its call.
LEMMA PushersChange ==
    ASSUME TypeOK, IsFiniteSet(Pushers), NEW p \in Posters,
           NEW c \in [queue : Queues \cup {NoQueue},
                      at : {"none", "push", "schedule"}],
           call' = [call EXCEPT ![p] = c]
    PROVE  /\ Cardinality(Pushers) \in Nat
           /\ IsFiniteSet(Pushers') /\ Cardinality(Pushers') \in Nat
           /\ call[p].at # "push" /\ c.at = "push" =>
                 Cardinality(Pushers') = Cardinality(Pushers) + 1
           /\ call[p].at = "push" /\ c.at # "push" =>
                 Cardinality(Pushers') = Cardinality(Pushers) - 1
           /\ (call[p].at = "push" <=> c.at = "push") =>
                 Cardinality(Pushers') = Cardinality(Pushers)
<1>1. /\ call'[p] = c
      /\ \A r \in Posters \ {p} : call'[r] = call[r]
  BY DEF TypeOK
<1>2. /\ p \in Pushers <=> call[p].at = "push"
      /\ p \in Pushers' <=> c.at = "push"
  BY <1>1 DEF Pushers
<1>3. Cardinality(Pushers) \in Nat
  BY FS_CardinalityType
<1>4. CASE c.at = "push"
  <2>1. Pushers' = Pushers \cup {p}
    BY <1>1, <1>4 DEF Pushers
  <2>2. IsFiniteSet(Pushers') /\ Cardinality(Pushers') \in Nat
    BY <2>1, FS_AddElement, FS_CardinalityType
  <2> QED
    BY <1>2, <1>3, <1>4, <2>1, <2>2, FS_AddElement
<1>5. CASE c.at # "push"
  <2>1. Pushers' = Pushers \ {p}
    BY <1>1, <1>5 DEF Pushers
  <2>2. IsFiniteSet(Pushers') /\ Cardinality(Pushers') \in Nat
    BY <2>1, FS_RemoveElement, FS_CardinalityType
  <2> QED
    BY <1>2, <1>3, <1>5, <2>1, <2>2, FS_RemoveElement
<1> QED
  BY <1>4, <1>5

\* Only three steps draw a number or begin a call.
LEMMA DrawnUnlessPosting ==
    ASSUME TypeOK, DrawnInv, nextOrder' = nextOrder, call' = call,
           posts' = posts, ops' \in Nat, ops' >= ops
    PROVE  DrawnInv'
<1>1. Pushers' = Pushers
  BY DEF Pushers
<1>2. Cardinality(Pushers) \in Nat
  BY FS_CardinalityType DEF DrawnInv
<1> QED
  BY <1>1, <1>2 DEF DrawnInv, TypeOK, FirstOrder

\* Numbers are drawn for posts and operations only.
LEMMA DrawnKept ==
    TypeOK /\ DrawnInv /\ [Next]_vars => DrawnInv'
<1> SUFFICES ASSUME TypeOK, DrawnInv, [Next]_vars PROVE DrawnInv'
  OBVIOUS
<1> USE DEF shared, queueState, loopState, bounds, ClientMay, Spend, NoCall
<1>1. ASSUME NEW p \in Posters, NEW q \in Queues, TryBeginOperation(p, q)
      PROVE DrawnInv'
  <2> USE <1>1 DEF TryBeginOperation
  <2> DEFINE c == [queue |-> q, at |-> "push"]
  <2>1. call' = [call EXCEPT ![p] = c]
    OBVIOUS
  <2>2. /\ c \in [queue : Queues \cup {NoQueue},
                 at : {"none", "push", "schedule"}]
        /\ call[p].at # "push" /\ c.at = "push"
    OBVIOUS
  <2> HIDE DEF c
  <2>3. /\ IsFiniteSet(Pushers') /\ Cardinality(Pushers) \in Nat
        /\ Cardinality(Pushers') = Cardinality(Pushers) + 1
    BY <2>1, <2>2, PushersChange DEF DrawnInv
  <2> QED
    BY <2>3 DEF DrawnInv, TypeOK, FirstOrder
<1>2. ASSUME NEW p \in Posters, NEW b \in BOOLEAN, PostImmediateTask(p, b)
      PROVE DrawnInv'
  <2> DEFINE c == IF WasEmpty(call[p].queue) /\ schedules[call[p].queue]
                  THEN [queue |-> call[p].queue, at |-> "schedule"] ELSE NoCall
  <2>1. /\ call' = [call EXCEPT ![p] = c] /\ call[p].at = "push"
        /\ nextOrder' = nextOrder + 1 /\ posts' = posts /\ ops' = ops
    BY <1>2 DEF PostImmediateTask, PushTask
  <2>2. /\ c \in [queue : Queues \cup {NoQueue},
                 at : {"none", "push", "schedule"}]
        /\ c.at # "push"
    BY DEF TypeOK
  <2> HIDE DEF c
  <2>3. /\ IsFiniteSet(Pushers') /\ Cardinality(Pushers) \in Nat
        /\ Cardinality(Pushers') = Cardinality(Pushers) - 1
    BY <2>1, <2>2, PushersChange DEF DrawnInv
  <2> QED
    BY <2>1, <2>3 DEF DrawnInv, TypeOK, FirstOrder
<1>3. ASSUME NEW p \in Posters, ScheduleWork(p) PROVE DrawnInv'
  <2>1. /\ call' = [call EXCEPT ![p] = NoCall] /\ call[p].at = "schedule"
        /\ UNCHANGED <<nextOrder, posts, ops>>
    BY <1>3 DEF ScheduleWork
  <2>2. /\ NoCall \in [queue : Queues \cup {NoQueue},
                      at : {"none", "push", "schedule"}]
        /\ NoCall.at # "push"
    OBVIOUS
  <2>3. /\ IsFiniteSet(Pushers') /\ Cardinality(Pushers) \in Nat
        /\ Cardinality(Pushers') = Cardinality(Pushers)
    BY <2>1, <2>2, PushersChange DEF DrawnInv
  <2> QED
    BY <2>1, <2>3 DEF DrawnInv, TypeOK, FirstOrder
<1>4. ASSUME NEW q \in Queues, NEW b \in BOOLEAN, PostOnBoundThread(q, b)
      PROVE DrawnInv'
  <2>1. /\ nextOrder' = nextOrder + 1 /\ posts' = posts + 1
        /\ UNCHANGED <<call, ops>>
    BY <1>4 DEF PostOnBoundThread, PushTask
  <2>2. Pushers' = Pushers /\ Cardinality(Pushers) \in Nat
    BY <2>1, FS_CardinalityType DEF Pushers, DrawnInv
  <2> QED
    BY <2>1, <2>2 DEF DrawnInv, TypeOK, FirstOrder
<1>5. ASSUME NEW q \in Queues, NEW f \in {nextOrder, BlockingFence},
      InsertFence(q, f) PROVE DrawnInv'
  <2>1. /\ nextOrder' \in {nextOrder, nextOrder + 1} /\ ops' = ops + 1
        /\ UNCHANGED <<call, posts>>
    BY <1>5 DEF InsertFence
  <2>2. Pushers' = Pushers /\ Cardinality(Pushers) \in Nat
    BY <2>1, FS_CardinalityType DEF Pushers, DrawnInv
  <2> QED
    BY <2>1, <2>2 DEF DrawnInv, TypeOK, FirstOrder
<1>6. ASSUME NEW q \in Queues, RemoveFence(q) PROVE DrawnInv'
  BY <1>6, DrawnUnlessPosting DEF RemoveFence, TypeOK
<1>7. ASSUME NEW q \in Queues, SetQueueEnabled(q) PROVE DrawnInv'
  BY <1>7, DrawnUnlessPosting DEF SetQueueEnabled, TypeOK
<1>8. ASSUME NEW q \in Queues, ShutdownTaskQueue(q) PROVE DrawnInv'
  BY <1>8, DrawnUnlessPosting DEF ShutdownTaskQueue, BeginUnregister, TypeOK
<1>9. ASSUME NEW q \in Queues, ShutdownTaskQueueGracefully(q) PROVE DrawnInv'
  BY <1>9, DrawnUnlessPosting DEF ShutdownTaskQueueGracefully, TypeOK
<1>10. ASSUME NEW q \in Queues, CancelTask(q) PROVE DrawnInv'
  BY <1>10, DrawnUnlessPosting DEF CancelTask, TypeOK
<1>11. CASE BeginNestedRunLoop
  BY <1>11, DrawnUnlessPosting DEF BeginNestedRunLoop, TypeOK
<1>12. CASE ExitNestedRunLoop
  BY <1>12, DrawnUnlessPosting DEF ExitNestedRunLoop, TypeOK
<1>13. CASE BeginWork
  BY <1>13, DrawnUnlessPosting DEF BeginWork, TypeOK
<1>14. CASE SelectNextTask
  BY <1>14, DrawnUnlessPosting DEF SelectNextTask, RunActiveCallbacks, TypeOK
<1>15. CASE SelectNoTask
  BY <1>15, DrawnUnlessPosting DEF SelectNoTask, MainGoes, TypeOK
<1>16. CASE DidRunTask
  BY <1>16, DrawnUnlessPosting DEF DidRunTask, MainGoes, TypeOK
<1>17. CASE WillCheckForMoreWork
  BY <1>17, DrawnUnlessPosting DEF WillCheckForMoreWork, TypeOK
<1>18. CASE DelayTillNextTask
  BY <1>18, DrawnUnlessPosting DEF DelayTillNextTask, MainGoes,
     RunActiveCallbacks, TypeOK
<1>19. CASE DelayAfterReload
  BY <1>19, DrawnUnlessPosting DEF DelayAfterReload, MainGoes, TypeOK
<1>20. CASE WaitReturns
  BY <1>20, DrawnUnlessPosting DEF WaitReturns, MainGoes, TypeOK
<1>21. ASSUME NEW q \in Queues, ReloadEmptyImmediateWorkQueue(q) PROVE
      DrawnInv'
  BY <1>21, DrawnUnlessPosting DEF ReloadEmptyImmediateWorkQueue, TypeOK
<1>22. ASSUME NEW q \in Queues, DropCanceledTasks(q) PROVE DrawnInv'
  BY <1>22, DrawnUnlessPosting DEF DropCanceledTasks, TypeOK
<1>23. ASSUME NEW q \in Queues, DeferTask(q) PROVE DrawnInv'
  BY <1>23, DrawnUnlessPosting DEF DeferTask, TypeOK
<1>24. ASSUME NEW q \in Queues, RunTask(q) PROVE DrawnInv'
  BY <1>24, DrawnUnlessPosting DEF RunTask, TypeOK
<1>25. CASE RequeueDeferredNonNestableTask
  BY <1>25, DrawnUnlessPosting DEF RequeueDeferredNonNestableTask, TypeOK
<1>26. CASE RequeueDone
  BY <1>26, DrawnUnlessPosting DEF RequeueDone, MainGoes, TypeOK
<1>27. CASE RequeueToUnregistered
  BY <1>27, DrawnUnlessPosting DEF RequeueToUnregistered, MainGoes, TypeOK
<1>28. CASE FinishInsertFence
  BY <1>28, DrawnUnlessPosting DEF FinishInsertFence, TypeOK
<1>29. CASE FinishSetQueueEnabled
  BY <1>29, DrawnUnlessPosting DEF FinishSetQueueEnabled, TypeOK
<1>30. CASE UnregisterTaskQueue
  BY <1>30, DrawnUnlessPosting DEF UnregisterTaskQueue, TypeOK
<1>31. CASE CleanUpQueues
  <2>1. UNCHANGED <<nextOrder, call, posts, ops>>
    BY <1>31 DEF CleanUpQueues, BeginUnregister, MainGoes
  <2> QED
    BY <2>1, DrawnUnlessPosting DEF TypeOK
<1>32. CASE UNCHANGED vars
  BY <1>32, DrawnUnlessPosting DEF vars, TypeOK
<1> HIDE DEF shared, queueState, loopState, bounds, ClientMay, Spend, NoCall
<1> QED
  BY <1>1, <1>2, <1>3, <1>4, <1>5, <1>6, <1>7, <1>8, <1>9, <1>10, <1>11,
     <1>12, <1>13, <1>14, <1>15, <1>16, <1>17, <1>18, <1>19, <1>20, <1>21,
     <1>22, <1>23, <1>24, <1>25, <1>26, <1>27, <1>28, <1>29, <1>30, <1>31,
     <1>32 DEF Next, CallStep, ClientStep, MainStep, Wake

LEMMA NumbersSuffice ==
    ASSUME TypeOK, DrawnInv
    PROVE  /\ nextOrder \in Orders
           /\ nextOrder <= FirstOrder + posts + ops
           /\ nextOrder + Cardinality(Pushers) <= FirstOrder + posts + ops
           /\ Cardinality(Pushers) \in Nat
<1>1. Cardinality(Pushers) \in Nat
  BY FS_CardinalityType DEF DrawnInv
<1> QED
  BY <1>1 DEF DrawnInv, TypeOK, Orders, FirstOrder

\* Numbers drawn within the bounds keep their type.
LEMMA NumberTyped ==
    ASSUME DrawnInv', posts' \in 0..MaxPosts, ops' \in 0..MaxOps,
           nextOrder' \in Nat, nextOrder' >= FirstOrder
    PROVE  nextOrder' \in FirstOrder..(FirstOrder + MaxPosts + MaxOps)
<1>1. Cardinality(Pushers') \in Nat
  BY FS_CardinalityType DEF DrawnInv
<1> QED
  BY <1>1, BoundsAssumption DEF DrawnInv, FirstOrder

\* What a refilled or popped work queue leaves typed.
LEMMA TakeTyped ==
    ASSUME TypeOK, NEW q \in Queues, TakeImmediateIncomingQueueTasks(q)
    PROVE  /\ QueuesTyped
           /\ workEmpty' \in [Queues -> BOOLEAN]
           /\ schedules' \in [Queues -> BOOLEAN]
<1>1. QueuesTyped
  BY DEF TakeImmediateIncomingQueueTasks, TypeOK, QueuesTyped
<1>2. workEmpty' \in [Queues -> BOOLEAN] /\ schedules' \in [Queues -> BOOLEAN]
  BY DEF TakeImmediateIncomingQueueTasks, UpdateCrossThreadQueueState, TypeOK
<1> QED
  BY <1>1, <1>2

LEMMA PopTyped ==
    ASSUME TypeOK, NEW q \in Queues, NEW k \in 1..Len(work[q]), NEW rest,
           rest = SubSeq(work[q], k + 1, Len(work[q])), PopFrontTasks(q, rest)
    PROVE  /\ QueuesTyped
           /\ workEmpty' \in [Queues -> BOOLEAN]
           /\ schedules' \in [Queues -> BOOLEAN]
           /\ keys' \in [Queues -> Orders \cup {None}]
<1>1. QueuesTyped
  BY PopRemoves
<1>2. workEmpty' \in [Queues -> BOOLEAN] /\ schedules' \in [Queues -> BOOLEAN]
  BY TakeTyped DEF PopFrontTasks, TypeOK
<1>3. work'[q] \in Seq(Tasks)
  BY <1>1 DEF QueuesTyped
<1>4. FrontKey(fence[q], work'[q]) \in Orders \cup {None}
  BY <1>3, KeysAreOrders
<1>5. keys' = [keys EXCEPT ![q] = FrontKey(fence[q], work'[q])]
  BY DEF PopFrontTasks, OnQueuesFrontTaskChanged
<1>6. keys' \in [Queues -> Orders \cup {None}]
  BY <1>4, <1>5 DEF TypeOK
<1> QED
  BY <1>1, <1>2, <1>6

\* Every variable keeps its type.
LEMMA TypeKept ==
    TypeOK /\ DrawnInv /\ PlaceInv /\ HeapInv /\ [Next]_vars => TypeOK'
<1> SUFFICES ASSUME TypeOK, DrawnInv, PlaceInv, HeapInv, [Next]_vars PROVE
      TypeOK'
  OBVIOUS
<1>0. DrawnInv'
  BY DrawnKept
<1> USE <1>0, BoundsAssumption DEF shared, queueState, loopState, bounds,
    InClientCode, ClientMay, Spend, NoCall, NoOp, TypeOK, MainPCs, Lives
<1>1. ASSUME NEW p \in Posters, NEW q \in Queues, TryBeginOperation(p, q)
      PROVE TypeOK'
  <2>1. [queue |-> q, at |-> "push"] \in [queue : Queues \cup {NoQueue},
                                       at : {"none", "push", "schedule"}]
    OBVIOUS
  <2>2. posts' \in 0..MaxPosts
    BY <1>1 DEF TryBeginOperation
  <2> QED
    BY <1>1, <2>1, <2>2 DEF TryBeginOperation
<1>2. ASSUME NEW p \in Posters, NEW b \in BOOLEAN, PostImmediateTask(p, b)
      PROVE TypeOK'
  <2> USE <1>2 DEF PostImmediateTask
  <2>1. call[p].queue \in Queues
    BY DEF PlaceInv
  <2>2. nextOrder \in Orders /\ PushTask(call[p].queue, b) /\ work' = work
    BY NumbersSuffice
  <2>3. incoming' \in [Queues -> Seq(Tasks)]
    <3> HIDE DEF TypeOK, PostImmediateTask
    <3>1. QueuesTyped
      BY <2>1, <2>2, PushAdds
    <3> QED
      BY <3>1 DEF QueuesTyped
  <2>4. /\ nextOrder' = nextOrder + 1 /\ reload' \subseteq Queues
        /\ UNCHANGED <<workEmpty, schedules, posts, ops>>
    BY <2>1 DEF PushTask
  <2>5. nextOrder' \in FirstOrder..(FirstOrder + MaxPosts + MaxOps)
    BY <2>2, <2>4, NumberTyped DEF Orders, FirstOrder
  <2>6. call' \in [Posters -> [queue : Queues \cup {NoQueue},
                            at : {"none", "push", "schedule"}]]
    BY <2>1
  <2> QED
    BY <2>3, <2>4, <2>5, <2>6
<1>3. ASSUME NEW p \in Posters, ScheduleWork(p) PROVE TypeOK'
  BY <1>3 DEF ScheduleWork
<1>4. ASSUME NEW q \in Queues, NEW b \in BOOLEAN, PostOnBoundThread(q, b)
      PROVE TypeOK'
  <2> USE <1>4 DEF PostOnBoundThread
  <2>2. nextOrder \in Orders /\ PushTask(q, b) /\ work' = work
    BY NumbersSuffice
  <2>3. incoming' \in [Queues -> Seq(Tasks)]
    <3> HIDE DEF TypeOK, PostOnBoundThread
    <3>1. QueuesTyped
      BY <2>2, PushAdds
    <3> QED
      BY <3>1 DEF QueuesTyped
  <2>4. /\ nextOrder' = nextOrder + 1 /\ reload' \subseteq Queues
        /\ UNCHANGED <<workEmpty, schedules, ops>>
    BY DEF PushTask
  <2>5. posts' \in 0..MaxPosts
    OBVIOUS
  <2>6. nextOrder' \in FirstOrder..(FirstOrder + MaxPosts + MaxOps)
    BY <2>2, <2>4, <2>5, NumberTyped DEF Orders, FirstOrder
  <2>7. requested' \in BOOLEAN
    BY DEF WasEmpty
  <2> QED
    BY <2>3, <2>4, <2>5, <2>6, <2>7
<1>5. ASSUME NEW q \in Queues, NEW f \in {nextOrder, BlockingFence},
      InsertFence(q, f) PROVE TypeOK'
  <2> USE <1>5 DEF InsertFence
  <2>1. FrontKey(f, work[q]) \in Orders \cup {None}
    BY KeysAreOrders
  <2>2. keys' \in [Queues -> Orders \cup {None}]
    BY <2>1 DEF OnTaskPushedToEmptyQueue, OnQueueBlocked
  <2>3. ops' \in 0..MaxOps /\ posts' = posts /\ nextOrder \in Orders
    BY NumbersSuffice
  <2>4. nextOrder' \in FirstOrder..(FirstOrder + MaxPosts + MaxOps)
    BY <2>3, NumberTyped DEF Orders, FirstOrder
  <2>5. fence' \in [Queues -> Orders \cup {None, BlockingFence}]
    BY <2>3
  <2>6. op' \in [queue : Queues \cup {NoQueue}, unblocked : BOOLEAN,
                previous : Orders \cup {None, BlockingFence},
                back : {"task", "didRun", "sleep"}]
    <3>1. fence[q] \in Orders \cup {None, BlockingFence} /\ pc \in {"task", "sleep"}
      OBVIOUS
    <3>2. op'.unblocked \in BOOLEAN
      BY DEF BlockedByFence
    <3> QED
      BY <3>1, <3>2 DEF BlockedByFence
  <2> QED
    BY <2>2, <2>3, <2>4, <2>5, <2>6
<1>6. ASSUME NEW q \in Queues, RemoveFence(q) PROVE TypeOK'
  <2> USE <1>6 DEF RemoveFence
  <2>1. FrontKey(None, work[q]) \in Orders \cup {None}
    BY KeysAreOrders
  <2>2. keys' \in [Queues -> Orders \cup {None}]
    BY <2>1 DEF OnTaskPushedToEmptyQueue
  <2>3. requested' \in BOOLEAN
    BY DEF IncomingUnblocked, BlockedByFence
  <2>4. workEmpty' \in [Queues -> BOOLEAN] /\ schedules' \in [Queues -> BOOLEAN]
    BY DEF UpdateCrossThreadQueueState
  <2>5. /\ fence' \in [Queues -> Orders \cup {None, BlockingFence}]
        /\ ops' \in 0..MaxOps
    OBVIOUS
  <2> QED
    BY <2>2, <2>3, <2>4, <2>5
<1>7. ASSUME NEW q \in Queues, SetQueueEnabled(q) PROVE TypeOK'
  <2> USE <1>7 DEF SetQueueEnabled
  <2>1. workEmpty' \in [Queues -> BOOLEAN] /\ schedules' \in [Queues -> BOOLEAN]
    BY DEF UpdateCrossThreadQueueState
  <2>2. enabled' \in [Queues -> BOOLEAN] /\ ops' \in 0..MaxOps
    OBVIOUS
  <2>3. op' \in [queue : Queues \cup {NoQueue}, unblocked : BOOLEAN,
                previous : Orders \cup {None, BlockingFence},
                back : {"task", "didRun", "sleep"}]
    OBVIOUS
  <2> QED
    BY <2>1, <2>2, <2>3
<1>8. ASSUME NEW q \in Queues, ShutdownTaskQueue(q) PROVE TypeOK'
  <2> USE <1>8 DEF ShutdownTaskQueue, BeginUnregister, RemoveQueue
  <2>1. life' \in [Queues -> Lives] /\ ops' \in 0..MaxOps
    OBVIOUS
  <2>2. op' \in [queue : Queues \cup {NoQueue}, unblocked : BOOLEAN,
                previous : Orders \cup {None, BlockingFence},
                back : {"task", "didRun", "sleep"}]
    OBVIOUS
  <2>3. keys' \in [Queues -> Orders \cup {None}]
    OBVIOUS
  <2> QED
    BY <2>1, <2>2, <2>3
<1>9. ASSUME NEW q \in Queues, ShutdownTaskQueueGracefully(q) PROVE TypeOK'
  BY <1>9 DEF ShutdownTaskQueueGracefully
<1>10. ASSUME NEW q \in Queues, CancelTask(q) PROVE TypeOK'
  <2>1. \A i \in DOMAIN work[q] : work[q][i].order \in Orders
    <3>1. work[q] \in Seq(Tasks)
      OBVIOUS
    <3>2. \A i \in DOMAIN work[q] : work[q][i] \in Tasks
      BY <3>1, ElementOfSeq, LenProperties
    <3> QED
      BY <3>2 DEF Tasks
  <2>2. canceled' \subseteq Orders
    BY <1>10, <2>1 DEF CancelTask
  <2> QED
    BY <1>10, <2>2 DEF CancelTask
<1>11. CASE BeginNestedRunLoop
  <2>1. depth' \in 0..MaxDepth /\ ops' \in 0..MaxOps
    BY <1>11, BoundsAssumption DEF BeginNestedRunLoop
  <2> QED
    BY <1>11, <2>1 DEF BeginNestedRunLoop
<1>12. CASE ExitNestedRunLoop
  <2>1. depth' \in 0..MaxDepth
    BY <1>12, BoundsAssumption DEF ExitNestedRunLoop
  <2> QED
    BY <1>12, <2>1 DEF ExitNestedRunLoop
<1>13. CASE BeginWork
  BY <1>13 DEF BeginWork
<1>14. CASE SelectNextTask
  BY <1>14 DEF SelectNextTask, RunActiveCallbacks
<1>15. CASE SelectNoTask
  BY <1>15 DEF SelectNoTask, MainGoes
<1>16. CASE DidRunTask
  BY <1>16 DEF DidRunTask, MainGoes
<1>17. CASE WillCheckForMoreWork
  BY <1>17 DEF WillCheckForMoreWork
<1>18. CASE DelayTillNextTask
  BY <1>18 DEF DelayTillNextTask, MainGoes, RunActiveCallbacks
<1>19. CASE DelayAfterReload
  BY <1>19 DEF DelayAfterReload, MainGoes
<1>20. CASE WaitReturns
  BY <1>20 DEF WaitReturns, MainGoes
<1>21. ASSUME NEW q \in Queues, ReloadEmptyImmediateWorkQueue(q) PROVE TypeOK'
  <2> USE <1>21 DEF ReloadEmptyImmediateWorkQueue
  <2>1. /\ QueuesTyped
        /\ workEmpty' \in [Queues -> BOOLEAN] /\ schedules' \in [Queues -> BOOLEAN]
    BY TakeTyped
  <2>2. FrontKey(fence[q], incoming[q]) \in Orders \cup {None}
    BY KeysAreOrders
  <2>3. keys' \in [Queues -> Orders \cup {None}]
    BY <2>2 DEF OnTaskPushedToEmptyQueue
  <2> QED
    BY <2>1, <2>3 DEF QueuesTyped
<1>22. ASSUME NEW q \in Queues, DropCanceledTasks(q) PROVE TypeOK'
  <2> USE <1>22 DEF DropCanceledTasks
  <2>1. PICK k \in 1..Len(work[q]) :
            PopFrontTasks(q, SubSeq(work[q], k + 1, Len(work[q])))
    OBVIOUS
  <2>2. /\ QueuesTyped
        /\ workEmpty' \in [Queues -> BOOLEAN] /\ schedules' \in [Queues -> BOOLEAN]
        /\ keys' \in [Queues -> Orders \cup {None}]
    BY <2>1, PopTyped
  <2> QED
    BY <2>2 DEF QueuesTyped
<1>23. ASSUME NEW q \in Queues, DeferTask(q) PROVE TypeOK'
  <2> USE <1>23 DEF DeferTask
  <2>1. /\ Head(work[q]) \in Tasks /\ 1 \in 1..Len(work[q])
        /\ Tail(work[q]) = SubSeq(work[q], 1 + 1, Len(work[q]))
    BY SelectedHasTask DEF HeapInv
  <2>2. /\ QueuesTyped
        /\ workEmpty' \in [Queues -> BOOLEAN] /\ schedules' \in [Queues -> BOOLEAN]
        /\ keys' \in [Queues -> Orders \cup {None}]
    BY <2>1, PopTyped
  <2>3. deferred' \in Seq([task : Tasks, queue : Queues])
    <3> DEFINE D == [task : Tasks, queue : Queues]
    <3> DEFINE d == [task |-> Head(work[q]), queue |-> q]
    <3>1. deferred \in Seq(D) /\ d \in D /\ deferred' = Append(deferred, d)
      BY <2>1
    <3> HIDE DEF D, d
    <3>2. deferred' \in Seq(D)
      BY <3>1, AppendProperties
    <3> QED
      BY <3>2 DEF D
  <2> QED
    BY <2>2, <2>3 DEF QueuesTyped
<1>24. ASSUME NEW q \in Queues, RunTask(q) PROVE TypeOK'
  <2> USE <1>24 DEF RunTask
  <2>1. /\ Head(work[q]) \in Tasks /\ 1 \in 1..Len(work[q])
        /\ Tail(work[q]) = SubSeq(work[q], 1 + 1, Len(work[q]))
    BY SelectedHasTask DEF HeapInv
  <2>2. /\ QueuesTyped
        /\ workEmpty' \in [Queues -> BOOLEAN] /\ schedules' \in [Queues -> BOOLEAN]
        /\ keys' \in [Queues -> Orders \cup {None}]
    BY <2>1, PopTyped
  <2>3. ran' \in [Queues -> [BOOLEAN -> Orders \cup {None}]]
    <3>1. Head(work[q]).order \in Orders /\ Head(work[q]).nestable \in BOOLEAN
      BY <2>1 DEF Tasks
    <3> QED
      BY <3>1
  <2> QED
    BY <2>2, <2>3 DEF QueuesTyped
<1>25. CASE RequeueDeferredNonNestableTask
  <2> USE <1>25 DEF RequeueDeferredNonNestableTask
  <2> DEFINE q == LastDeferred.queue
  <2> DEFINE t == LastDeferred.task
  <2>1. q \in Queues /\ QueuesTyped
    BY RequeuePutsFirst
  <2>2. deferred' \in Seq([task : Tasks, queue : Queues])
    BY LastOfDeferred
  <2>3. PushNonNestableTaskToFront(q, t)
    OBVIOUS
  <2>4. reload' \subseteq Queues /\ workEmpty' \in [Queues -> BOOLEAN]
    BY <2>1
  <2>5. UNCHANGED <<schedules, enabled, fence, life, canceled, depth,
                    reloading, pc, op, requested, call, nextOrder, bounds>>
    OBVIOUS
  <2> HIDE DEF q, t, RequeueDeferredNonNestableTask
  <2>6. FrontKey(fence[q], work'[q]) \in Orders \cup {None}
    BY <2>1, KeysAreOrders DEF QueuesTyped
  <2>7. keys' \in [Queues -> Orders \cup {None}]
    BY <2>1, <2>3, <2>6 DEF PushNonNestableTaskToFront, OnQueuesFrontTaskChanged
  <2> QED
    BY <2>1, <2>2, <2>4, <2>5, <2>7 DEF QueuesTyped
<1>26. CASE RequeueDone
  BY <1>26 DEF RequeueDone, MainGoes
<1>27. CASE RequeueToUnregistered
  BY <1>27 DEF RequeueToUnregistered, MainGoes
<1>28. CASE FinishInsertFence
  <2> USE <1>28 DEF FinishInsertFence
  <2>1. workEmpty' \in [Queues -> BOOLEAN] /\ schedules' \in [Queues -> BOOLEAN]
    BY DEF UpdateCrossThreadQueueState, PlaceInv, InOperation
  <2>2. requested' \in BOOLEAN
    BY DEF IncomingUnblocked
  <2> QED
    BY <2>1, <2>2
<1>29. CASE FinishSetQueueEnabled
  <2> USE <1>29 DEF FinishSetQueueEnabled
  <2>1. op.queue \in Queues
    BY DEF PlaceInv, InOperation
  <2>2. FrontKey(fence[op.queue], work[op.queue]) \in Orders \cup {None}
    BY <2>1, KeysAreOrders
  <2>3. keys' \in [Queues -> Orders \cup {None}]
    BY <2>1, <2>2 DEF AddQueue, RemoveQueue
  <2>4. requested' \in BOOLEAN
    BY DEF QueueBlockedByFence
  <2> QED
    BY <2>3, <2>4
<1>30. CASE UnregisterTaskQueue
  <2> USE <1>30 DEF UnregisterTaskQueue
  <2>1. incoming' \in [Queues -> Seq(Tasks)] /\ work' \in [Queues -> Seq(Tasks)]
    BY EmptySeq
  <2>2. life' \in [Queues -> Lives] /\ reload' \subseteq Queues
    OBVIOUS
  <2> QED
    BY <2>1, <2>2
<1>31. CASE CleanUpQueues
  <2>1. CASE MainGoes("didRun", "check")
    BY <2>1 DEF MainGoes
  <2>2. ASSUME NEW q \in Queues, BeginUnregister(q, "didRun"), UNCHANGED ops
        PROVE  TypeOK'
    BY <2>2 DEF BeginUnregister, RemoveQueue
  <2> QED
    BY <1>31, <2>1, <2>2 DEF CleanUpQueues
<1>32. CASE UNCHANGED vars
  BY <1>32 DEF vars
<1> HIDE DEF shared, queueState, loopState, bounds, InClientCode, ClientMay,
    Spend, NoCall, NoOp, TypeOK, MainPCs, Lives
<1> QED
  BY <1>1, <1>2, <1>3, <1>4, <1>5, <1>6, <1>7, <1>8, <1>9, <1>10, <1>11,
     <1>12, <1>13, <1>14, <1>15, <1>16, <1>17, <1>18, <1>19, <1>20, <1>21,
     <1>22, <1>23, <1>24, <1>25, <1>26, <1>27, <1>28, <1>29, <1>30, <1>31,
     <1>32 DEF Next, CallStep, ClientStep, MainStep, Wake

-----------------------------------------------------------------------------
(* Places, lives, flags and what posting threads are told.                   *)

\* Deferred tasks wait for the outermost loop; flags that were taken are
\* served before anything else.
LEMMA PlaceKept ==
    TypeOK /\ PlaceInv /\ [Next]_vars => PlaceInv'
<1> SUFFICES ASSUME TypeOK, PlaceInv, [Next]_vars PROVE PlaceInv'
  OBVIOUS
<1> USE NoQueueAssumption DEF shared, queueState, loopState, bounds,
    InClientCode, ClientMay, Spend, NoCall, NoOp, PlaceInv, InOperation,
    TypeOK, MainPCs
<1>1. ASSUME NEW p \in Posters, NEW q \in Queues, TryBeginOperation(p, q)
      PROVE PlaceInv'
  BY <1>1 DEF TryBeginOperation
<1>2. ASSUME NEW p \in Posters, NEW b \in BOOLEAN, PostImmediateTask(p, b)
      PROVE PlaceInv'
  <2> USE <1>2 DEF PostImmediateTask
  <2>1. call[p].queue \in Queues
    OBVIOUS
  <2>2. \A r \in Posters : call'[r].at = "none" <=> call'[r].queue = NoQueue
    BY <2>1
  <2> QED
    BY <2>2
<1>3. ASSUME NEW p \in Posters, ScheduleWork(p) PROVE PlaceInv'
  BY <1>3 DEF ScheduleWork
<1>4. ASSUME NEW q \in Queues, NEW b \in BOOLEAN, PostOnBoundThread(q, b)
      PROVE PlaceInv'
  BY <1>4 DEF PostOnBoundThread, PushTask
<1>5. ASSUME NEW q \in Queues, NEW f \in {nextOrder, BlockingFence},
      InsertFence(q, f) PROVE PlaceInv'
  BY <1>5 DEF InsertFence
<1>6. ASSUME NEW q \in Queues, RemoveFence(q) PROVE PlaceInv'
  BY <1>6 DEF RemoveFence
<1>7. ASSUME NEW q \in Queues, SetQueueEnabled(q) PROVE PlaceInv'
  BY <1>7 DEF SetQueueEnabled
<1>8. ASSUME NEW q \in Queues, ShutdownTaskQueue(q) PROVE PlaceInv'
  BY <1>8 DEF ShutdownTaskQueue, BeginUnregister
<1>9. ASSUME NEW q \in Queues, ShutdownTaskQueueGracefully(q) PROVE PlaceInv'
  BY <1>9 DEF ShutdownTaskQueueGracefully
<1>10. ASSUME NEW q \in Queues, CancelTask(q) PROVE PlaceInv'
  BY <1>10 DEF CancelTask
<1>11. CASE BeginNestedRunLoop
  BY <1>11 DEF BeginNestedRunLoop
<1>12. CASE ExitNestedRunLoop
  BY <1>12 DEF ExitNestedRunLoop
<1>13. CASE BeginWork
  BY <1>13 DEF BeginWork
<1>14. CASE SelectNextTask
  BY <1>14 DEF SelectNextTask, RunActiveCallbacks
<1>15. CASE SelectNoTask
  BY <1>15 DEF SelectNoTask, MainGoes
<1>16. CASE DidRunTask
  BY <1>16 DEF DidRunTask, MainGoes
<1>17. CASE WillCheckForMoreWork
  BY <1>17 DEF WillCheckForMoreWork
<1>18. CASE DelayTillNextTask
  BY <1>18 DEF DelayTillNextTask, MainGoes, RunActiveCallbacks
<1>19. CASE DelayAfterReload
  BY <1>19 DEF DelayAfterReload, MainGoes
<1>20. CASE WaitReturns
  BY <1>20 DEF WaitReturns, MainGoes
<1>21. ASSUME NEW q \in Queues, ReloadEmptyImmediateWorkQueue(q) PROVE
      PlaceInv'
  BY <1>21 DEF ReloadEmptyImmediateWorkQueue
<1>22. ASSUME NEW q \in Queues, DropCanceledTasks(q) PROVE PlaceInv'
  BY <1>22 DEF DropCanceledTasks, SelectWorkQueueToService
<1>23. ASSUME NEW q \in Queues, DeferTask(q) PROVE PlaceInv'
  BY <1>23 DEF DeferTask, MustDefer, SelectWorkQueueToService
<1>24. ASSUME NEW q \in Queues, RunTask(q) PROVE PlaceInv'
  BY <1>24 DEF RunTask, SelectWorkQueueToService
<1>25. CASE RequeueDeferredNonNestableTask
  BY <1>25 DEF RequeueDeferredNonNestableTask
<1>26. CASE RequeueDone
  BY <1>26 DEF RequeueDone, MainGoes
<1>27. CASE RequeueToUnregistered
  BY <1>27 DEF RequeueToUnregistered, MainGoes
<1>28. CASE FinishInsertFence
  BY <1>28 DEF FinishInsertFence
<1>29. CASE FinishSetQueueEnabled
  BY <1>29 DEF FinishSetQueueEnabled
<1>30. CASE UnregisterTaskQueue
  BY <1>30 DEF UnregisterTaskQueue
<1>31. CASE CleanUpQueues
  BY <1>31 DEF CleanUpQueues, BeginUnregister, MainGoes
<1>32. CASE UNCHANGED vars
  BY <1>32 DEF vars
<1> HIDE DEF shared, queueState, loopState, bounds, InClientCode, ClientMay,
    Spend, NoCall, NoOp, PlaceInv, InOperation, TypeOK, MainPCs
<1> QED
  BY <1>1, <1>2, <1>3, <1>4, <1>5, <1>6, <1>7, <1>8, <1>9, <1>10, <1>11,
     <1>12, <1>13, <1>14, <1>15, <1>16, <1>17, <1>18, <1>19, <1>20, <1>21,
     <1>22, <1>23, <1>24, <1>25, <1>26, <1>27, <1>28, <1>29, <1>30, <1>31,
     <1>32 DEF Next, CallStep, ClientStep, MainStep, Wake

\* A queue is closed once, and then it is empty for ever.
LEMMA LifeKept ==
    TypeOK /\ PlaceInv /\ LifeInv /\ FlagInv /\ HeapInv /\ [Next]_vars =>
    LifeInv'
<1> SUFFICES ASSUME TypeOK, PlaceInv, LifeInv, FlagInv, HeapInv, [Next]_vars
      PROVE LifeInv'
  OBVIOUS
<1> USE NoQueueAssumption DEF shared, queueState, loopState, bounds,
    InClientCode, ClientMay, Spend, NoCall, NoOp, LifeInv, TypeOK, MainPCs,
    Lives
<1>1. ASSUME NEW p \in Posters, NEW q \in Queues, TryBeginOperation(p, q)
      PROVE LifeInv'
  BY <1>1 DEF TryBeginOperation
<1>2. ASSUME NEW p \in Posters, NEW b \in BOOLEAN, PostImmediateTask(p, b)
      PROVE LifeInv'
  <2> USE <1>2 DEF PostImmediateTask, PushTask
  <2>1. call[p].queue \in Queues
    BY DEF PlaceInv
  <2>2. \A r \in Queues \ {call[p].queue} : incoming'[r] = incoming[r]
    OBVIOUS
  <2>3. life[call[p].queue] # "gone"
    BY <2>1
  <2>4. \A r \in Posters : call'[r].queue \in {NoQueue, call[r].queue}
    OBVIOUS
  <2>5. UNCHANGED <<work, life, pc, op>>
    OBVIOUS
  <2> HIDE DEF PostImmediateTask, PushTask
  <2> QED
    BY <2>2, <2>3, <2>4, <2>5
<1>3. ASSUME NEW p \in Posters, ScheduleWork(p) PROVE LifeInv'
  BY <1>3 DEF ScheduleWork
<1>4. ASSUME NEW q \in Queues, NEW b \in BOOLEAN, PostOnBoundThread(q, b)
      PROVE LifeInv'
  <2>1. /\ \A r \in Queues \ {q} : incoming'[r] = incoming[r]
        /\ life[q] # "gone" /\ UNCHANGED <<work, life, pc, op, call>>
    BY <1>4 DEF PostOnBoundThread, PushTask
  <2> QED
    BY <2>1
<1>5. ASSUME NEW q \in Queues, NEW f \in {nextOrder, BlockingFence},
      InsertFence(q, f) PROVE LifeInv'
  BY <1>5 DEF InsertFence
<1>6. ASSUME NEW q \in Queues, RemoveFence(q) PROVE LifeInv'
  BY <1>6 DEF RemoveFence
<1>7. ASSUME NEW q \in Queues, SetQueueEnabled(q) PROVE LifeInv'
  BY <1>7 DEF SetQueueEnabled
<1>8. ASSUME NEW q \in Queues, ShutdownTaskQueue(q) PROVE LifeInv'
  BY <1>8 DEF ShutdownTaskQueue, BeginUnregister
<1>9. ASSUME NEW q \in Queues, ShutdownTaskQueueGracefully(q) PROVE LifeInv'
  BY <1>9 DEF ShutdownTaskQueueGracefully
<1>10. ASSUME NEW q \in Queues, CancelTask(q) PROVE LifeInv'
  BY <1>10 DEF CancelTask
<1>11. CASE BeginNestedRunLoop
  BY <1>11 DEF BeginNestedRunLoop
<1>12. CASE ExitNestedRunLoop
  BY <1>12 DEF ExitNestedRunLoop
<1>13. CASE BeginWork
  BY <1>13 DEF BeginWork
<1>14. CASE SelectNextTask
  BY <1>14 DEF SelectNextTask, RunActiveCallbacks
<1>15. CASE SelectNoTask
  BY <1>15 DEF SelectNoTask, MainGoes
<1>16. CASE DidRunTask
  BY <1>16 DEF DidRunTask, MainGoes
<1>17. CASE WillCheckForMoreWork
  BY <1>17 DEF WillCheckForMoreWork
<1>18. CASE DelayTillNextTask
  BY <1>18 DEF DelayTillNextTask, MainGoes, RunActiveCallbacks
<1>19. CASE DelayAfterReload
  BY <1>19 DEF DelayAfterReload, MainGoes
<1>20. CASE WaitReturns
  BY <1>20 DEF WaitReturns, MainGoes
<1>21. ASSUME NEW q \in Queues, ReloadEmptyImmediateWorkQueue(q) PROVE
      LifeInv'
  <2>1. /\ pc \in {"select", "delayed"} /\ work[q] = <<>> /\ incoming[q] # <<>>
        /\ UNCHANGED <<life, op, call, pc>>
    BY <1>21 DEF ReloadEmptyImmediateWorkQueue, FlagInv
  <2>2. OthersKept(q)
    <3> HIDE DEF TypeOK
    <3> QED
      BY <1>21, <2>1, ReloadKeeps DEF ReloadEmptyImmediateWorkQueue
  <2> QED
    BY <2>1, <2>2 DEF OthersKept
<1>22. ASSUME NEW q \in Queues, DropCanceledTasks(q) PROVE LifeInv'
  <2>1. /\ life[q] # "gone" /\ pc = "select" /\ OthersKept(q)
        /\ UNCHANGED <<life, op, call>> /\ pc' \in {"select", "task"}
    <3> HIDE DEF TypeOK
    <3>1. /\ SelectWorkQueueToService(q) /\ UNCHANGED <<life, op, call>>
          /\ pc' \in {pc, "task"}
          /\ \E rest : PopFrontTasks(q, rest)
      BY <1>22 DEF DropCanceledTasks
    <3>2. life[q] # "gone" /\ pc = "select"
      BY <3>1, SelectedHasTask DEF HeapInv, SelectWorkQueueToService
    <3>3. OthersKept(q)
      BY <3>1 DEF OthersKept, PopFrontTasks, TakeImmediateIncomingQueueTasks, TypeOK
    <3> QED
      BY <3>1, <3>2, <3>3
  <2> QED
    BY <2>1 DEF OthersKept
<1>23. ASSUME NEW q \in Queues, DeferTask(q) PROVE LifeInv'
  <2>1. /\ life[q] # "gone" /\ pc = "select" /\ OthersKept(q)
        /\ UNCHANGED <<life, op, call>> /\ pc' \in {"select", "task"}
    <3> HIDE DEF TypeOK
    <3>1. /\ SelectWorkQueueToService(q) /\ UNCHANGED <<life, op, call>>
          /\ pc' \in {pc, "task"}
          /\ \E rest : PopFrontTasks(q, rest)
      BY <1>23 DEF DeferTask
    <3>2. life[q] # "gone" /\ pc = "select"
      BY <3>1, SelectedHasTask DEF HeapInv, SelectWorkQueueToService
    <3>3. OthersKept(q)
      BY <3>1 DEF OthersKept, PopFrontTasks, TakeImmediateIncomingQueueTasks, TypeOK
    <3> QED
      BY <3>1, <3>2, <3>3
  <2> QED
    BY <2>1 DEF OthersKept
<1>24. ASSUME NEW q \in Queues, RunTask(q) PROVE LifeInv'
  <2>1. /\ life[q] # "gone" /\ pc = "select" /\ OthersKept(q)
        /\ UNCHANGED <<life, op, call>> /\ pc' \in {"select", "task"}
    <3> HIDE DEF TypeOK
    <3>1. /\ SelectWorkQueueToService(q) /\ UNCHANGED <<life, op, call>>
          /\ pc' \in {pc, "task"}
          /\ \E rest : PopFrontTasks(q, rest)
      BY <1>24 DEF RunTask
    <3>2. life[q] # "gone" /\ pc = "select"
      BY <3>1, SelectedHasTask DEF HeapInv, SelectWorkQueueToService
    <3>3. OthersKept(q)
      BY <3>1 DEF OthersKept, PopFrontTasks, TakeImmediateIncomingQueueTasks, TypeOK
    <3> QED
      BY <3>1, <3>2, <3>3
  <2> QED
    BY <2>1 DEF OthersKept
<1>25. CASE RequeueDeferredNonNestableTask
  <2> DEFINE q == LastDeferred.queue
  <2>1. /\ q \in Queues /\ OthersKept(q)
        /\ life[q] # "gone" /\ UNCHANGED <<life, op, call, pc>>
    <3> HIDE DEF TypeOK
    <3> QED
      BY <1>25, RequeuePutsFirst DEF RequeueDeferredNonNestableTask
  <2> HIDE DEF q
  <2> QED
    BY <2>1 DEF OthersKept
<1>26. CASE RequeueDone
  BY <1>26 DEF RequeueDone, MainGoes
<1>27. CASE RequeueToUnregistered
  BY <1>27 DEF RequeueToUnregistered, MainGoes
<1>28. CASE FinishInsertFence
  <2>1. /\ pc = "fence" /\ pc' \in {"task", "didRun", "sleep"}
        /\ UNCHANGED <<work, incoming, life, call>>
    BY <1>28 DEF FinishInsertFence
  <2> QED
    BY <2>1
<1>29. CASE FinishSetQueueEnabled
  <2>1. /\ pc = "enable" /\ pc' \in {"task", "didRun", "sleep"}
        /\ UNCHANGED <<work, incoming, life, call>>
    BY <1>29 DEF FinishSetQueueEnabled
  <2> QED
    BY <2>1
<1>30. CASE UnregisterTaskQueue
  <2> USE <1>30 DEF UnregisterTaskQueue
  <2>1. op.queue \in Queues /\ \A r \in Queues \ {op.queue} : life[r] # "closing"
    BY DEF PlaceInv, InOperation
  <2>2. /\ pc' \in {"task", "didRun", "sleep"}
        /\ life' = [life EXCEPT ![op.queue] = "gone"]
        /\ incoming' = [incoming EXCEPT ![op.queue] = <<>>]
        /\ work' = [work EXCEPT ![op.queue] = <<>>]
        /\ call' = call /\ \A p \in Posters : call[p].queue # op.queue
    OBVIOUS
  <2> HIDE DEF UnregisterTaskQueue
  <2> QED
    BY <2>1, <2>2
<1>31. CASE CleanUpQueues
  <2>1. CASE MainGoes("didRun", "check")
    BY <2>1 DEF MainGoes
  <2>2. ASSUME NEW q \in Queues, BeginUnregister(q, "didRun"), pc = "didRun",
               life[q] = "graceful"
        PROVE  LifeInv'
    BY <2>2 DEF BeginUnregister
  <2> QED
    BY <1>31, <2>1, <2>2 DEF CleanUpQueues
<1>32. CASE UNCHANGED vars
  BY <1>32 DEF vars
<1> HIDE DEF shared, queueState, loopState, bounds, InClientCode, ClientMay,
    Spend, NoCall, NoOp, LifeInv, TypeOK, MainPCs, Lives
<1> QED
  BY <1>1, <1>2, <1>3, <1>4, <1>5, <1>6, <1>7, <1>8, <1>9, <1>10, <1>11,
     <1>12, <1>13, <1>14, <1>15, <1>16, <1>17, <1>18, <1>19, <1>20, <1>21,
     <1>22, <1>23, <1>24, <1>25, <1>26, <1>27, <1>28, <1>29, <1>30, <1>31,
     <1>32 DEF Next, CallStep, ClientStep, MainStep, Wake

LEMMA PushFlags ==
    ASSUME TypeOK, FlagInv, ToldInv, NEW q \in Queues, life[q] # "gone",
           NEW b \in BOOLEAN, PushTask(q, b), nextOrder \in Orders,
           UNCHANGED <<work, reloading>>
    PROVE  FlagInv'
<1>1. OthersKept(q) /\ incoming'[q] # <<>>
  BY PushAdds
<1>2. workEmpty[q] <=> work[q] = <<>>
  BY DEF ToldInv
<1>3. reload' = IF incoming[q] = <<>> /\ workEmpty[q] THEN reload \cup {q} ELSE reload
  BY DEF PushTask, WasEmpty
<1>4. ASSUME NEW r \in Queues
      PROVE  r \in reload' \cup reloading <=> work[r] = <<>> /\ incoming'[r] # <<>>
  BY <1>1, <1>2, <1>3 DEF FlagInv, OthersKept
<1>5. reload' \cap reloading = {}
  BY <1>2, <1>3 DEF FlagInv
<1> QED
  BY <1>4, <1>5 DEF FlagInv

\* A work queue that a task was taken from has no flag, and needs none.
LEMMA PopFlags ==
    ASSUME TypeOK, FlagInv, HeapInv, NEW q \in Queues, NEW rest,
           SelectWorkQueueToService(q), PopFrontTasks(q, rest),
           UNCHANGED <<reload, reloading>>
    PROVE  FlagInv'
<1>1. work[q] # <<>> /\ reloading = {}
  BY SelectedHasTask DEF HeapInv, SelectWorkQueueToService
<1>2. /\ work'[q] # <<>> \/ incoming'[q] = <<>>
      /\ \A r \in Queues \ {q} : work'[r] = work[r] /\ incoming'[r] = incoming[r]
  BY DEF PopFrontTasks, TakeImmediateIncomingQueueTasks, TypeOK
<1> QED
  BY <1>1, <1>2 DEF FlagInv

LEMMA PopTold ==
    ASSUME TypeOK, ToldInv, HeapInv, NEW q \in Queues, NEW rest,
           SelectWorkQueueToService(q), PopFrontTasks(q, rest),
           pc' # "fence", UNCHANGED <<life, enabled, fence>>
    PROVE  ToldInv'
<1>1. work[q] # <<>> /\ life[q] # "gone" /\ pc = "select"
  BY SelectedHasTask DEF HeapInv, SelectWorkQueueToService
<1>2. CASE rest # <<>>
  <2>1. work' = [work EXCEPT ![q] = rest] /\ UNCHANGED <<workEmpty, schedules>>
    BY <1>2 DEF PopFrontTasks
  <2> QED
    BY <1>1, <1>2, <2>1 DEF ToldInv, KnownFence, TypeOK
<1>3. CASE rest = <<>>
  <2>1. /\ work' = [work EXCEPT ![q] = incoming[q]]
        /\ workEmpty' = [workEmpty EXCEPT ![q] = (incoming[q] = <<>>)]
        /\ schedules' = [schedules EXCEPT ![q] = enabled[q] /\ fence[q] = None]
    BY <1>3 DEF PopFrontTasks, TakeImmediateIncomingQueueTasks,
        UpdateCrossThreadQueueState
  <2> QED
    BY <1>1, <2>1 DEF ToldInv, KnownFence, TypeOK
<1> QED
  BY <1>2, <1>3

\* A flag is set when tasks come to an empty queue, and only taken away when
\* the work queue has tasks again.
LEMMA FlagsKept ==
    TypeOK /\ DrawnInv /\ PlaceInv /\ LifeInv /\ FlagInv /\ ToldInv /\
    HeapInv /\ [Next]_vars => FlagInv'
<1> SUFFICES ASSUME TypeOK, DrawnInv, PlaceInv, LifeInv, FlagInv, ToldInv,
      HeapInv, [Next]_vars PROVE FlagInv'
  OBVIOUS
<1> USE DEF shared, queueState, loopState, bounds, InClientCode, ClientMay,
    Spend, FlagInv, TypeOK
<1>1. ASSUME NEW p \in Posters, NEW q \in Queues, TryBeginOperation(p, q)
      PROVE FlagInv'
  BY <1>1 DEF TryBeginOperation
<1>2. ASSUME NEW p \in Posters, NEW b \in BOOLEAN, PostImmediateTask(p, b)
      PROVE FlagInv'
  <2> HIDE DEF TypeOK, FlagInv, LifeInv
  <2>1. call[p].queue \in Queues /\ life[call[p].queue] # "gone"
    BY <1>2 DEF PostImmediateTask, PlaceInv, LifeInv, TypeOK
  <2>2. /\ PushTask(call[p].queue, b) /\ nextOrder \in Orders
        /\ UNCHANGED <<work, reloading>>
    BY <1>2, NumbersSuffice DEF PostImmediateTask
  <2> QED
    BY <2>1, <2>2, PushFlags
<1>3. ASSUME NEW p \in Posters, ScheduleWork(p) PROVE FlagInv'
  BY <1>3 DEF ScheduleWork
<1>4. ASSUME NEW q \in Queues, NEW b \in BOOLEAN, PostOnBoundThread(q, b)
      PROVE FlagInv'
  <2> HIDE DEF TypeOK, FlagInv
  <2>1. /\ PushTask(q, b) /\ nextOrder \in Orders /\ life[q] # "gone"
        /\ UNCHANGED <<work, reloading>>
    BY <1>4, NumbersSuffice DEF PostOnBoundThread
  <2> QED
    BY <2>1, PushFlags
<1>5. ASSUME NEW q \in Queues, NEW f \in {nextOrder, BlockingFence},
      InsertFence(q, f) PROVE FlagInv'
  BY <1>5 DEF InsertFence
<1>6. ASSUME NEW q \in Queues, RemoveFence(q) PROVE FlagInv'
  BY <1>6 DEF RemoveFence
<1>7. ASSUME NEW q \in Queues, SetQueueEnabled(q) PROVE FlagInv'
  BY <1>7 DEF SetQueueEnabled
<1>8. ASSUME NEW q \in Queues, ShutdownTaskQueue(q) PROVE FlagInv'
  BY <1>8 DEF ShutdownTaskQueue, BeginUnregister
<1>9. ASSUME NEW q \in Queues, ShutdownTaskQueueGracefully(q) PROVE FlagInv'
  BY <1>9 DEF ShutdownTaskQueueGracefully
<1>10. ASSUME NEW q \in Queues, CancelTask(q) PROVE FlagInv'
  BY <1>10 DEF CancelTask
<1>11. CASE BeginNestedRunLoop
  BY <1>11 DEF BeginNestedRunLoop
<1>12. CASE ExitNestedRunLoop
  BY <1>12 DEF ExitNestedRunLoop
<1>13. CASE BeginWork
  BY <1>13 DEF BeginWork
<1>14. CASE SelectNextTask
  BY <1>14 DEF SelectNextTask, MainGoes, RunActiveCallbacks, PlaceInv
<1>15. CASE SelectNoTask
  BY <1>15 DEF SelectNoTask, MainGoes
<1>16. CASE DidRunTask
  BY <1>16 DEF DidRunTask, MainGoes
<1>17. CASE WillCheckForMoreWork
  BY <1>17 DEF WillCheckForMoreWork
<1>18. CASE DelayTillNextTask
  BY <1>18 DEF DelayTillNextTask, MainGoes, RunActiveCallbacks, PlaceInv
<1>19. CASE DelayAfterReload
  BY <1>19 DEF DelayAfterReload, MainGoes
<1>20. CASE WaitReturns
  BY <1>20 DEF WaitReturns, MainGoes
<1>21. ASSUME NEW q \in Queues, ReloadEmptyImmediateWorkQueue(q) PROVE
      FlagInv'
  <2>1. /\ work[q] = <<>> /\ q \in reloading /\ incoming[q] # <<>>
        /\ reloading' = reloading \ {q} /\ reload' = reload
        /\ TakeImmediateIncomingQueueTasks(q)
    BY <1>21 DEF ReloadEmptyImmediateWorkQueue
  <2>2. /\ OthersKept(q) /\ work'[q] = incoming[q] /\ incoming'[q] = <<>>
    <3> HIDE DEF TypeOK
    <3> QED
      BY <2>1, ReloadKeeps
  <2> QED
    BY <2>1, <2>2 DEF OthersKept
<1>22. ASSUME NEW q \in Queues, DropCanceledTasks(q) PROVE FlagInv'
  <2> HIDE DEF TypeOK, FlagInv
  <2>1. /\ SelectWorkQueueToService(q) /\ \E rest : PopFrontTasks(q, rest)
        /\ UNCHANGED <<reload, reloading>>
    BY <1>22 DEF DropCanceledTasks
  <2> QED
    BY <2>1, PopFlags
<1>23. ASSUME NEW q \in Queues, DeferTask(q) PROVE FlagInv'
  <2> HIDE DEF TypeOK, FlagInv
  <2>1. /\ SelectWorkQueueToService(q) /\ \E rest : PopFrontTasks(q, rest)
        /\ UNCHANGED <<reload, reloading>>
    BY <1>23 DEF DeferTask
  <2> QED
    BY <2>1, PopFlags
<1>24. ASSUME NEW q \in Queues, RunTask(q) PROVE FlagInv'
  <2> HIDE DEF TypeOK, FlagInv
  <2>1. /\ SelectWorkQueueToService(q) /\ \E rest : PopFrontTasks(q, rest)
        /\ UNCHANGED <<reload, reloading>>
    BY <1>24 DEF RunTask
  <2> QED
    BY <2>1, PopFlags
<1>25. CASE RequeueDeferredNonNestableTask
  <2> DEFINE q == LastDeferred.queue
  <2>1. /\ q \in Queues /\ OthersKept(q) /\ work'[q] # <<>>
        /\ reload' = IF work[q] = <<>> THEN reload \ {q} ELSE reload
        /\ UNCHANGED <<reloading, incoming>> /\ pc = "requeue"
    <3> HIDE DEF TypeOK, FlagInv
    <3> QED
      BY <1>25, RequeuePutsFirst DEF RequeueDeferredNonNestableTask,
         PushNonNestableTaskToFront
  <2> HIDE DEF q
  <2>2. reloading = {}
    BY <2>1 DEF PlaceInv
  <2> QED
    BY <2>1, <2>2 DEF OthersKept
<1>26. CASE RequeueDone
  BY <1>26 DEF RequeueDone, MainGoes
<1>27. CASE RequeueToUnregistered
  BY <1>27 DEF RequeueToUnregistered, MainGoes
<1>28. CASE FinishInsertFence
  BY <1>28 DEF FinishInsertFence
<1>29. CASE FinishSetQueueEnabled
  BY <1>29 DEF FinishSetQueueEnabled
<1>30. CASE UnregisterTaskQueue
  <2>1. /\ op.queue \in Queues /\ reloading = {} /\ reloading' = {}
        /\ reload' = reload \ {op.queue}
        /\ incoming' = [incoming EXCEPT ![op.queue] = <<>>]
        /\ work' = [work EXCEPT ![op.queue] = <<>>]
    BY <1>30 DEF UnregisterTaskQueue, PlaceInv, InOperation
  <2> QED
    BY <2>1
<1>31. CASE CleanUpQueues
  BY <1>31 DEF CleanUpQueues, BeginUnregister, MainGoes
<1>32. CASE UNCHANGED vars
  BY <1>32 DEF vars
<1> HIDE DEF shared, queueState, loopState, bounds, InClientCode, ClientMay,
    Spend, FlagInv, TypeOK
<1> QED
  BY <1>1, <1>2, <1>3, <1>4, <1>5, <1>6, <1>7, <1>8, <1>9, <1>10, <1>11,
     <1>12, <1>13, <1>14, <1>15, <1>16, <1>17, <1>18, <1>19, <1>20, <1>21,
     <1>22, <1>23, <1>24, <1>25, <1>26, <1>27, <1>28, <1>29, <1>30, <1>31,
     <1>32 DEF Next, CallStep, ClientStep, MainStep, Wake

\* What posting threads are told stays true.
LEMMA ToldKept ==
    TypeOK /\ PlaceInv /\ ToldInv /\ HeapInv /\ [Next]_vars => ToldInv'
<1> SUFFICES ASSUME TypeOK, PlaceInv, ToldInv, HeapInv, [Next]_vars PROVE
      ToldInv'
  OBVIOUS
<1> USE DEF shared, queueState, loopState, bounds, InClientCode, ClientMay,
    Spend, ToldInv, KnownFence, TypeOK, Lives
<1>1. ASSUME NEW p \in Posters, NEW q \in Queues, TryBeginOperation(p, q)
      PROVE ToldInv'
  BY <1>1 DEF TryBeginOperation
<1>2. ASSUME NEW p \in Posters, NEW b \in BOOLEAN, PostImmediateTask(p, b)
      PROVE ToldInv'
  BY <1>2 DEF PostImmediateTask, PushTask
<1>3. ASSUME NEW p \in Posters, ScheduleWork(p) PROVE ToldInv'
  BY <1>3 DEF ScheduleWork
<1>4. ASSUME NEW q \in Queues, NEW b \in BOOLEAN, PostOnBoundThread(q, b)
      PROVE ToldInv'
  BY <1>4 DEF PostOnBoundThread, PushTask
<1>5. ASSUME NEW q \in Queues, NEW f \in {nextOrder, BlockingFence},
      InsertFence(q, f) PROVE ToldInv'
  <2>1. /\ pc' = "fence" /\ op'.queue = q /\ op'.previous = fence[q]
        /\ fence' = [fence EXCEPT ![q] = f] /\ pc # "fence"
        /\ UNCHANGED <<workEmpty, work, schedules, enabled, life>>
    BY <1>5 DEF InsertFence
  <2> QED
    BY <2>1
<1>6. ASSUME NEW q \in Queues, RemoveFence(q) PROVE ToldInv'
  <2>1. /\ pc' = pc /\ pc # "fence" /\ fence' = [fence EXCEPT ![q] = None]
        /\ workEmpty' = [workEmpty EXCEPT ![q] = (work[q] = <<>>)]
        /\ schedules' = [schedules EXCEPT ![q] = enabled[q] /\ None = None]
        /\ UNCHANGED <<work, enabled, life>>
    BY <1>6 DEF RemoveFence, UpdateCrossThreadQueueState
  <2> QED
    BY <2>1
<1>7. ASSUME NEW q \in Queues, SetQueueEnabled(q) PROVE ToldInv'
  <2>1. /\ pc' = "enable" /\ pc # "fence"
        /\ enabled' = [enabled EXCEPT ![q] = ~enabled[q]]
        /\ workEmpty' = [workEmpty EXCEPT ![q] = (work[q] = <<>>)]
        /\ schedules' = [schedules EXCEPT ![q] = ~enabled[q] /\ fence[q] = None]
        /\ UNCHANGED <<work, fence, life>>
    BY <1>7 DEF SetQueueEnabled, UpdateCrossThreadQueueState
  <2> QED
    BY <2>1
<1>8. ASSUME NEW q \in Queues, ShutdownTaskQueue(q) PROVE ToldInv'
  BY <1>8 DEF ShutdownTaskQueue, BeginUnregister
<1>9. ASSUME NEW q \in Queues, ShutdownTaskQueueGracefully(q) PROVE ToldInv'
  BY <1>9 DEF ShutdownTaskQueueGracefully
<1>10. ASSUME NEW q \in Queues, CancelTask(q) PROVE ToldInv'
  BY <1>10 DEF CancelTask
<1>11. CASE BeginNestedRunLoop
  BY <1>11 DEF BeginNestedRunLoop
<1>12. CASE ExitNestedRunLoop
  BY <1>12 DEF ExitNestedRunLoop
<1>13. CASE BeginWork
  BY <1>13 DEF BeginWork
<1>14. CASE SelectNextTask
  BY <1>14 DEF SelectNextTask, RunActiveCallbacks
<1>15. CASE SelectNoTask
  BY <1>15 DEF SelectNoTask, MainGoes
<1>16. CASE DidRunTask
  BY <1>16 DEF DidRunTask, MainGoes
<1>17. CASE WillCheckForMoreWork
  BY <1>17 DEF WillCheckForMoreWork
<1>18. CASE DelayTillNextTask
  BY <1>18 DEF DelayTillNextTask, MainGoes, RunActiveCallbacks
<1>19. CASE DelayAfterReload
  BY <1>19 DEF DelayAfterReload, MainGoes
<1>20. CASE WaitReturns
  BY <1>20 DEF WaitReturns, MainGoes
<1>21. ASSUME NEW q \in Queues, ReloadEmptyImmediateWorkQueue(q) PROVE
      ToldInv'
  <2>1. /\ work' = [work EXCEPT ![q] = incoming[q]]
        /\ workEmpty' = [workEmpty EXCEPT ![q] = (incoming[q] = <<>>)]
        /\ schedules' = [schedules EXCEPT ![q] = enabled[q] /\ fence[q] = None]
        /\ pc' = pc /\ pc # "fence" /\ UNCHANGED <<life, enabled, fence>>
    BY <1>21 DEF ReloadEmptyImmediateWorkQueue, TakeImmediateIncomingQueueTasks,
       UpdateCrossThreadQueueState
  <2> QED
    BY <2>1
<1>22. ASSUME NEW q \in Queues, DropCanceledTasks(q) PROVE ToldInv'
  <2> HIDE DEF TypeOK, ToldInv, KnownFence
  <2>1. /\ SelectWorkQueueToService(q) /\ \E rest : PopFrontTasks(q, rest)
        /\ pc' \in {pc, "task"} /\ UNCHANGED <<life, enabled, fence>>
    BY <1>22 DEF DropCanceledTasks
  <2> QED
    BY <2>1, PopTold DEF SelectWorkQueueToService
<1>23. ASSUME NEW q \in Queues, DeferTask(q) PROVE ToldInv'
  <2> HIDE DEF TypeOK, ToldInv, KnownFence
  <2>1. /\ SelectWorkQueueToService(q) /\ \E rest : PopFrontTasks(q, rest)
        /\ pc' \in {pc, "task"} /\ UNCHANGED <<life, enabled, fence>>
    BY <1>23 DEF DeferTask
  <2> QED
    BY <2>1, PopTold DEF SelectWorkQueueToService
<1>24. ASSUME NEW q \in Queues, RunTask(q) PROVE ToldInv'
  <2> HIDE DEF TypeOK, ToldInv, KnownFence
  <2>1. /\ SelectWorkQueueToService(q) /\ \E rest : PopFrontTasks(q, rest)
        /\ pc' \in {pc, "task"} /\ UNCHANGED <<life, enabled, fence>>
    BY <1>24 DEF RunTask
  <2> QED
    BY <2>1, PopTold DEF SelectWorkQueueToService
<1>25. CASE RequeueDeferredNonNestableTask
  <2> DEFINE q == LastDeferred.queue
  <2>1. /\ q \in Queues /\ OthersKept(q) /\ work'[q] # <<>> /\ life[q] # "gone"
        /\ workEmpty' = IF work[q] = <<>> THEN [workEmpty EXCEPT ![q] = FALSE]
                        ELSE workEmpty
        /\ UNCHANGED <<schedules, enabled, fence, life>>
        /\ pc = "requeue" /\ pc' = pc
    <3> HIDE DEF TypeOK, ToldInv
    <3> QED
      BY <1>25, RequeuePutsFirst DEF RequeueDeferredNonNestableTask
  <2> HIDE DEF q
  <2> QED
    BY <2>1 DEF OthersKept
<1>26. CASE RequeueDone
  BY <1>26 DEF RequeueDone, MainGoes
<1>27. CASE RequeueToUnregistered
  BY <1>27 DEF RequeueToUnregistered, MainGoes
<1>28. CASE FinishInsertFence
  <2>1. /\ pc = "fence" /\ pc' # "fence" /\ op.queue \in Queues
        /\ workEmpty' = [workEmpty EXCEPT ![op.queue] = (work[op.queue] = <<>>)]
        /\ schedules' = [schedules EXCEPT ![op.queue] =
                               enabled[op.queue] /\ fence[op.queue] = None]
        /\ UNCHANGED <<work, enabled, fence, life>>
    BY <1>28 DEF FinishInsertFence, UpdateCrossThreadQueueState, PlaceInv, InOperation
  <2>2. ASSUME NEW r \in Queues
        PROVE  /\ life[r] # "gone" => (workEmpty'[r] <=> work[r] = <<>>)
               /\ schedules'[r] <=> enabled[r] /\ fence[r] = None
    <3>1. CASE r = op.queue
      BY <2>1, <3>1
    <3>2. CASE r # op.queue
      BY <2>1, <3>2
    <3> QED
      BY <3>1, <3>2
  <2> QED
    BY <2>1, <2>2
<1>29. CASE FinishSetQueueEnabled
  BY <1>29 DEF FinishSetQueueEnabled
<1>30. CASE UnregisterTaskQueue
  <2>1. /\ op.queue \in Queues /\ pc # "fence" /\ pc' # "fence"
        /\ work' = [work EXCEPT ![op.queue] = <<>>]
        /\ life' = [life EXCEPT ![op.queue] = "gone"]
        /\ UNCHANGED <<workEmpty, schedules, enabled, fence>>
    BY <1>30 DEF UnregisterTaskQueue, PlaceInv, InOperation
  <2>2. ASSUME NEW r \in Queues
        PROVE  /\ life'[r] # "gone" => (workEmpty[r] <=> work'[r] = <<>>)
               /\ schedules[r] <=> enabled[r] /\ fence[r] = None
    BY <2>1
  <2> QED
    BY <2>1, <2>2
<1>31. CASE CleanUpQueues
  <2>1. CASE MainGoes("didRun", "check")
    BY <2>1 DEF MainGoes
  <2>2. ASSUME NEW q \in Queues, BeginUnregister(q, "didRun"), pc = "didRun",
               life[q] = "graceful"
        PROVE  ToldInv'
    BY <2>2 DEF BeginUnregister
  <2> QED
    BY <1>31, <2>1, <2>2 DEF CleanUpQueues
<1>32. CASE UNCHANGED vars
  BY <1>32 DEF vars
<1> HIDE DEF shared, queueState, loopState, bounds, InClientCode, ClientMay,
    Spend, ToldInv, KnownFence, TypeOK, Lives
<1> QED
  BY <1>1, <1>2, <1>3, <1>4, <1>5, <1>6, <1>7, <1>8, <1>9, <1>10, <1>11,
     <1>12, <1>13, <1>14, <1>15, <1>16, <1>17, <1>18, <1>19, <1>20, <1>21,
     <1>22, <1>23, <1>24, <1>25, <1>26, <1>27, <1>28, <1>29, <1>30, <1>31,
     <1>32 DEF Next, CallStep, ClientStep, MainStep, Wake

-----------------------------------------------------------------------------
(* The heaps are exact.                                                      *)

LEMMA PopExact ==
    ASSUME TypeOK, HeapInv, NEW q \in Queues, NEW rest,
           SelectWorkQueueToService(q), PopFrontTasks(q, rest),
           pc' \in {"select", "task"}, UNCHANGED <<enabled, fence, life>>
    PROVE  HeapInv'
<1>1. enabled[q] /\ life[q] # "gone" /\ pc = "select"
  BY SelectedHasTask DEF HeapInv, SelectWorkQueueToService
<1>2. /\ keys' = [keys EXCEPT ![q] = FrontKey(fence[q], work'[q])]
      /\ \A r \in Queues \ {q} : work'[r] = work[r]
  BY DEF PopFrontTasks, TakeImmediateIncomingQueueTasks, OnQueuesFrontTaskChanged,
     TypeOK
<1>3. keys'[q] = FrontKey(fence[q], work'[q])
  BY <1>2 DEF TypeOK
<1>4. ASSUME NEW r \in Queues \ {q}
      PROVE  keys'[r] = IF enabled[r] /\ life[r] # "gone"
                        THEN FrontKey(fence[r], work'[r]) ELSE None
  BY <1>1, <1>2, <1>4 DEF HeapInv, SelectorExact, TypeOK
<1> QED
  BY <1>1, <1>3, <1>4 DEF HeapInv, SelectorExact

LEMMA UnregisterExact ==
    ASSUME TypeOK, HeapInv, NEW q \in Queues, NEW back, BeginUnregister(q, back),
           pc \notin {"enable", "unregister"}
    PROVE  HeapInv'
<1>1. /\ keys' = [keys EXCEPT ![q] = None] /\ op'.queue = q /\ pc' = "unregister"
      /\ life' = [life EXCEPT ![q] = "closing"]
      /\ UNCHANGED <<enabled, fence, work>>
  BY DEF BeginUnregister, RemoveQueue, NoOp
<1> QED
  BY <1>1 DEF HeapInv, SelectorExact, TypeOK

\* A fence comes or goes: the key of the queue is what the new fence makes it.
LEMMA FenceExact ==
    ASSUME TypeOK, HeapInv, NEW q \in Queues, NEW f,
           life[q] = "registered", pc \in {"task", "sleep"},
           pc' \in {"task", "sleep", "fence"},
           fence' = [fence EXCEPT ![q] = f],
           keys' = [keys EXCEPT ![q] = IF enabled[q] THEN FrontKey(f, work[q])
                                       ELSE None],
           UNCHANGED <<work, enabled, life>>
    PROVE  HeapInv'
  BY DEF HeapInv, SelectorExact, TypeOK

\* The heaps follow every change of a front task, a fence or a queue's state.
LEMMA HeapKept ==
    TypeOK /\ PlaceInv /\ LifeInv /\ FlagInv /\ HeapInv /\ OrderInv /\
    [Next]_vars => HeapInv'
<1> SUFFICES ASSUME TypeOK, PlaceInv, LifeInv, FlagInv, HeapInv, OrderInv,
      [Next]_vars PROVE HeapInv'
  OBVIOUS
<1> USE DEF shared, queueState, loopState, bounds, InClientCode, ClientMay,
    Spend, HeapInv, SelectorExact
<1>1. ASSUME NEW p \in Posters, NEW q \in Queues, TryBeginOperation(p, q)
      PROVE HeapInv'
  BY <1>1 DEF TryBeginOperation
<1>2. ASSUME NEW p \in Posters, NEW b \in BOOLEAN, PostImmediateTask(p, b)
      PROVE HeapInv'
  BY <1>2 DEF PostImmediateTask, PushTask
<1>3. ASSUME NEW p \in Posters, ScheduleWork(p) PROVE HeapInv'
  BY <1>3 DEF ScheduleWork
<1>4. ASSUME NEW q \in Queues, NEW b \in BOOLEAN, PostOnBoundThread(q, b)
      PROVE HeapInv'
  BY <1>4 DEF PostOnBoundThread, PushTask
<1>5. ASSUME NEW q \in Queues, NEW f \in {nextOrder, BlockingFence},
      InsertFence(q, f) PROVE HeapInv'
  <2> DEFINE unblocked == /\ enabled[q] /\ work[q] # <<>>
                          /\ BlockedByFence(fence[q], work[q])
                          /\ ~BlockedByFence(f, work[q])
  <2> DEFINE key == IF enabled[q] THEN FrontKey(f, work[q]) ELSE None
  <2>1. /\ life[q] = "registered" /\ pc \in {"task", "sleep"} /\ pc' = "fence"
        /\ fence' = [fence EXCEPT ![q] = f]
        /\ IF unblocked THEN keys' = [keys EXCEPT ![q] = FrontKey(f, work[q])]
           ELSE IF BlockedByFence(f, work[q]) THEN keys' = [keys EXCEPT ![q] = None]
           ELSE keys' = keys
        /\ UNCHANGED <<work, enabled, life>>
    BY <1>5 DEF InsertFence, OnTaskPushedToEmptyQueue, OnQueueBlocked
  <2>2. keys[q] = IF enabled[q] THEN FrontKey(fence[q], work[q]) ELSE None
    BY <2>1
  <2>3. f # None
    BY DEF TypeOK, BlockingFence, None, FirstOrder
  <2>4. keys' = [keys EXCEPT ![q] = key]
    <3>1. CASE unblocked
      BY <2>1, <3>1
    <3>2. CASE ~unblocked /\ BlockedByFence(f, work[q])
      BY <2>1, <3>2 DEF FrontKey
    <3>3. CASE ~unblocked /\ ~BlockedByFence(f, work[q])
      <4>1. work[q] # <<>>
        BY <2>3, <3>3 DEF BlockedByFence
      <4>2. keys[q] = key
        BY <2>2, <3>3, <4>1 DEF FrontKey
      <4> QED
        BY <2>1, <3>3, <4>2 DEF TypeOK
    <3> QED
      BY <3>1, <3>2, <3>3
  <2> HIDE DEF key, unblocked
  <2> QED
    BY <2>1, <2>4, FenceExact DEF key
<1>6. ASSUME NEW q \in Queues, RemoveFence(q) PROVE HeapInv'
  <2> DEFINE unblocked == /\ enabled[q] /\ work[q] # <<>>
                          /\ BlockedByFence(fence[q], work[q])
  <2> DEFINE key == IF enabled[q] THEN FrontKey(None, work[q]) ELSE None
  <2>1. /\ life[q] = "registered" /\ pc \in {"task", "sleep"} /\ pc' = pc
        /\ fence' = [fence EXCEPT ![q] = None]
        /\ IF unblocked THEN keys' = [keys EXCEPT ![q] = FrontKey(None, work[q])]
           ELSE keys' = keys
        /\ UNCHANGED <<work, enabled, life>>
    BY <1>6 DEF RemoveFence, OnTaskPushedToEmptyQueue
  <2>2. keys[q] = IF enabled[q] THEN FrontKey(fence[q], work[q]) ELSE None
    BY <2>1
  <2>3. keys' = [keys EXCEPT ![q] = key]
    <3>1. CASE unblocked
      BY <2>1, <3>1
    <3>2. CASE ~unblocked
      <4>1. keys[q] = key
        BY <2>2, <3>2 DEF FrontKey, BlockedByFence
      <4> QED
        BY <2>1, <3>2, <4>1 DEF TypeOK
    <3> QED
      BY <3>1, <3>2
  <2> HIDE DEF key, unblocked
  <2> QED
    BY <2>1, <2>3, FenceExact DEF key
<1>7. ASSUME NEW q \in Queues, SetQueueEnabled(q) PROVE HeapInv'
  <2>1. /\ pc \in {"task", "sleep"} /\ pc' = "enable" /\ op'.queue = q
        /\ enabled' = [enabled EXCEPT ![q] = ~enabled[q]]
        /\ UNCHANGED <<work, keys, fence, life>>
    BY <1>7 DEF SetQueueEnabled, NoOp
  <2> QED
    BY <2>1 DEF TypeOK
<1>8. ASSUME NEW q \in Queues, ShutdownTaskQueue(q) PROVE HeapInv'
  BY <1>8, UnregisterExact DEF ShutdownTaskQueue
<1>9. ASSUME NEW q \in Queues, ShutdownTaskQueueGracefully(q) PROVE HeapInv'
  <2>1. /\ life[q] = "registered" /\ pc' = pc /\ pc \in {"task", "sleep"}
        /\ life' = [life EXCEPT ![q] = "graceful"]
        /\ UNCHANGED <<work, keys, enabled, fence, op>>
    BY <1>9 DEF ShutdownTaskQueueGracefully
  <2> QED
    BY <2>1 DEF TypeOK
<1>10. ASSUME NEW q \in Queues, CancelTask(q) PROVE HeapInv'
  BY <1>10 DEF CancelTask
<1>11. CASE BeginNestedRunLoop
  BY <1>11 DEF BeginNestedRunLoop
<1>12. CASE ExitNestedRunLoop
  BY <1>12 DEF ExitNestedRunLoop
<1>13. CASE BeginWork
  BY <1>13 DEF BeginWork
<1>14. CASE SelectNextTask
  BY <1>14 DEF SelectNextTask, RunActiveCallbacks
<1>15. CASE SelectNoTask
  BY <1>15 DEF SelectNoTask, MainGoes
<1>16. CASE DidRunTask
  BY <1>16 DEF DidRunTask, MainGoes
<1>17. CASE WillCheckForMoreWork
  BY <1>17 DEF WillCheckForMoreWork
<1>18. CASE DelayTillNextTask
  BY <1>18 DEF DelayTillNextTask, MainGoes, RunActiveCallbacks
<1>19. CASE DelayAfterReload
  BY <1>19 DEF DelayAfterReload, MainGoes
<1>20. CASE WaitReturns
  BY <1>20 DEF WaitReturns, MainGoes
<1>21. ASSUME NEW q \in Queues, ReloadEmptyImmediateWorkQueue(q) PROVE
      HeapInv'
  <2>1. /\ pc \in {"select", "delayed"} /\ pc' = pc
        /\ q \in reloading /\ TakeImmediateIncomingQueueTasks(q)
        /\ IF enabled[q] /\ FrontKey(fence[q], incoming[q]) # None
           THEN keys' = [keys EXCEPT ![q] = FrontKey(fence[q], incoming[q])]
           ELSE keys' = keys
        /\ UNCHANGED <<enabled, fence, life>>
    BY <1>21 DEF ReloadEmptyImmediateWorkQueue, OnTaskPushedToEmptyQueue
  <2>2. work[q] = <<>> /\ incoming[q] # <<>> /\ life[q] # "gone"
    BY <2>1 DEF FlagInv, LifeInv
  <2>3. OthersKept(q) /\ work'[q] = incoming[q]
    BY <2>1, <2>2, ReloadKeeps
  <2>4. keys[q] = None
    BY <2>1, <2>2 DEF FrontKey
  <2>5. keys'[q] = IF enabled[q] THEN FrontKey(fence[q], incoming[q]) ELSE None
    BY <2>1, <2>4 DEF TypeOK
  <2>6. \A r \in Queues \ {q} : keys'[r] = keys[r]
    BY <2>1 DEF TypeOK
  <2> QED
    BY <2>1, <2>2, <2>3, <2>5, <2>6 DEF OthersKept
<1>22. ASSUME NEW q \in Queues, DropCanceledTasks(q) PROVE HeapInv'
  <2> HIDE DEF HeapInv
  <2>1. /\ SelectWorkQueueToService(q) /\ \E rest : PopFrontTasks(q, rest)
        /\ pc' \in {pc, "task"} /\ UNCHANGED <<life, enabled, fence>>
    BY <1>22 DEF DropCanceledTasks
  <2>2. pc' \in {"select", "task"}
    BY <2>1 DEF SelectWorkQueueToService
  <2> QED
    BY <2>1, <2>2, PopExact
<1>23. ASSUME NEW q \in Queues, DeferTask(q) PROVE HeapInv'
  <2> HIDE DEF HeapInv
  <2>1. /\ SelectWorkQueueToService(q) /\ \E rest : PopFrontTasks(q, rest)
        /\ pc' \in {pc, "task"} /\ UNCHANGED <<life, enabled, fence>>
    BY <1>23 DEF DeferTask
  <2>2. pc' \in {"select", "task"}
    BY <2>1 DEF SelectWorkQueueToService
  <2> QED
    BY <2>1, <2>2, PopExact
<1>24. ASSUME NEW q \in Queues, RunTask(q) PROVE HeapInv'
  <2> HIDE DEF HeapInv
  <2>1. /\ SelectWorkQueueToService(q) /\ \E rest : PopFrontTasks(q, rest)
        /\ pc' \in {pc, "task"} /\ UNCHANGED <<life, enabled, fence>>
    BY <1>24 DEF RunTask
  <2>2. pc' \in {"select", "task"}
    BY <2>1 DEF SelectWorkQueueToService
  <2> QED
    BY <2>1, <2>2, PopExact
<1>25. CASE RequeueDeferredNonNestableTask
  <2> DEFINE q == LastDeferred.queue
  <2> DEFINE t == LastDeferred.task
  <2> DEFINE key == IF enabled[q] THEN FrontKey(fence[q], work'[q]) ELSE None
  <2>1. /\ q \in Queues /\ t \in Tasks /\ OthersKept(q)
        /\ work'[q] # <<>> /\ Head(work'[q]) = t
    BY <1>25, RequeuePutsFirst
  <2>2. /\ life[q] # "gone" /\ pc = "requeue" /\ pc' = pc /\ deferred # <<>>
        /\ IF enabled[q] /\ ~BlockedByFence(fence[q], work'[q])
           THEN keys' = [keys EXCEPT ![q] = FrontKey(fence[q], work'[q])]
           ELSE keys' = keys
        /\ UNCHANGED <<enabled, fence, life>>
    BY <1>25 DEF RequeueDeferredNonNestableTask, PushNonNestableTaskToFront,
        OnQueuesFrontTaskChanged
  <2>3. keys[q] = IF enabled[q] THEN FrontKey(fence[q], work[q]) ELSE None
    BY <2>1, <2>2
  <2>4. work[q] # <<>> => Head(work[q]).order > t.order /\ Head(work[q]) \in Tasks
    <3>1. LastDeferred = deferred[Len(deferred)] /\ Len(deferred) \in DOMAIN deferred
      BY <2>2, LastOfDeferred, LenProperties DEF TypeOK
    <3>2. \A k \in DOMAIN Pending(q) : t.order < Pending(q)[k].order
      BY <2>1, <3>1 DEF OrderInv
    <3>3. ASSUME work[q] # <<>>
          PROVE  1 \in DOMAIN Pending(q) /\ Pending(q)[1] = Head(work[q])
                 /\ Head(work[q]) \in Tasks
      <4>1. /\ Pending(q) \in Seq(Tasks) /\ Pending(q) # <<>>
            /\ Head(Pending(q)) = Head(work[q])
            /\ Head(Pending(q)) = Pending(q)[1] /\ Head(Pending(q)) \in Tasks
        BY <2>1, <3>3, FrontOfPending
      <4>2. Len(Pending(q)) \in Nat \ {0} /\ DOMAIN Pending(q) = 1..Len(Pending(q))
        BY <4>1, EmptySeq, LenProperties
      <4> QED
        BY <4>1, <4>2
    <3> QED
      BY <3>2, <3>3 DEF Tasks, Orders, FirstOrder
  <2>5. keys'[q] = key
    <3>1. CASE enabled[q] /\ ~BlockedByFence(fence[q], work'[q])
      BY <2>1, <2>2, <3>1 DEF TypeOK
    <3>2. CASE ~enabled[q]
      BY <2>2, <2>3, <3>2
    <3>3. CASE enabled[q] /\ BlockedByFence(fence[q], work'[q])
      <4>1. key = None /\ keys' = keys
        BY <2>2, <3>3 DEF FrontKey
      <4>2. fence[q] # None /\ t.order >= fence[q]
        BY <2>1, <3>3 DEF BlockedByFence
      <4>3. t.order \in Nat /\ fence[q] \in Nat
        <5>1. t.order \in Orders
          BY <2>1 DEF Tasks
        <5>2. fence[q] \in Orders \cup {None, BlockingFence}
          BY <2>1 DEF TypeOK
        <5> QED
          BY <5>1, <5>2, OrdersAreNumbers
      <4>4. work[q] # <<>> => Head(work[q]).order >= fence[q]
        BY <2>4, <4>2, <4>3 DEF Tasks, Orders, FirstOrder
      <4>5. FrontKey(fence[q], work[q]) = None
        BY <4>2, <4>4 DEF FrontKey, BlockedByFence
      <4> QED
        BY <2>3, <3>3, <4>1, <4>5
    <3> QED
      BY <3>1, <3>2, <3>3
  <2>6. \A r \in Queues \ {q} : keys'[r] = keys[r]
    BY <2>2 DEF TypeOK
  <2> HIDE DEF q, t
  <2> QED
    BY <2>1, <2>2, <2>5, <2>6 DEF OthersKept
<1>26. CASE RequeueDone
  BY <1>26 DEF RequeueDone, MainGoes
<1>27. CASE RequeueToUnregistered
  BY <1>27 DEF RequeueToUnregistered, MainGoes
<1>28. CASE FinishInsertFence
  <2>1. /\ pc = "fence" /\ pc' \in {"task", "didRun", "sleep"}
        /\ UNCHANGED <<work, keys, enabled, fence, life>>
    BY <1>28 DEF FinishInsertFence, TypeOK
  <2> QED
    BY <2>1
<1>29. CASE FinishSetQueueEnabled
  <2>1. /\ pc = "enable" /\ pc' \in {"task", "didRun", "sleep"}
        /\ op.queue \in Queues /\ life[op.queue] = "registered"
        /\ keys' = [keys EXCEPT ![op.queue] =
                       IF enabled[op.queue]
                       THEN FrontKey(fence[op.queue], work[op.queue]) ELSE None]
        /\ UNCHANGED <<work, enabled, fence, life>>
    BY <1>29 DEF FinishSetQueueEnabled, AddQueue, RemoveQueue, PlaceInv, InOperation,
        LifeInv, TypeOK
  <2> QED
    BY <2>1 DEF TypeOK
<1>30. CASE UnregisterTaskQueue
  <2>1. /\ op.queue \in Queues /\ pc = "unregister"
        /\ pc' \in {"task", "didRun", "sleep"}
        /\ work' = [work EXCEPT ![op.queue] = <<>>]
        /\ life' = [life EXCEPT ![op.queue] = "gone"]
        /\ UNCHANGED <<keys, enabled, fence>>
    BY <1>30 DEF UnregisterTaskQueue, PlaceInv, InOperation, TypeOK
  <2>2. keys[op.queue] = None
    BY <2>1
  <2> QED
    BY <2>1, <2>2 DEF TypeOK
<1>31. CASE CleanUpQueues
  <2>1. CASE MainGoes("didRun", "check")
    BY <2>1 DEF MainGoes
  <2>2. ASSUME NEW q \in Queues, BeginUnregister(q, "didRun"), pc = "didRun"
        PROVE  HeapInv'
    BY <2>2, UnregisterExact
  <2> QED
    BY <1>31, <2>1, <2>2 DEF CleanUpQueues
<1>32. CASE UNCHANGED vars
  BY <1>32 DEF vars
<1> HIDE DEF shared, queueState, loopState, bounds, InClientCode, ClientMay,
    Spend, HeapInv, SelectorExact
<1> QED
  BY <1>1, <1>2, <1>3, <1>4, <1>5, <1>6, <1>7, <1>8, <1>9, <1>10, <1>11,
     <1>12, <1>13, <1>14, <1>15, <1>16, <1>17, <1>18, <1>19, <1>20, <1>21,
     <1>22, <1>23, <1>24, <1>25, <1>26, <1>27, <1>28, <1>29, <1>30, <1>31,
     <1>32 DEF Next, CallStep, ClientStep, MainStep, Wake

-----------------------------------------------------------------------------
(* The steps, by what they do to the tasks of the queues.                    *)

OtherPendingKept(q) == \A r \in Queues \ {q} : Pending(r)' = Pending(r)

TasksStay ==
    /\ \A q \in Queues : Pending(q)' = Pending(q)
    /\ nextOrder' \in {nextOrder, nextOrder + 1}
    /\ UNCHANGED <<deferred, ran>>

TaskPosted(q, b) ==
    /\ Added(Pending(q), Pending(q)', [order |-> nextOrder, nestable |-> b])
    /\ OtherPendingKept(q)
    /\ nextOrder' = nextOrder + 1
    /\ UNCHANGED <<deferred, ran>>

TasksDropped(q, k) ==
    /\ Dropped(Pending(q), Pending(q)', k)
    /\ OtherPendingKept(q)
    /\ UNCHANGED <<deferred, ran, nextOrder>>

TaskDeferred(q) ==
    /\ Pending(q) # <<>> /\ ~Pending(q)[1].nestable
    /\ Dropped(Pending(q), Pending(q)', 1)
    /\ OtherPendingKept(q)
    /\ deferred' = Append(deferred, [task |-> Pending(q)[1], queue |-> q])
    /\ UNCHANGED <<ran, nextOrder>>

\* A task that may not nest runs only when none is deferred.
TaskRun(q) ==
    /\ Pending(q) # <<>>
    /\ ~Pending(q)[1].nestable => deferred = <<>>
    /\ Dropped(Pending(q), Pending(q)', 1)
    /\ OtherPendingKept(q)
    /\ ran' = [ran EXCEPT ![q][Pending(q)[1].nestable] = Pending(q)[1].order]
    /\ UNCHANGED <<deferred, nextOrder>>

TaskRequeued(q) ==
    /\ deferred # <<>> /\ LastDeferred.queue = q
    /\ PutFirst(Pending(q), Pending(q)', LastDeferred.task)
    /\ OtherPendingKept(q)
    /\ deferred' = SubSeq(deferred, 1, Len(deferred) - 1)
    /\ UNCHANGED <<ran, nextOrder>>

Moves ==
    \/ TasksStay
    \/ \E q \in Queues :
          \/ \E b \in BOOLEAN : TaskPosted(q, b)
          \/ \E k \in 0..Len(Pending(q)) : TasksDropped(q, k)
          \/ TaskDeferred(q) \/ TaskRun(q) \/ TaskRequeued(q)

LEMMA Calm ==
    ASSUME UNCHANGED <<work, incoming, deferred, ran>>,
           nextOrder' \in {nextOrder, nextOrder + 1}
    PROVE  Moves
  BY DEF Moves, TasksStay, Pending

LEMMA OthersPend ==
    ASSUME NEW q, OthersKept(q)
    PROVE  OtherPendingKept(q)
  BY DEF OthersKept, OtherPendingKept, Pending

\* What is known of the tasks of a queue, now and in the next state.
LEMMA PendingTyped ==
    /\ TypeOK => \A q \in Queues :
          /\ Len(Pending(q)) \in Nat /\ DOMAIN Pending(q) = 1..Len(Pending(q))
          /\ \A i \in DOMAIN Pending(q) : Pending(q)[i] \in Tasks
    /\ TypeOK' => \A q \in Queues :
          /\ Len(Pending(q)') \in Nat /\ DOMAIN Pending(q)' = 1..Len(Pending(q)')
          /\ \A i \in DOMAIN Pending(q)' : Pending(q)'[i] \in Tasks
<1>1. \A w, i \in Seq(Tasks) :
          /\ Len(w \o i) \in Nat /\ DOMAIN (w \o i) = 1..Len(w \o i)
          /\ \A k \in DOMAIN (w \o i) : (w \o i)[k] \in Tasks
  BY ConcatAt, LenProperties, ElementOfSeq
<1> QED
  BY <1>1 DEF TypeOK, Pending

\* There are six kinds of steps.
LEMMA StepsMoveTasks ==
    TypeOK /\ DrawnInv /\ PlaceInv /\ LifeInv /\ FlagInv /\ HeapInv /\
    [Next]_vars => Moves
<1> SUFFICES ASSUME TypeOK, DrawnInv, PlaceInv, LifeInv, FlagInv, HeapInv,
      [Next]_vars PROVE Moves
  OBVIOUS
<1> USE DEF shared, queueState, loopState, bounds, InClientCode, ClientMay,
    Spend
<1>1. ASSUME NEW p \in Posters, NEW q \in Queues, TryBeginOperation(p, q)
      PROVE Moves
  BY <1>1, Calm DEF TryBeginOperation
<1>2. ASSUME NEW p \in Posters, NEW b \in BOOLEAN, PostImmediateTask(p, b)
      PROVE Moves
  <2> DEFINE r == call[p].queue
  <2>1. r \in Queues /\ nextOrder \in Orders
    BY <1>2, NumbersSuffice DEF PostImmediateTask, PlaceInv, TypeOK
  <2>2. PushTask(r, b) /\ UNCHANGED <<work, deferred, ran>>
    BY <1>2 DEF PostImmediateTask
  <2> HIDE DEF r
  <2> QED
    BY <2>1, <2>2, PushAdds, OthersPend DEF Moves, TaskPosted, PushTask
<1>3. ASSUME NEW p \in Posters, ScheduleWork(p) PROVE Moves
  BY <1>3, Calm DEF ScheduleWork
<1>4. ASSUME NEW q \in Queues, NEW b \in BOOLEAN, PostOnBoundThread(q, b)
      PROVE Moves
  <2>1. nextOrder \in Orders /\ PushTask(q, b) /\ UNCHANGED <<work, deferred, ran>>
    BY <1>4, NumbersSuffice DEF PostOnBoundThread
  <2> QED
    BY <2>1, PushAdds, OthersPend DEF Moves, TaskPosted, PushTask
<1>5. ASSUME NEW q \in Queues, NEW f \in {nextOrder, BlockingFence},
      InsertFence(q, f) PROVE Moves
  BY <1>5, Calm DEF InsertFence
<1>6. ASSUME NEW q \in Queues, RemoveFence(q) PROVE Moves
  BY <1>6, Calm DEF RemoveFence
<1>7. ASSUME NEW q \in Queues, SetQueueEnabled(q) PROVE Moves
  BY <1>7, Calm DEF SetQueueEnabled
<1>8. ASSUME NEW q \in Queues, ShutdownTaskQueue(q) PROVE Moves
  BY <1>8, Calm DEF ShutdownTaskQueue, BeginUnregister
<1>9. ASSUME NEW q \in Queues, ShutdownTaskQueueGracefully(q) PROVE Moves
  BY <1>9, Calm DEF ShutdownTaskQueueGracefully
<1>10. ASSUME NEW q \in Queues, CancelTask(q) PROVE Moves
  BY <1>10, Calm DEF CancelTask
<1>11. CASE BeginNestedRunLoop
  BY <1>11, Calm DEF BeginNestedRunLoop
<1>12. CASE ExitNestedRunLoop
  BY <1>12, Calm DEF ExitNestedRunLoop
<1>13. CASE BeginWork
  BY <1>13, Calm DEF BeginWork
<1>14. CASE SelectNextTask
  BY <1>14, Calm DEF SelectNextTask, RunActiveCallbacks
<1>15. CASE SelectNoTask
  BY <1>15, Calm DEF SelectNoTask, MainGoes
<1>16. CASE DidRunTask
  BY <1>16, Calm DEF DidRunTask, MainGoes
<1>17. CASE WillCheckForMoreWork
  BY <1>17, Calm DEF WillCheckForMoreWork
<1>18. CASE DelayTillNextTask
  BY <1>18, Calm DEF DelayTillNextTask, MainGoes, RunActiveCallbacks
<1>19. CASE DelayAfterReload
  BY <1>19, Calm DEF DelayAfterReload, MainGoes
<1>20. CASE WaitReturns
  BY <1>20, Calm DEF WaitReturns, MainGoes
<1>21. ASSUME NEW q \in Queues, ReloadEmptyImmediateWorkQueue(q) PROVE Moves
  <2>1. /\ TakeImmediateIncomingQueueTasks(q) /\ work[q] = <<>>
        /\ UNCHANGED <<deferred, ran, nextOrder>>
    BY <1>21 DEF ReloadEmptyImmediateWorkQueue, FlagInv
  <2>2. Pending(q)' = Pending(q) /\ OtherPendingKept(q)
    BY <2>1, ReloadKeeps, OthersPend
  <2> QED
    BY <2>1, <2>2 DEF Moves, TasksStay, OtherPendingKept
<1>22. ASSUME NEW q \in Queues, DropCanceledTasks(q) PROVE Moves
  <2>1. /\ SelectWorkQueueToService(q) /\ UNCHANGED <<deferred, ran, nextOrder>>
        /\ \E k \in 1..Len(work[q]) :
               PopFrontTasks(q, SubSeq(work[q], k + 1, Len(work[q])))
    BY <1>22 DEF DropCanceledTasks
  <2>2. PICK k \in 1..Len(work[q]) :
               PopFrontTasks(q, SubSeq(work[q], k + 1, Len(work[q])))
    BY <2>1
  <2>3. OthersKept(q) /\ Dropped(Pending(q), Pending(q)', k)
    BY <2>2, PopRemoves
  <2>4. k \in 0..Len(Pending(q))
    <3>1. work[q] \in Seq(Tasks) /\ incoming[q] \in Seq(Tasks)
      BY DEF TypeOK
    <3> DEFINE n == Len(work[q])
    <3>2. /\ n \in Nat /\ Len(incoming[q]) \in Nat
          /\ Len(Pending(q)) = n + Len(incoming[q])
      BY <3>1, ConcatAt DEF Pending
    <3>3. k \in 1..n
      OBVIOUS
    <3> HIDE DEF n
    <3> QED
      BY <3>2, <3>3
  <2> QED
    BY <2>1, <2>3, <2>4, OthersPend DEF Moves, TasksDropped
<1>23. ASSUME NEW q \in Queues, DeferTask(q) PROVE Moves
  <2>1. /\ SelectWorkQueueToService(q) /\ PopFrontTasks(q, Tail(work[q]))
        /\ nextOrder' = nextOrder
    BY <1>23 DEF DeferTask
  <2>2. /\ 1 \in 1..Len(work[q]) /\ work[q] # <<>> /\ Pending(q)[1] = Head(work[q])
        /\ Tail(work[q]) = SubSeq(work[q], 1 + 1, Len(work[q]))
    BY <2>1, SelectedHasTask DEF HeapInv
  <2>3. OthersKept(q) /\ Dropped(Pending(q), Pending(q)', 1)
    BY <2>1, <2>2, PopRemoves
  <2>4. Pending(q) # <<>>
    BY <2>2, FrontOfPending
  <2> QED
    BY <1>23, <2>1, <2>2, <2>3, <2>4, OthersPend
    DEF DeferTask, MustDefer, Moves, TaskDeferred
<1>24. ASSUME NEW q \in Queues, RunTask(q) PROVE Moves
  <2>1. /\ SelectWorkQueueToService(q) /\ PopFrontTasks(q, Tail(work[q]))
        /\ nextOrder' = nextOrder
    BY <1>24 DEF RunTask
  <2>2. /\ 1 \in 1..Len(work[q]) /\ work[q] # <<>> /\ Pending(q)[1] = Head(work[q])
        /\ Tail(work[q]) = SubSeq(work[q], 1 + 1, Len(work[q]))
    BY <2>1, SelectedHasTask DEF HeapInv
  <2>3. OthersKept(q) /\ Dropped(Pending(q), Pending(q)', 1)
    BY <2>1, <2>2, PopRemoves
  <2>4. Pending(q) # <<>>
    BY <2>2, FrontOfPending
  <2>5. ~Head(work[q]).nestable => deferred = <<>>
    <3>1. ~Head(work[q]).nestable => ~(depth > 0)
      BY <1>24 DEF RunTask, MustDefer
    <3>2. pc = "select"
      BY <2>1 DEF SelectWorkQueueToService
    <3> QED
      BY <3>1, <3>2 DEF PlaceInv
  <2> QED
    BY <1>24, <2>1, <2>2, <2>3, <2>4, <2>5, OthersPend DEF RunTask, Moves, TaskRun
<1>25. CASE RequeueDeferredNonNestableTask
  <2> DEFINE q == LastDeferred.queue
  <2> DEFINE t == LastDeferred.task
  <2>1. /\ deferred # <<>> /\ deferred' = SubSeq(deferred, 1, Len(deferred) - 1)
        /\ UNCHANGED <<ran, nextOrder>>
    BY <1>25 DEF RequeueDeferredNonNestableTask
  <2>2. \A r, s : r = q /\ s = t =>
            r \in Queues /\ OthersKept(r) /\ PutFirst(Pending(r), Pending(r)', s)
    BY <1>25, RequeuePutsFirst
  <2>3. PICK r \in Queues : r = q
    BY <2>2
  <2>4. TaskRequeued(r)
    BY <2>1, <2>2, <2>3, OthersPend DEF TaskRequeued
  <2> HIDE DEF q, t
  <2> QED
    BY <2>4 DEF Moves
<1>26. CASE RequeueDone
  BY <1>26, Calm DEF RequeueDone, MainGoes
<1>27. CASE RequeueToUnregistered
  BY <1>27, Calm DEF RequeueToUnregistered, MainGoes
<1>28. CASE FinishInsertFence
  BY <1>28, Calm DEF FinishInsertFence
<1>29. CASE FinishSetQueueEnabled
  BY <1>29, Calm DEF FinishSetQueueEnabled
<1>30. CASE UnregisterTaskQueue
  <2>1. PICK q \in Queues : q = op.queue
    BY <1>30 DEF UnregisterTaskQueue, PlaceInv, InOperation
  <2>2. /\ incoming' = [incoming EXCEPT ![q] = <<>>]
        /\ work' = [work EXCEPT ![q] = <<>>]
        /\ UNCHANGED <<deferred, ran, nextOrder>>
    BY <1>30, <2>1 DEF UnregisterTaskQueue
  <2>3. Pending(q)' = <<>> /\ OthersKept(q)
    BY <2>2 DEF TypeOK, Pending, OthersKept
  <2>4. Len(Pending(q)) \in Nat
    BY PendingTyped
  <2>5. Dropped(Pending(q), Pending(q)', Len(Pending(q)))
    BY <2>3, <2>4 DEF Dropped
  <2> QED
    BY <2>2, <2>3, <2>4, <2>5, OthersPend DEF Moves, TasksDropped
<1>31. CASE CleanUpQueues
  <2>1. UNCHANGED <<work, incoming, deferred, ran, nextOrder>>
    BY <1>31 DEF CleanUpQueues, BeginUnregister, MainGoes
  <2> QED
    BY <2>1, Calm
<1>32. CASE UNCHANGED vars
  BY <1>32, Calm DEF vars
<1> HIDE DEF shared, queueState, loopState, bounds, InClientCode, ClientMay,
    Spend
<1> QED
  BY <1>1, <1>2, <1>3, <1>4, <1>5, <1>6, <1>7, <1>8, <1>9, <1>10, <1>11,
     <1>12, <1>13, <1>14, <1>15, <1>16, <1>17, <1>18, <1>19, <1>20, <1>21,
     <1>22, <1>23, <1>24, <1>25, <1>26, <1>27, <1>28, <1>29, <1>30, <1>31,
     <1>32 DEF Next, CallStep, ClientStep, MainStep, Wake

-----------------------------------------------------------------------------
(* The tasks of a queue keep their order.                                    *)

\* The deferred tasks are as many as the sequence is long, now and next.
LEMMA DeferredTyped ==
    /\ TypeOK => /\ Len(deferred) \in Nat /\ DOMAIN deferred = 1..Len(deferred)
                 /\ \A i \in DOMAIN deferred :
                       deferred[i].queue \in Queues /\ deferred[i].task \in Tasks
    /\ TypeOK' => /\ Len(deferred') \in Nat
                  /\ DOMAIN deferred' = 1..Len(deferred')
                  /\ \A i \in DOMAIN deferred' :
                       deferred'[i].queue \in Queues /\ deferred'[i].task \in Tasks
<1> DEFINE D == [task : Tasks, queue : Queues]
<1>1. \A d \in D : d.queue \in Queues /\ d.task \in Tasks
  OBVIOUS
<1>2. (TypeOK => deferred \in Seq(D)) /\ (TypeOK' => deferred' \in Seq(D))
  BY DEF TypeOK
<1> HIDE DEF D
<1>3. \A d \in Seq(D) :
         /\ Len(d) \in Nat /\ DOMAIN d = 1..Len(d)
         /\ \A i \in DOMAIN d : d[i] \in D
  BY LenProperties, ElementOfSeq
<1> QED
  BY <1>1, <1>2, <1>3

LEMMA DeferredGrows ==
    ASSUME TypeOK, NEW q \in Queues, NEW t \in Tasks,
           deferred' = Append(deferred, [task |-> t, queue |-> q])
    PROVE  /\ DOMAIN deferred' = 1..Len(deferred) + 1
           /\ \A i \in 1..Len(deferred) : deferred'[i] = deferred[i]
           /\ deferred'[Len(deferred) + 1].task = t
           /\ deferred'[Len(deferred) + 1].queue = q
<1> DEFINE D == [task : Tasks, queue : Queues]
<1> DEFINE d == [task |-> t, queue |-> q]
<1>1. deferred \in Seq(D) /\ d \in D /\ d.task = t /\ d.queue = q
  BY DEF TypeOK
<1>2. deferred' = Append(deferred, d)
  OBVIOUS
<1> HIDE DEF D, d
<1>3. /\ deferred' \in Seq(D) /\ Len(deferred') = Len(deferred) + 1
      /\ \A i \in 1..Len(deferred) : deferred'[i] = deferred[i]
      /\ deferred'[Len(deferred) + 1] = d
  BY <1>1, <1>2, AppendProperties
<1>4. DOMAIN deferred' = 1..Len(deferred')
  BY <1>3, LenProperties
<1> QED
  BY <1>1, <1>3, <1>4

LEMMA DeferredShrinks ==
    ASSUME TypeOK, deferred # <<>>,
           deferred' = SubSeq(deferred, 1, Len(deferred) - 1)
    PROVE  \A i \in DOMAIN deferred' :
              /\ i \in DOMAIN deferred /\ i < Len(deferred)
              /\ deferred'[i] = deferred[i]
<1>1. /\ deferred' \in Seq([task : Tasks, queue : Queues])
      /\ Len(deferred') = Len(deferred) - 1
      /\ \A i \in 1..Len(deferred) - 1 : deferred'[i] = deferred[i]
      /\ Len(deferred) \in Nat \ {0}
  BY LastOfDeferred
<1>2. DOMAIN deferred' = 1..Len(deferred') /\ DOMAIN deferred = 1..Len(deferred)
  BY <1>1, LenProperties, DeferredTyped
<1> QED
  BY <1>1, <1>2

LEMMA TasksNumbered == \A t \in Tasks : t.order \in Nat /\ t.nestable \in BOOLEAN
  BY OrdersAreNumbers DEF Tasks

\* One queue: its tasks ascend and were numbered before nextOrder.
LineUp(tasks, next) ==
    /\ Ascending(tasks)
    /\ \A i \in DOMAIN tasks : tasks[i].order < next

\* Deferred task i comes before the tasks of its queue.
ComesBefore(i, tasks) ==
    \A k \in DOMAIN tasks : deferred[i].task.order < tasks[k].order

LEMMA DroppedLineUp ==
    ASSUME NEW old, NEW new, NEW k \in Nat, NEW m \in Nat, NEW n \in Nat,
           DOMAIN old = 1..m, DOMAIN new = 1..n, Len(old) = m, Len(new) = n,
           Dropped(old, new, k), NEW next, LineUp(old, next)
    PROVE  /\ LineUp(new, next)
           /\ \A j \in DOMAIN new : \E i \in DOMAIN old : new[j] = old[i]
           /\ k >= 1 => \A j \in DOMAIN new : old[1].order < new[j].order
<1>1. \A j \in DOMAIN new : j + k \in DOMAIN old /\ new[j] = old[j + k]
  BY DEF Dropped
<1>2. LineUp(new, next)
  <2>1. ASSUME NEW i \in DOMAIN new, NEW j \in DOMAIN new, i < j
        PROVE  new[i].order < new[j].order
    <3>1. i + k \in DOMAIN old /\ j + k \in DOMAIN old /\ i + k < j + k
      BY <1>1, <2>1
    <3> QED
      BY <1>1, <3>1 DEF LineUp, Ascending
  <2> QED
    BY <1>1, <2>1 DEF LineUp, Ascending
<1>3. ASSUME k >= 1, NEW j \in DOMAIN new PROVE old[1].order < new[j].order
  <2>1. 1 \in DOMAIN old /\ j + k \in DOMAIN old /\ 1 < j + k
    BY <1>1, <1>3
  <2> QED
    BY <1>1, <2>1 DEF LineUp, Ascending
<1> QED
  BY <1>1, <1>2, <1>3

LEMMA OrderKept ==
    TypeOK /\ TypeOK' /\ OrderInv /\ Moves => OrderInv'
<1> SUFFICES ASSUME TypeOK, TypeOK', OrderInv, Moves PROVE OrderInv'
  OBVIOUS
<1> USE TasksNumbered
<1>1. nextOrder \in Nat /\ nextOrder' \in Nat
  BY BoundsAssumption DEF TypeOK, FirstOrder
<1>2. \A q \in Queues :
         /\ Len(Pending(q)) \in Nat /\ DOMAIN Pending(q) = 1..Len(Pending(q))
         /\ \A i \in DOMAIN Pending(q) : Pending(q)[i] \in Tasks
         /\ Len(Pending(q)') \in Nat /\ DOMAIN Pending(q)' = 1..Len(Pending(q)')
         /\ \A i \in DOMAIN Pending(q)' : Pending(q)'[i] \in Tasks
  BY PendingTyped
<1>3. /\ Len(deferred) \in Nat /\ DOMAIN deferred = 1..Len(deferred)
      /\ \A i \in DOMAIN deferred :
            deferred[i].queue \in Queues /\ deferred[i].task \in Tasks
  BY DeferredTyped
<1>4. \A q \in Queues : LineUp(Pending(q), nextOrder)
  BY DEF OrderInv, LineUp
<1>5. CASE TasksStay
  <2>1. /\ \A q \in Queues : Pending(q)' = Pending(q)
        /\ deferred' = deferred /\ nextOrder' >= nextOrder
    BY <1>1, <1>5 DEF TasksStay
  <2>2. \A q \in Queues : LineUp(Pending(q)', nextOrder')
    BY <1>1, <1>2, <1>4, <2>1 DEF LineUp, Ascending
  <2>3. \A i \in DOMAIN deferred : deferred[i].task.order < nextOrder'
    BY <1>1, <1>3, <2>1 DEF OrderInv
  <2>4. ASSUME NEW i \in DOMAIN deferred, NEW r \in Queues, deferred[i].queue = r,
               NEW j \in DOMAIN Pending(r)'
        PROVE  deferred[i].task.order < Pending(r)'[j].order
    BY <2>1, <2>4 DEF OrderInv
  <2> QED
    BY <2>1, <2>2, <2>3, <2>4 DEF OrderInv, LineUp
<1>6. ASSUME NEW q \in Queues, NEW b \in BOOLEAN, TaskPosted(q, b) PROVE OrderInv'
  <2> DEFINE n == Len(Pending(q))
  <2>1. /\ n \in Nat /\ DOMAIN Pending(q) = 1..n /\ DOMAIN Pending(q)' = 1..n + 1
        /\ Pending(q)'[n + 1].order = nextOrder
        /\ \A i \in 1..n : Pending(q)'[i] = Pending(q)[i]
    BY <1>2, <1>6 DEF TaskPosted, Added
  <2>2. /\ nextOrder' = nextOrder + 1 /\ deferred' = deferred
        /\ \A r \in Queues \ {q} : Pending(r)' = Pending(r)
    BY <1>6 DEF TaskPosted, OtherPendingKept
  <2> HIDE DEF n
  <2>3. ASSUME NEW r \in Queues
        PROVE  /\ Ascending(Pending(r)')
               /\ \A i \in DOMAIN Pending(r)' : Pending(r)'[i].order < nextOrder'
    <3>1. CASE r = q
      <4>1. ASSUME NEW i \in 1..n + 1, NEW j \in 1..n + 1, i < j
            PROVE  Pending(q)'[i].order < Pending(q)'[j].order
        <5>1. i \in 1..n /\ Pending(q)'[i] = Pending(q)[i]
          BY <2>1, <4>1
        <5>2. CASE j = n + 1
          BY <1>4, <2>1, <5>1, <5>2 DEF LineUp
        <5>3. CASE j # n + 1
          BY <1>4, <2>1, <4>1, <5>1, <5>3 DEF LineUp, Ascending
        <5> QED
          BY <5>2, <5>3
      <4>2. ASSUME NEW i \in 1..n + 1 PROVE Pending(q)'[i].order < nextOrder'
        <5>1. CASE i = n + 1
          BY <1>1, <2>1, <2>2, <5>1
        <5>2. CASE i # n + 1
          <6>1. i \in 1..n /\ Pending(q)[i] \in Tasks
            BY <1>2, <2>1, <5>2
          <6> QED
            BY <1>1, <1>4, <2>1, <2>2, <6>1 DEF LineUp
        <5> QED
          BY <5>1, <5>2
      <4> QED
        BY <2>1, <3>1, <4>1, <4>2 DEF Ascending
    <3>2. CASE r # q
      BY <1>1, <1>2, <1>4, <2>2, <3>2 DEF LineUp, Ascending
    <3> QED
      BY <3>1, <3>2
  <2>4. ASSUME NEW i \in DOMAIN deferred, NEW r \in Queues, deferred[i].queue = r,
               NEW k \in DOMAIN Pending(r)'
        PROVE  deferred[i].task.order < Pending(r)'[k].order
    <3>1. CASE r = q /\ k \in 1..n
      BY <2>1, <2>4, <3>1 DEF OrderInv
    <3>2. CASE r = q /\ k = n + 1
      BY <2>1, <3>2 DEF OrderInv
    <3>3. CASE r # q
      BY <2>2, <2>4, <3>3 DEF OrderInv
    <3> QED
      BY <2>1, <3>1, <3>2, <3>3
  <2>5. \A i \in DOMAIN deferred : deferred[i].task.order < nextOrder'
    BY <1>1, <1>3, <2>2 DEF OrderInv
  <2> QED
    BY <2>2, <2>3, <2>4, <2>5 DEF OrderInv
<1>7. ASSUME NEW q \in Queues, NEW k \in 0..Len(Pending(q)), TasksDropped(q, k)
      PROVE  OrderInv'
  <2>1. /\ Dropped(Pending(q), Pending(q)', k) /\ k \in Nat
        /\ \A r \in Queues \ {q} : Pending(r)' = Pending(r)
        /\ deferred' = deferred /\ nextOrder' = nextOrder
    BY <1>7 DEF TasksDropped, OtherPendingKept
  <2>2. /\ LineUp(Pending(q)', nextOrder)
        /\ \A j \in DOMAIN Pending(q)' :
              \E i \in DOMAIN Pending(q) : Pending(q)'[j] = Pending(q)[i]
    BY <1>2, <1>4, <2>1, DroppedLineUp
  <2>3. \A r \in Queues : LineUp(Pending(r)', nextOrder)
    BY <1>4, <2>1, <2>2
  <2>4. ASSUME NEW i \in DOMAIN deferred, NEW r \in Queues, deferred[i].queue = r,
               NEW j \in DOMAIN Pending(r)'
        PROVE  deferred[i].task.order < Pending(r)'[j].order
    BY <2>1, <2>2, <2>4 DEF OrderInv
  <2> QED
    BY <2>1, <2>3, <2>4 DEF OrderInv, LineUp
<1>8. ASSUME NEW q \in Queues, TaskRun(q) PROVE OrderInv'
  <2>1. /\ Dropped(Pending(q), Pending(q)', 1)
        /\ \A r \in Queues \ {q} : Pending(r)' = Pending(r)
        /\ deferred' = deferred /\ nextOrder' = nextOrder
    BY <1>8 DEF TaskRun, OtherPendingKept
  <2>2. /\ LineUp(Pending(q)', nextOrder)
        /\ \A j \in DOMAIN Pending(q)' :
              \E i \in DOMAIN Pending(q) : Pending(q)'[j] = Pending(q)[i]
    BY <1>2, <1>4, <2>1, DroppedLineUp
  <2>3. \A r \in Queues : LineUp(Pending(r)', nextOrder)
    BY <1>4, <2>1, <2>2
  <2>4. ASSUME NEW i \in DOMAIN deferred, NEW r \in Queues, deferred[i].queue = r,
               NEW j \in DOMAIN Pending(r)'
        PROVE  deferred[i].task.order < Pending(r)'[j].order
    BY <2>1, <2>2, <2>4 DEF OrderInv
  <2> QED
    BY <2>1, <2>3, <2>4 DEF OrderInv, LineUp
<1>9. ASSUME NEW q \in Queues, TaskDeferred(q) PROVE OrderInv'
  <2> DEFINE h == Pending(q)[1]
  <2> DEFINE n == Len(deferred)
  <2>1. /\ Dropped(Pending(q), Pending(q)', 1)
        /\ \A r \in Queues \ {q} : Pending(r)' = Pending(r)
        /\ deferred' = Append(deferred, [task |-> h, queue |-> q])
        /\ nextOrder' = nextOrder /\ Pending(q) # <<>> /\ ~h.nestable
    BY <1>9 DEF TaskDeferred, OtherPendingKept
  <2>2. /\ LineUp(Pending(q)', nextOrder)
        /\ \A j \in DOMAIN Pending(q)' :
              \E i \in DOMAIN Pending(q) : Pending(q)'[j] = Pending(q)[i]
        /\ \A j \in DOMAIN Pending(q)' : h.order < Pending(q)'[j].order
    BY <1>2, <1>4, <2>1, DroppedLineUp
  <2>3. 1 \in DOMAIN Pending(q) /\ h \in Tasks
    <3>1. Pending(q) \in Seq(Tasks)
      BY FrontOfPending
    <3>2. Len(Pending(q)) \in Nat \ {0}
      BY <2>1, <3>1, EmptySeq
    <3> QED
      BY <1>2, <3>2
  <2> HIDE DEF h
  <2>4. /\ n \in Nat /\ DOMAIN deferred = 1..n /\ DOMAIN deferred' = 1..n + 1
        /\ \A i \in 1..n : deferred'[i] = deferred[i]
        /\ deferred'[n + 1].task = h /\ deferred'[n + 1].queue = q
    BY <1>3, <2>1, <2>3, DeferredGrows
  <2> HIDE DEF n
  <2>5. h.order < nextOrder /\ \A i \in DOMAIN deferred :
            deferred[i].queue = q => deferred[i].task.order < h.order
    BY <2>3 DEF OrderInv, h
  <2>6. \A r \in Queues : LineUp(Pending(r)', nextOrder)
    BY <1>4, <2>1, <2>2
  <2>7. ASSUME NEW i \in DOMAIN deferred'
        PROVE  /\ ~deferred'[i].task.nestable
               /\ deferred'[i].task.order < nextOrder
    BY <2>1, <2>4, <2>5 DEF OrderInv
  <2>8. ASSUME NEW i \in DOMAIN deferred', NEW r \in Queues,
               deferred'[i].queue = r, NEW j \in DOMAIN Pending(r)'
        PROVE  deferred'[i].task.order < Pending(r)'[j].order
    <3>1. CASE i = n + 1
      BY <2>2, <2>4, <2>8, <3>1
    <3>2. CASE i # n + 1
      <4>1. i \in DOMAIN deferred /\ deferred'[i] = deferred[i]
        BY <2>4, <3>2
      <4> QED
        BY <4>1, <2>1, <2>2, <2>8 DEF OrderInv
    <3> QED
      BY <3>1, <3>2
  <2>9. ASSUME NEW i \in DOMAIN deferred', NEW j \in DOMAIN deferred',
               i < j, deferred'[i].queue = deferred'[j].queue
        PROVE  deferred'[i].task.order < deferred'[j].task.order
    <3>1. i \in DOMAIN deferred /\ deferred'[i] = deferred[i]
      BY <2>4, <2>9
    <3>2. CASE j = n + 1
      BY <2>4, <2>5, <2>9, <3>1, <3>2
    <3>3. CASE j # n + 1
      BY <2>4, <2>9, <3>1, <3>3 DEF OrderInv
    <3> QED
      BY <3>2, <3>3
  <2> QED
    BY <2>1, <2>6, <2>7, <2>8, <2>9 DEF OrderInv, LineUp
<1>10. ASSUME NEW q \in Queues, TaskRequeued(q) PROVE OrderInv'
  <2> DEFINE t == LastDeferred.task
  <2> DEFINE n == Len(deferred)
  <2> DEFINE m == Len(Pending(q))
  <2>1. /\ \A r \in Queues \ {q} : Pending(r)' = Pending(r)
        /\ nextOrder' = nextOrder
        /\ PutFirst(Pending(q), Pending(q)', t)
    BY <1>10 DEF TaskRequeued, OtherPendingKept
  <2>2. /\ n \in Nat \ {0} /\ deferred[n].task = t /\ deferred[n].queue = q
        /\ t \in Tasks /\ n \in DOMAIN deferred
    BY <1>3, <1>10, LastOfDeferred DEF TaskRequeued
  <2>3. \A i \in DOMAIN deferred' : i \in DOMAIN deferred /\ deferred'[i] = deferred[i]
                                    /\ i < n
    BY <1>10, DeferredShrinks DEF TaskRequeued
  <2>4. /\ m \in Nat /\ DOMAIN Pending(q) = 1..m /\ DOMAIN Pending(q)' = 1..m + 1
        /\ Pending(q)'[1] = t
        /\ \A i \in 1..m : Pending(q)'[i + 1] = Pending(q)[i]
    BY <1>2, <2>1 DEF PutFirst
  <2> HIDE DEF t, n, m
  <2>5. t.order < nextOrder /\ \A k \in 1..m : t.order < Pending(q)[k].order
    BY <2>2, <2>4 DEF OrderInv
  <2>6. \A k \in 2..m + 1 : k - 1 \in 1..m /\ Pending(q)'[k] = Pending(q)[k - 1]
    <3>1. ASSUME NEW k \in 2..m + 1
          PROVE  k - 1 \in 1..m /\ Pending(q)'[k] = Pending(q)[k - 1]
      <4>1. k - 1 \in 1..m /\ (k - 1) + 1 = k
        BY <2>4
      <4> QED
        BY <2>4, <4>1
    <3> QED
      BY <3>1
  <2>7. LineUp(Pending(q)', nextOrder)
    <3>1. ASSUME NEW i \in 1..m + 1, NEW j \in 1..m + 1, i < j
          PROVE  Pending(q)'[i].order < Pending(q)'[j].order
      <4>1. j \in 2..m + 1 /\ j - 1 \in 1..m /\ Pending(q)'[j] = Pending(q)[j - 1]
        BY <2>4, <2>6, <3>1
      <4>2. CASE i = 1
        BY <2>4, <2>5, <4>1, <4>2
      <4>3. CASE i # 1
        <5>1. i - 1 \in 1..m /\ Pending(q)'[i] = Pending(q)[i - 1] /\ i - 1 < j - 1
          BY <2>4, <2>6, <3>1, <4>3
        <5> QED
          BY <1>4, <2>4, <4>1, <5>1 DEF LineUp, Ascending
      <4> QED
        BY <4>2, <4>3
    <3>2. ASSUME NEW i \in 1..m + 1 PROVE Pending(q)'[i].order < nextOrder
      <4>1. CASE i = 1
        BY <2>4, <2>5, <4>1
      <4>2. CASE i # 1
        <5>1. i - 1 \in 1..m /\ Pending(q)'[i] = Pending(q)[i - 1]
          BY <2>4, <2>6, <4>2
        <5> QED
          BY <1>4, <2>4, <5>1 DEF LineUp
      <4> QED
        BY <4>1, <4>2
    <3> QED
      BY <2>4, <3>1, <3>2 DEF LineUp, Ascending
  <2>8. \A r \in Queues : LineUp(Pending(r)', nextOrder)
    BY <1>4, <2>1, <2>7
  <2>10. ASSUME NEW i \in DOMAIN deferred', NEW r \in Queues,
                deferred'[i].queue = r, NEW j \in DOMAIN Pending(r)'
         PROVE  deferred'[i].task.order < Pending(r)'[j].order
    <3>1. i \in DOMAIN deferred /\ deferred'[i] = deferred[i] /\ i < n
      BY <2>3
    <3>2. CASE r = q
      <4>1. deferred[i].task.order < t.order
        BY <2>2, <2>10, <3>1, <3>2 DEF OrderInv
      <4>2. j = 1 \/ j \in 2..m + 1
        BY <2>4, <3>2
      <4>3. CASE j = 1
        BY <2>4, <3>1, <3>2, <4>1, <4>3
      <4>4. CASE j \in 2..m + 1
        BY <2>4, <2>6, <2>10, <3>1, <3>2, <4>4 DEF OrderInv
      <4> QED
        BY <4>2, <4>3, <4>4
    <3>3. CASE r # q
      BY <2>1, <2>10, <3>1, <3>3 DEF OrderInv
    <3> QED
      BY <3>2, <3>3
  <2>11. ASSUME NEW i \in DOMAIN deferred', NEW j \in DOMAIN deferred',
                i < j, deferred'[i].queue = deferred'[j].queue
         PROVE  deferred'[i].task.order < deferred'[j].task.order
    BY <2>3, <2>11 DEF OrderInv
  <2>12. ASSUME NEW i \in DOMAIN deferred'
         PROVE  ~deferred'[i].task.nestable /\ deferred'[i].task.order < nextOrder
    BY <2>3 DEF OrderInv
  <2> QED
    BY <2>1, <2>8, <2>10, <2>11, <2>12 DEF OrderInv, LineUp
<1> QED
  BY <1>5, <1>6, <1>7, <1>8, <1>9, <1>10 DEF Moves

\* Whatever runs of a queue is numbered before what is left.
LEMMA RanKept ==
    TypeOK /\ TypeOK' /\ OrderInv /\ RanInv /\ Moves => RanInv'
<1> SUFFICES ASSUME TypeOK, TypeOK', OrderInv, RanInv, Moves PROVE RanInv'
  OBVIOUS
<1>1. /\ nextOrder \in Nat /\ nextOrder' \in Nat
      /\ \A q \in Queues, b \in BOOLEAN : ran[q][b] \in Nat
  <2>1. nextOrder \in Nat /\ nextOrder' \in Nat
    BY BoundsAssumption DEF TypeOK, FirstOrder
  <2>2. \A q \in Queues, b \in BOOLEAN : ran[q][b] \in Orders \cup {None}
    BY DEF TypeOK
  <2> QED
    BY <2>1, <2>2, OrdersAreNumbers
<1>2. \A q \in Queues :
         /\ Len(Pending(q)) \in Nat /\ DOMAIN Pending(q) = 1..Len(Pending(q))
         /\ \A i \in DOMAIN Pending(q) :
              /\ Pending(q)[i].order \in Nat /\ Pending(q)[i].nestable \in BOOLEAN
              /\ Pending(q)[i] \in Tasks
         /\ Len(Pending(q)') \in Nat /\ DOMAIN Pending(q)' = 1..Len(Pending(q)')
         /\ \A i \in DOMAIN Pending(q)' :
              Pending(q)'[i].order \in Nat /\ Pending(q)'[i].nestable \in BOOLEAN
  BY PendingTyped, TasksNumbered
<1>3. /\ Len(deferred) \in Nat /\ DOMAIN deferred = 1..Len(deferred)
      /\ \A i \in DOMAIN deferred :
            /\ deferred[i].queue \in Queues /\ deferred[i].task \in Tasks
            /\ deferred[i].task.order \in Nat
  BY DeferredTyped, TasksNumbered
<1>4. CASE TasksStay
  <2>1. /\ \A q \in Queues : Pending(q)' = Pending(q)
        /\ deferred' = deferred /\ ran' = ran /\ nextOrder' >= nextOrder
    BY <1>1, <1>4 DEF TasksStay
  <2>2. \A q \in Queues, b \in BOOLEAN : ran[q][b] < nextOrder'
    BY <1>1, <2>1 DEF RanInv
  <2>3. \A q \in Queues : \A i \in DOMAIN Pending(q)' :
            ran[q][Pending(q)'[i].nestable] < Pending(q)'[i].order
    BY <2>1 DEF RanInv
  <2> QED
    BY <2>1, <2>2, <2>3 DEF RanInv
<1>5. ASSUME NEW q \in Queues, NEW b \in BOOLEAN, TaskPosted(q, b) PROVE RanInv'
  <2> DEFINE n == Len(Pending(q))
  <2>1. /\ n \in Nat /\ DOMAIN Pending(q) = 1..n /\ DOMAIN Pending(q)' = 1..n + 1
        /\ Pending(q)'[n + 1] = [order |-> nextOrder, nestable |-> b]
        /\ \A i \in 1..n : Pending(q)'[i] = Pending(q)[i]
    BY <1>2, <1>5 DEF TaskPosted, Added
  <2>2. /\ nextOrder' = nextOrder + 1 /\ deferred' = deferred /\ ran' = ran
        /\ \A r \in Queues \ {q} : Pending(r)' = Pending(r)
    BY <1>5 DEF TaskPosted, OtherPendingKept
  <2> HIDE DEF n
  <2>3. ASSUME NEW i \in DOMAIN Pending(q)'
        PROVE  ran[q][Pending(q)'[i].nestable] < Pending(q)'[i].order
    <3>1. CASE i = n + 1
      BY <2>1, <3>1 DEF RanInv
    <3>2. CASE i # n + 1
      BY <2>1, <3>2 DEF RanInv
    <3> QED
      BY <3>1, <3>2
  <2>4. \A r \in Queues, c \in BOOLEAN : ran[r][c] < nextOrder'
    BY <1>1, <2>2 DEF RanInv
  <2>5. \A r \in Queues : \A i \in DOMAIN Pending(r)' :
            ran[r][Pending(r)'[i].nestable] < Pending(r)'[i].order
    BY <2>2, <2>3 DEF RanInv
  <2> QED
    BY <2>2, <2>4, <2>5 DEF RanInv
<1>6. ASSUME NEW q \in Queues, NEW k \in 0..Len(Pending(q)), TasksDropped(q, k)
      PROVE  RanInv'
  <2>1. /\ Dropped(Pending(q), Pending(q)', k) /\ k \in Nat
        /\ \A r \in Queues \ {q} : Pending(r)' = Pending(r)
        /\ deferred' = deferred /\ nextOrder' = nextOrder /\ ran' = ran
    BY <1>6 DEF TasksDropped, OtherPendingKept
  <2>2. \A j \in DOMAIN Pending(q)' :
              \E i \in DOMAIN Pending(q) : Pending(q)'[j] = Pending(q)[i]
    <3>1. LineUp(Pending(q), nextOrder)
      BY DEF OrderInv, LineUp
    <3> QED
      BY <1>2, <2>1, <3>1, DroppedLineUp
  <2>3. \A r \in Queues : \A i \in DOMAIN Pending(r)' :
            ran[r][Pending(r)'[i].nestable] < Pending(r)'[i].order
    BY <2>1, <2>2 DEF RanInv
  <2> QED
    BY <2>1, <2>3 DEF RanInv
<1>7. ASSUME NEW q \in Queues, TaskDeferred(q) \/ TaskRun(q)
      PROVE  /\ Dropped(Pending(q), Pending(q)', 1)
             /\ \A r \in Queues \ {q} : Pending(r)' = Pending(r)
             /\ nextOrder' = nextOrder
             /\ 1 \in DOMAIN Pending(q)
             /\ \A j \in DOMAIN Pending(q)' :
                   /\ \E i \in DOMAIN Pending(q) : Pending(q)'[j] = Pending(q)[i]
                   /\ Pending(q)[1].order < Pending(q)'[j].order
  <2>1. /\ Dropped(Pending(q), Pending(q)', 1)
        /\ \A r \in Queues \ {q} : Pending(r)' = Pending(r)
        /\ nextOrder' = nextOrder /\ Pending(q) # <<>>
    BY <1>7 DEF TaskDeferred, TaskRun, OtherPendingKept
  <2>2. Pending(q) \in Seq(Tasks)
    BY FrontOfPending
  <2>3. Len(Pending(q)) \in Nat \ {0}
    BY <2>1, <2>2, EmptySeq
  <2>4. 1 \in DOMAIN Pending(q)
    BY <1>2, <2>3
  <2>5. LineUp(Pending(q), nextOrder)
    BY DEF OrderInv, LineUp
  <2> QED
    BY <1>2, <2>1, <2>4, <2>5, DroppedLineUp
<1>8. ASSUME NEW q \in Queues, TaskDeferred(q) PROVE RanInv'
  <2> DEFINE n == Len(deferred)
  <2> DEFINE h == Pending(q)[1]
  <2>1. /\ ran' = ran /\ ~h.nestable
        /\ deferred' = Append(deferred, [task |-> h, queue |-> q])
    BY <1>8 DEF TaskDeferred
  <2>2. \A r \in Queues : \A i \in DOMAIN Pending(r)' :
            ran[r][Pending(r)'[i].nestable] < Pending(r)'[i].order
    BY <1>7, <1>8 DEF RanInv
  <2>3. h \in Tasks /\ ran[q][FALSE] < h.order
    <3>1. 1 \in DOMAIN Pending(q) /\ h.nestable = FALSE
      BY <1>2, <1>7, <1>8, <2>1
    <3>2. ran[q][h.nestable] < h.order
      BY <3>1 DEF RanInv
    <3> QED
      BY <1>2, <3>1, <3>2
  <2> HIDE DEF h
  <2>4. /\ n \in Nat /\ DOMAIN deferred = 1..n /\ DOMAIN deferred' = 1..n + 1
        /\ \A i \in 1..n : deferred'[i] = deferred[i]
        /\ deferred'[n + 1].task = h /\ deferred'[n + 1].queue = q
    BY <1>3, <2>1, <2>3, DeferredGrows
  <2> HIDE DEF n
  <2>5. \A i \in DOMAIN deferred' :
            ran[deferred'[i].queue][FALSE] < deferred'[i].task.order
    <3>1. ASSUME NEW i \in DOMAIN deferred'
          PROVE  ran[deferred'[i].queue][FALSE] < deferred'[i].task.order
      <4>1. CASE i = n + 1
        BY <2>3, <2>4, <4>1
      <4>2. CASE i # n + 1
        <5>1. i \in DOMAIN deferred /\ deferred'[i] = deferred[i]
          BY <2>4, <4>2
        <5> QED
          BY <5>1 DEF RanInv
      <4> QED
        BY <4>1, <4>2
    <3> QED
      BY <3>1
  <2> QED
    BY <1>7, <1>8, <2>1, <2>2, <2>5 DEF RanInv
<1>9. ASSUME NEW q \in Queues, TaskRun(q) PROVE RanInv'
  <2> DEFINE h == Pending(q)[1]
  <2>1. /\ ran' = [ran EXCEPT ![q][h.nestable] = h.order]
        /\ deferred' = deferred
        /\ ~h.nestable => deferred = <<>>
    BY <1>9 DEF TaskRun
  <2>2. /\ h.nestable \in BOOLEAN /\ h.order \in Nat /\ h.order < nextOrder
        /\ 1 \in DOMAIN Pending(q)
    BY <1>2, <1>7, <1>9 DEF OrderInv
  <2>3. \A r \in Queues, c \in BOOLEAN :
            ran'[r][c] = IF r = q /\ c = h.nestable THEN h.order ELSE ran[r][c]
    BY <2>1, <2>2 DEF TypeOK
  <2> HIDE DEF h
  <2>4. ASSUME NEW r \in Queues, NEW c \in BOOLEAN PROVE ran'[r][c] < nextOrder'
    BY <1>7, <1>9, <2>2, <2>3 DEF RanInv
  <2>5. ASSUME NEW r \in Queues, NEW i \in DOMAIN Pending(r)'
        PROVE  ran'[r][Pending(r)'[i].nestable] < Pending(r)'[i].order
    <3>1. Pending(r)'[i].nestable \in BOOLEAN
      BY <1>2
    <3>2. CASE r = q /\ Pending(r)'[i].nestable = h.nestable
      BY <1>7, <1>9, <2>3, <3>1, <3>2 DEF h
    <3>3. CASE ~(r = q /\ Pending(r)'[i].nestable = h.nestable)
      <4>1. ran'[r][Pending(r)'[i].nestable] = ran[r][Pending(r)'[i].nestable]
        BY <2>3, <3>1, <3>3
      <4>2. ran[r][Pending(r)'[i].nestable] < Pending(r)'[i].order
        BY <1>7, <1>9 DEF RanInv
      <4> QED
        BY <4>1, <4>2
    <3> QED
      BY <3>2, <3>3
  <2>6. ASSUME NEW i \in DOMAIN deferred
        PROVE  ran'[deferred[i].queue][FALSE] < deferred[i].task.order
    <3>1. deferred # <<>>
      BY <1>3
    <3>2. h.nestable = TRUE
      BY <2>1, <2>2, <3>1
    <3>3. ran'[deferred[i].queue][FALSE] = ran[deferred[i].queue][FALSE]
      BY <1>3, <2>3, <3>2
    <3> QED
      BY <3>3 DEF RanInv
  <2> QED
    BY <2>1, <2>4, <2>5, <2>6 DEF RanInv
<1>10. ASSUME NEW q \in Queues, TaskRequeued(q) PROVE RanInv'
  <2> DEFINE t == LastDeferred.task
  <2> DEFINE n == Len(deferred)
  <2> DEFINE m == Len(Pending(q))
  <2>1. /\ \A r \in Queues \ {q} : Pending(r)' = Pending(r)
        /\ nextOrder' = nextOrder /\ ran' = ran
        /\ PutFirst(Pending(q), Pending(q)', t)
    BY <1>10 DEF TaskRequeued, OtherPendingKept
  <2>2. /\ n \in Nat \ {0} /\ deferred[n].task = t /\ deferred[n].queue = q
        /\ n \in DOMAIN deferred
    BY <1>3, <1>10, LastOfDeferred DEF TaskRequeued
  <2>3. ran[q][FALSE] < t.order /\ t.nestable = FALSE
    <3>1. ~t.nestable /\ t \in Tasks
      BY <1>3, <2>2 DEF OrderInv
    <3> QED
      BY <2>2, <3>1, TasksNumbered DEF RanInv
  <2>4. \A i \in DOMAIN deferred' : i \in DOMAIN deferred /\ deferred'[i] = deferred[i]
    BY <1>3, <1>10, DeferredShrinks DEF TaskRequeued
  <2>5. /\ m \in Nat /\ DOMAIN Pending(q) = 1..m /\ DOMAIN Pending(q)' = 1..m + 1
        /\ Pending(q)'[1] = t
        /\ \A i \in 1..m : Pending(q)'[i + 1] = Pending(q)[i]
    BY <1>2, <2>1 DEF PutFirst
  <2> HIDE DEF t, n, m
  <2>6. ASSUME NEW i \in DOMAIN Pending(q)'
        PROVE  ran[q][Pending(q)'[i].nestable] < Pending(q)'[i].order
    <3>1. CASE i = 1
      BY <2>3, <2>5, <3>1
    <3>2. CASE i # 1
      <4>1. i - 1 \in 1..m /\ (i - 1) + 1 = i
        BY <2>5, <3>2
      <4>2. Pending(q)'[i] = Pending(q)[i - 1]
        BY <2>5, <4>1
      <4> QED
        BY <2>5, <4>1, <4>2 DEF RanInv
    <3> QED
      BY <3>1, <3>2
  <2>7. \A r \in Queues : \A i \in DOMAIN Pending(r)' :
            ran[r][Pending(r)'[i].nestable] < Pending(r)'[i].order
    BY <2>1, <2>6 DEF RanInv
  <2>8. \A i \in DOMAIN deferred' :
            ran[deferred'[i].queue][FALSE] < deferred'[i].task.order
    BY <2>4 DEF RanInv
  <2> QED
    BY <2>1, <2>7, <2>8 DEF RanInv
<1> QED
  BY <1>4, <1>5, <1>6, <1>8, <1>9, <1>10 DEF Moves

-----------------------------------------------------------------------------
(* Fences.                                                                   *)

\* No step makes a task with the number f of a queue, if f was drawn before.
LEMMA NotOfKept ==
    ASSUME TypeOK, TypeOK', Moves, NEW q \in Queues, NEW f \in Nat, NotOf(q, f)
    PROVE  NotOf(q, f)'
<1>1. nextOrder \in Nat /\ nextOrder' \in Nat
  BY BoundsAssumption DEF TypeOK, FirstOrder
<1>2. \A r \in Queues :
         /\ Len(Pending(r)) \in Nat /\ DOMAIN Pending(r) = 1..Len(Pending(r))
         /\ Len(Pending(r)') \in Nat /\ DOMAIN Pending(r)' = 1..Len(Pending(r)')
  BY PendingTyped
<1>3. Len(deferred) \in Nat /\ DOMAIN deferred = 1..Len(deferred)
  BY DeferredTyped
<1>4. nextOrder' >= nextOrder
  <2>1. nextOrder' = nextOrder \/ nextOrder' = nextOrder + 1
    BY DEF Moves, TasksStay, TaskPosted, TasksDropped, TaskDeferred, TaskRun,
       TaskRequeued
  <2> QED
    BY <1>1, <2>1
<1>5. f < nextOrder'
  BY <1>1, <1>4 DEF NotOf
<1>6. SUFFICES /\ \A i \in DOMAIN Pending(q)' : Pending(q)'[i].order # f
               /\ \A i \in DOMAIN deferred' :
                     deferred'[i].queue = q => deferred'[i].task.order # f
  BY <1>5 DEF NotOf
<1>7. \A i \in DOMAIN Pending(q) : Pending(q)[i].order # f
  BY DEF NotOf
<1>8. \A i \in DOMAIN deferred : deferred[i].queue = q => deferred[i].task.order # f
  BY DEF NotOf
<1>9. CASE TasksStay
  BY <1>7, <1>8, <1>9 DEF TasksStay
<1>10. ASSUME NEW r \in Queues, NEW b \in BOOLEAN, TaskPosted(r, b)
       PROVE  /\ \A i \in DOMAIN Pending(q)' : Pending(q)'[i].order # f
              /\ deferred' = deferred
  <2>1. deferred' = deferred /\ (q # r => Pending(q)' = Pending(q))
    BY <1>10 DEF TaskPosted, OtherPendingKept
  <2>2. ASSUME q = r, NEW i \in DOMAIN Pending(q)' PROVE Pending(q)'[i].order # f
    <3>1. /\ Len(Pending(q)') = Len(Pending(q)) + 1
          /\ Pending(q)'[Len(Pending(q)) + 1].order = nextOrder
          /\ \A j \in 1..Len(Pending(q)) : Pending(q)'[j] = Pending(q)[j]
      BY <1>10, <2>2 DEF TaskPosted, Added
    <3>2. CASE i = Len(Pending(q)) + 1
      BY <1>1, <3>1, <3>2 DEF NotOf
    <3>3. CASE i # Len(Pending(q)) + 1
      BY <1>2, <1>7, <3>1, <3>3
    <3> QED
      BY <3>2, <3>3
  <2> QED
    BY <1>7, <2>1, <2>2
<1>11. ASSUME NEW r \in Queues, NEW k \in 0..Len(Pending(r)),
              Dropped(Pending(r), Pending(r)', k), OtherPendingKept(r)
       PROVE  \A i \in DOMAIN Pending(q)' : Pending(q)'[i].order # f
  <2>1. CASE q = r
    <3>1. ASSUME NEW i \in DOMAIN Pending(q)'
          PROVE  i + k \in DOMAIN Pending(q) /\ Pending(q)'[i] = Pending(q)[i + k]
      BY <1>2, <1>11, <2>1 DEF Dropped
    <3> QED
      BY <1>7, <3>1
  <2>2. CASE q # r
    BY <1>7, <1>11, <2>2 DEF OtherPendingKept
  <2> QED
    BY <2>1, <2>2
<1>12. ASSUME NEW r \in Queues, TaskDeferred(r) \/ TaskRun(r)
       PROVE  /\ \A i \in DOMAIN Pending(q)' : Pending(q)'[i].order # f
              /\ 1 \in DOMAIN Pending(r)
  <2>1. /\ Pending(r) # <<>> /\ Dropped(Pending(r), Pending(r)', 1)
        /\ OtherPendingKept(r)
    BY <1>12 DEF TaskDeferred, TaskRun
  <2>2. Pending(r) \in Seq(Tasks)
    BY FrontOfPending
  <2>3. Len(Pending(r)) \in Nat \ {0}
    BY <2>1, <2>2, EmptySeq
  <2>4. 1 \in 0..Len(Pending(r)) /\ 1 \in DOMAIN Pending(r)
    BY <1>2, <2>3
  <2> QED
    BY <1>11, <2>1, <2>4
<1>13. ASSUME NEW r \in Queues, TaskDeferred(r)
       PROVE  \A i \in DOMAIN deferred' :
                 deferred'[i].queue = q => deferred'[i].task.order # f
  <2> DEFINE h == Pending(r)[1]
  <2> DEFINE n == Len(deferred)
  <2>1. h \in Tasks /\ (r = q => h.order # f)
    BY <1>7, <1>12, <1>13, PendingTyped
  <2>2. deferred' = Append(deferred, [task |-> h, queue |-> r])
    BY <1>13 DEF TaskDeferred
  <2> HIDE DEF h
  <2>3. /\ n \in Nat /\ DOMAIN deferred = 1..n /\ DOMAIN deferred' = 1..n + 1
        /\ \A i \in 1..n : deferred'[i] = deferred[i]
        /\ deferred'[n + 1].task = h /\ deferred'[n + 1].queue = r
    BY <1>3, <2>1, <2>2, DeferredGrows
  <2> HIDE DEF n
  <2>4. ASSUME NEW i \in DOMAIN deferred', deferred'[i].queue = q
        PROVE  deferred'[i].task.order # f
    <3>1. CASE i = n + 1
      BY <2>1, <2>3, <2>4, <3>1
    <3>2. CASE i # n + 1
      <4>1. i \in DOMAIN deferred /\ deferred'[i] = deferred[i]
        BY <2>3, <3>2
      <4> QED
        BY <1>8, <2>4, <4>1
    <3> QED
      BY <3>1, <3>2
  <2> QED
    BY <2>4
<1>14. ASSUME NEW r \in Queues, TaskRequeued(r)
       PROVE  /\ \A i \in DOMAIN Pending(q)' : Pending(q)'[i].order # f
              /\ \A i \in DOMAIN deferred' :
                    deferred'[i].queue = q => deferred'[i].task.order # f
  <2> DEFINE t == LastDeferred.task
  <2> DEFINE m == Len(Pending(q))
  <2>1. \A i \in DOMAIN deferred' : i \in DOMAIN deferred /\ deferred'[i] = deferred[i]
    BY <1>14, DeferredShrinks DEF TaskRequeued
  <2>2. r = q => t.order # f
    BY <1>3, <1>8, <1>14, LastOfDeferred DEF TaskRequeued
  <2>3. q # r => Pending(q)' = Pending(q)
    BY <1>14 DEF TaskRequeued, OtherPendingKept
  <2>4. q = r => PutFirst(Pending(q), Pending(q)', t)
    BY <1>14 DEF TaskRequeued
  <2> HIDE DEF t
  <2>5. ASSUME q = r, NEW i \in DOMAIN Pending(q)' PROVE Pending(q)'[i].order # f
    <3>1. /\ m \in Nat /\ DOMAIN Pending(q) = 1..m /\ DOMAIN Pending(q)' = 1..m + 1
          /\ Pending(q)'[1] = t
          /\ \A j \in 1..m : Pending(q)'[j + 1] = Pending(q)[j]
      BY <1>2, <2>4, <2>5 DEF PutFirst
    <3> HIDE DEF m
    <3>2. CASE i = 1
      BY <2>2, <2>5, <3>1, <3>2
    <3>3. CASE i # 1
      <4>1. i - 1 \in 1..m /\ (i - 1) + 1 = i
        BY <3>1, <3>3
      <4>2. Pending(q)'[i] = Pending(q)[i - 1]
        BY <3>1, <4>1
      <4> QED
        BY <1>7, <3>1, <4>1, <4>2
    <3> QED
      BY <3>2, <3>3
  <2> QED
    BY <1>7, <1>8, <2>1, <2>3, <2>5
<1>15. ASSUME NEW r \in Queues, NEW k \in 0..Len(Pending(r)), TasksDropped(r, k)
       PROVE  /\ \A i \in DOMAIN Pending(q)' : Pending(q)'[i].order # f
              /\ deferred' = deferred
  BY <1>11, <1>15 DEF TasksDropped
<1>16. ASSUME NEW r \in Queues, TaskRun(r)
       PROVE  /\ \A i \in DOMAIN Pending(q)' : Pending(q)'[i].order # f
              /\ deferred' = deferred
  BY <1>12, <1>16 DEF TaskRun
<1> QED
  BY <1>8, <1>9, <1>10, <1>12, <1>13, <1>14, <1>15, <1>16 DEF Moves

LEMMA FencesAreNumbers ==
    TypeOK => /\ \A q \in Queues : fence[q] \in Nat
              /\ op.previous \in Nat /\ nextOrder \in Nat
<1>1. TypeOK => /\ \A q \in Queues : fence[q] \in Orders \cup {None, BlockingFence}
                /\ op.previous \in Orders \cup {None, BlockingFence}
  BY DEF TypeOK
<1>2. TypeOK => nextOrder \in Nat
  BY BoundsAssumption DEF TypeOK, FirstOrder
<1> QED
  BY <1>1, <1>2, OrdersAreNumbers

LEMMA FencesStay ==
    ASSUME TypeOK, TypeOK', PlaceInv, FenceInv, Moves, fence' = fence,
           pc' = "fence" => pc = "fence" /\ op' = op
    PROVE  FenceInv'
<1>1. \A q \in Queues : NotOf(q, fence[q])'
  <2>1. ASSUME NEW q \in Queues PROVE NotOf(q, fence[q])'
    <3>1. \A f \in Nat : NotOf(q, f) => NotOf(q, f)'
      BY NotOfKept
    <3>2. NotOf(q, fence[q]) /\ fence[q] \in Nat
      BY FencesAreNumbers DEF FenceInv
    <3> QED
      BY <3>1, <3>2 DEF NotOf
  <2> QED
    BY <2>1
<1>2. pc' = "fence" => NotOf(op.queue, op.previous)'
  <2>1. SUFFICES ASSUME pc' = "fence" PROVE NotOf(op.queue, op.previous)'
    OBVIOUS
  <2>2. /\ op.queue \in Queues /\ op.previous \in Nat /\ op' = op
        /\ NotOf(op.queue, op.previous)
    BY <2>1, FencesAreNumbers DEF FenceInv, PlaceInv, InOperation
  <2>3. \A q \in Queues, f \in Nat : NotOf(q, f) => NotOf(q, f)'
    BY NotOfKept
  <2>4. PICK q \in Queues, f \in Nat : q = op.queue /\ f = op.previous
    BY <2>2
  <2>5. NotOf(q, f)'
    BY <2>2, <2>3, <2>4
  <2> QED
    BY <2>2, <2>4, <2>5 DEF NotOf, Pending
<1> QED
  BY <1>1, <1>2 DEF FenceInv

\* A number that no task can have, or that is drawn now, is of no task.
LEMMA NewFence ==
    ASSUME TypeOK, OrderInv, UNCHANGED <<work, incoming, deferred>>,
           NEW q \in Queues, NEW f \in {nextOrder, BlockingFence, None},
           nextOrder' \in Nat, nextOrder' >= nextOrder, f < nextOrder'
    PROVE  \A g : g = f => NotOf(q, g)'
<1>1. /\ \A i \in DOMAIN Pending(q) :
            Pending(q)[i].order \in Orders /\ Pending(q)[i].order < nextOrder
      /\ \A i \in DOMAIN deferred :
            deferred[i].task.order \in Orders /\ deferred[i].task.order < nextOrder
  BY PendingTyped, DeferredTyped DEF OrderInv, Tasks
<1>2. nextOrder \in Nat
  BY FencesAreNumbers
<1>3. /\ \A i \in DOMAIN Pending(q) : Pending(q)[i].order # f
      /\ \A i \in DOMAIN deferred : deferred[i].task.order # f
  BY <1>1, <1>2, OrdersAreNumbers
<1> QED
  BY <1>3 DEF NotOf, Pending

\* The fences stay apart from the tasks.
LEMMA FenceKept ==
    TypeOK /\ TypeOK' /\ PlaceInv /\ OrderInv /\ FenceInv /\ Moves /\
    [Next]_vars => FenceInv'
<1> SUFFICES ASSUME TypeOK, TypeOK', PlaceInv, OrderInv, FenceInv, Moves,
      [Next]_vars PROVE FenceInv'
  OBVIOUS
<1> USE DEF shared, queueState, loopState, bounds, InClientCode, ClientMay,
    Spend
<1>1. ASSUME NEW p \in Posters, NEW q \in Queues, TryBeginOperation(p, q)
      PROVE FenceInv'
  BY <1>1, FencesStay DEF TryBeginOperation
<1>2. ASSUME NEW p \in Posters, NEW b \in BOOLEAN, PostImmediateTask(p, b)
      PROVE FenceInv'
  BY <1>2, FencesStay DEF PostImmediateTask, PushTask
<1>3. ASSUME NEW p \in Posters, ScheduleWork(p) PROVE FenceInv'
  BY <1>3, FencesStay DEF ScheduleWork
<1>4. ASSUME NEW q \in Queues, NEW b \in BOOLEAN, PostOnBoundThread(q, b)
      PROVE FenceInv'
  BY <1>4, FencesStay DEF PostOnBoundThread, PushTask
<1>5. ASSUME NEW q \in Queues, NEW f \in {nextOrder, BlockingFence},
      InsertFence(q, f) PROVE FenceInv'
  <2>1. /\ nextOrder' = IF f = nextOrder THEN nextOrder + 1 ELSE nextOrder
        /\ fence' = [fence EXCEPT ![q] = f] /\ op'.queue = q
        /\ op'.previous = fence[q]
        /\ UNCHANGED <<work, incoming, deferred>>
    BY <1>5 DEF InsertFence
  <2>2. nextOrder \in Nat /\ nextOrder >= FirstOrder /\ nextOrder' \in Nat
    BY FencesAreNumbers, <2>1 DEF TypeOK
  <2>3. f < nextOrder' /\ nextOrder' >= nextOrder
    BY <2>1, <2>2, OrdersAreNumbers
  <2>4. \A g : g = f => NotOf(q, g)'
    BY <2>1, <2>2, <2>3, NewFence
  <2>5. \A r \in Queues, g \in Nat : NotOf(r, g) => NotOf(r, g)'
    BY NotOfKept
  <2>6. \A r \in Queues : fence[r] \in Nat /\ NotOf(r, fence[r])
    BY FencesAreNumbers DEF FenceInv
  <2>7. /\ fence'[q] = f
        /\ \A r \in Queues \ {q} : fence'[r] = fence[r]
    BY <2>1 DEF TypeOK
  <2>8. ASSUME NEW r \in Queues PROVE NotOf(r, fence[r])'
    <3>1. CASE r = q
      BY <2>4, <2>7, <3>1 DEF NotOf
    <3>2. CASE r # q
      BY <2>5, <2>6, <2>7, <3>2 DEF NotOf
    <3> QED
      BY <3>1, <3>2
  <2>9. NotOf(op.queue, op.previous)'
    <3>1. PICK g \in Nat : g = fence[q]
      BY <2>6
    <3>2. NotOf(q, g)'
      BY <2>5, <2>6, <3>1
    <3> QED
      BY <2>1, <3>1, <3>2 DEF NotOf, Pending
  <2> QED
    BY <2>8, <2>9 DEF FenceInv
<1>6. ASSUME NEW q \in Queues, RemoveFence(q) PROVE FenceInv'
  <2>1. /\ nextOrder' = nextOrder /\ pc' # "fence"
        /\ fence' = [fence EXCEPT ![q] = None]
        /\ UNCHANGED <<work, incoming, deferred>>
    BY <1>6 DEF RemoveFence
  <2>2. nextOrder \in Nat /\ nextOrder >= FirstOrder
    BY FencesAreNumbers DEF TypeOK
  <2>3. None < nextOrder' /\ nextOrder' >= nextOrder
    BY <2>1, <2>2, OrdersAreNumbers
  <2>4. \A g : g = None => NotOf(q, g)'
    BY <2>1, <2>2, <2>3, NewFence
  <2>5. \A r \in Queues, g \in Nat : NotOf(r, g) => NotOf(r, g)'
    BY NotOfKept
  <2>6. \A r \in Queues : fence[r] \in Nat /\ NotOf(r, fence[r])
    BY FencesAreNumbers DEF FenceInv
  <2>7. /\ fence'[q] = None
        /\ \A r \in Queues \ {q} : fence'[r] = fence[r]
    BY <2>1 DEF TypeOK
  <2>8. ASSUME NEW r \in Queues PROVE NotOf(r, fence[r])'
    <3>1. CASE r = q
      BY <2>4, <2>7, <3>1 DEF NotOf
    <3>2. CASE r # q
      BY <2>5, <2>6, <2>7, <3>2 DEF NotOf
    <3> QED
      BY <3>1, <3>2
  <2> QED
    BY <2>1, <2>8 DEF FenceInv
<1>7. ASSUME NEW q \in Queues, SetQueueEnabled(q) PROVE FenceInv'
  BY <1>7, FencesStay DEF SetQueueEnabled
<1>8. ASSUME NEW q \in Queues, ShutdownTaskQueue(q) PROVE FenceInv'
  BY <1>8, FencesStay DEF ShutdownTaskQueue, BeginUnregister
<1>9. ASSUME NEW q \in Queues, ShutdownTaskQueueGracefully(q) PROVE FenceInv'
  BY <1>9, FencesStay DEF ShutdownTaskQueueGracefully
<1>10. ASSUME NEW q \in Queues, CancelTask(q) PROVE FenceInv'
  BY <1>10, FencesStay DEF CancelTask
<1>11. CASE BeginNestedRunLoop
  BY <1>11, FencesStay DEF BeginNestedRunLoop
<1>12. CASE ExitNestedRunLoop
  BY <1>12, FencesStay DEF ExitNestedRunLoop
<1>13. CASE BeginWork
  BY <1>13, FencesStay DEF BeginWork
<1>14. CASE SelectNextTask
  BY <1>14, FencesStay DEF SelectNextTask, RunActiveCallbacks
<1>15. CASE SelectNoTask
  BY <1>15, FencesStay DEF SelectNoTask, MainGoes
<1>16. CASE DidRunTask
  BY <1>16, FencesStay DEF DidRunTask, MainGoes
<1>17. CASE WillCheckForMoreWork
  BY <1>17, FencesStay DEF WillCheckForMoreWork
<1>18. CASE DelayTillNextTask
  BY <1>18, FencesStay DEF DelayTillNextTask, MainGoes, RunActiveCallbacks
<1>19. CASE DelayAfterReload
  BY <1>19, FencesStay DEF DelayAfterReload, MainGoes
<1>20. CASE WaitReturns
  BY <1>20, FencesStay DEF WaitReturns, MainGoes
<1>21. ASSUME NEW q \in Queues, ReloadEmptyImmediateWorkQueue(q) PROVE
      FenceInv'
  BY <1>21, FencesStay DEF ReloadEmptyImmediateWorkQueue
<1>22. ASSUME NEW q \in Queues, DropCanceledTasks(q) PROVE FenceInv'
  BY <1>22, FencesStay DEF DropCanceledTasks
<1>23. ASSUME NEW q \in Queues, DeferTask(q) PROVE FenceInv'
  BY <1>23, FencesStay DEF DeferTask
<1>24. ASSUME NEW q \in Queues, RunTask(q) PROVE FenceInv'
  BY <1>24, FencesStay DEF RunTask
<1>25. CASE RequeueDeferredNonNestableTask
  BY <1>25, FencesStay DEF RequeueDeferredNonNestableTask
<1>26. CASE RequeueDone
  BY <1>26, FencesStay DEF RequeueDone, MainGoes
<1>27. CASE RequeueToUnregistered
  BY <1>27, FencesStay DEF RequeueToUnregistered, MainGoes
<1>28. CASE FinishInsertFence
  BY <1>28, FencesStay DEF FinishInsertFence, TypeOK
<1>29. CASE FinishSetQueueEnabled
  BY <1>29, FencesStay DEF FinishSetQueueEnabled, TypeOK
<1>30. CASE UnregisterTaskQueue
  BY <1>30, FencesStay DEF UnregisterTaskQueue, TypeOK
<1>31. CASE CleanUpQueues
  <2>1. fence' = fence /\ pc' # "fence"
    BY <1>31 DEF CleanUpQueues, BeginUnregister, MainGoes
  <2> QED
    BY <2>1, FencesStay
<1>32. CASE UNCHANGED vars
  BY <1>32, FencesStay DEF vars
<1> HIDE DEF shared, queueState, loopState, bounds, InClientCode, ClientMay,
    Spend
<1> QED
  BY <1>1, <1>2, <1>3, <1>4, <1>5, <1>6, <1>7, <1>8, <1>9, <1>10, <1>11,
     <1>12, <1>13, <1>14, <1>15, <1>16, <1>17, <1>18, <1>19, <1>20, <1>21,
     <1>22, <1>23, <1>24, <1>25, <1>26, <1>27, <1>28, <1>29, <1>30, <1>31,
     <1>32 DEF Next, CallStep, ClientStep, MainStep, Wake

-----------------------------------------------------------------------------
(* The thread sleeps only when nothing is left to do.                        *)

\* When a task may run, in terms of the first pending one.
LEMMA RunnableIs ==
    /\ TypeOK => \A q \in Queues :
         Runnable(q) <=>
             /\ life[q] \in {"registered", "graceful"} /\ enabled[q]
             /\ Pending(q) # <<>>
             /\ fence[q] = None \/ Head(Pending(q)).order < fence[q]
    /\ TypeOK' => \A q \in Queues :
         Runnable(q)' <=>
             /\ life'[q] \in {"registered", "graceful"} /\ enabled'[q]
             /\ Pending(q)' # <<>>
             /\ fence'[q] = None \/ Head(Pending(q)').order < fence'[q]
<1>1. \A w, i \in Seq(Tasks) : w \o i # <<>> =>
         Head(w \o i).order \in Nat /\ Head(w \o i).order # None
  <2>1. \A w, i \in Seq(Tasks) : w \o i # <<>> => Head(w \o i) \in Tasks
    BY PendingFront
  <2>2. \A t \in Tasks : t.order \in Nat /\ t.order # None
    <3>1. \A n \in Orders : n \in Nat /\ n # None
      BY OrdersAreNumbers
    <3> QED
      BY <3>1 DEF Tasks
  <2> QED
    BY <2>1, <2>2
<1>2. /\ TypeOK => \A q \in Queues : fence[q] \in Nat /\ (Pending(q) # <<>> =>
            Head(Pending(q)).order \in Nat /\ Head(Pending(q)).order # None)
      /\ TypeOK' => \A q \in Queues : fence'[q] \in Nat /\ (Pending(q)' # <<>> =>
            Head(Pending(q)').order \in Nat /\ Head(Pending(q)').order # None)
  <2>1. \A n \in Orders \cup {None, BlockingFence} : n \in Nat
    BY OrdersAreNumbers
  <2>2. /\ TypeOK => \A q \in Queues : fence[q] \in Nat
        /\ TypeOK' => \A q \in Queues : fence'[q] \in Nat
    BY <2>1 DEF TypeOK
  <2> QED
    BY <1>1, <2>2 DEF TypeOK, Pending
<1>3. ASSUME NEW q \in Queues, TypeOK
      PROVE  FrontKey(fence[q], Pending(q)) # None <=>
                 /\ Pending(q) # <<>>
                 /\ fence[q] = None \/ Head(Pending(q)).order < fence[q]
  BY <1>2, <1>3 DEF FrontKey, BlockedByFence
<1>4. ASSUME NEW q \in Queues, TypeOK'
      PROVE  FrontKey(fence'[q], Pending(q)') # None <=>
                 /\ Pending(q)' # <<>>
                 /\ fence'[q] = None \/ Head(Pending(q)').order < fence'[q]
  BY <1>2, <1>4 DEF FrontKey, BlockedByFence
<1> QED
  BY <1>3, <1>4 DEF Runnable

\* The front of the pending tasks, now and in the next state.
LEMMA Fronts ==
    /\ TypeOK => \A q \in Queues :
         /\ Pending(q) = <<>> <=> work[q] = <<>> /\ incoming[q] = <<>>
         /\ work[q] # <<>> => Head(Pending(q)) = Head(work[q])
         /\ work[q] = <<>> => Pending(q) = incoming[q]
    /\ TypeOK' => \A q \in Queues :
         /\ Pending(q)' = <<>> <=> work'[q] = <<>> /\ incoming'[q] = <<>>
         /\ work'[q] # <<>> => Head(Pending(q)') = Head(work'[q])
         /\ work'[q] = <<>> => Pending(q)' = incoming'[q]
<1>1. \A w, i \in Seq(Tasks) :
         /\ w \o i = <<>> <=> w = <<>> /\ i = <<>>
         /\ w # <<>> => Head(w \o i) = Head(w)
         /\ w = <<>> => w \o i = i
  BY PendingFront
<1> QED
  BY <1>1 DEF TypeOK, Pending

\* A thread that does not rest owes nothing.
LEMMA Busy ==
    ASSUME pc' \notin {"delayed", "sleep"},
           pc' \in {"fence", "enable", "unregister"} => op'.back # "sleep"
    PROVE  RestInv'
  BY DEF RestInv, Asleep, InOperation

LEMMA NothingNew ==
    ASSUME RestInv, Requesting => Requesting',
           UNCHANGED <<work, incoming, enabled, fence, life, reloading, pc, op>>
    PROVE  RestInv'
<1>1. /\ \A q \in Queues : Runnable(q)' <=> Runnable(q)
      /\ \A q \in Queues : WillRequest(q)' <=> WillRequest(q)
      /\ Asleep' <=> Asleep
  BY DEF Runnable, Pending, WillRequest, IncomingUnblocked, Asleep, InOperation
<1> QED
  BY <1>1 DEF RestInv

\* Whoever posts to an empty queue that schedules requests work; if the queue
\* does not schedule, a fence is to blame that is there, or that the bound
\* thread is just replacing.
LEMMA PushRests ==
    ASSUME TypeOK, TypeOK', ToldInv, FenceInv, RestInv, NEW q \in Queues,
           life[q] # "gone", NEW b \in BOOLEAN, PushTask(q, b),
           nextOrder \in Orders,
           UNCHANGED <<work, enabled, fence, life, reloading, pc, op>>,
           Requesting => Requesting',
           WasEmpty(q) /\ schedules[q] => Requesting'
    PROVE  RestInv'
<1>1. /\ \A r \in Queues \ {q} : incoming'[r] = incoming[r]
      /\ incoming'[q] # <<>>
      /\ incoming[q] # <<>> => Head(incoming'[q]) = Head(incoming[q])
      /\ incoming[q] = <<>> => Head(incoming'[q]).order = nextOrder
  BY PushAdds DEF OthersKept
<1>2. /\ \A r \in Queues \ {q} : Runnable(r)' <=> Runnable(r)
      /\ \A r \in Queues \ {q} : WillRequest(r)' <=> WillRequest(r)
      /\ Asleep' <=> Asleep
  BY <1>1 DEF Runnable, Pending, WillRequest, IncomingUnblocked, Asleep,
     InOperation
<1>3. CASE Pending(q) # <<>>
  <2>1. Head(Pending(q)') = Head(Pending(q)) /\ Pending(q)' # <<>>
    BY <1>1, <1>3, Fronts
  <2>2. Runnable(q)' <=> Runnable(q)
    BY <1>3, <2>1, RunnableIs
  <2>3. WillRequest(q) => WillRequest(q)'
    BY <1>1 DEF WillRequest, IncomingUnblocked
  <2> QED
    BY <1>2, <2>2, <2>3 DEF RestInv
<1>4. CASE Pending(q) = <<>>
  <2>1. work[q] = <<>> /\ incoming[q] = <<>> /\ Pending(q)' = incoming'[q]
    BY <1>4, Fronts
  <2>2. Head(incoming'[q]).order = nextOrder /\ Head(Pending(q)').order = nextOrder
    BY <1>1, <2>1
  <2>3. fence[q] \in Nat /\ op.previous \in Nat /\ nextOrder \in Nat
    BY FencesAreNumbers
  <2>4. fence[q] < nextOrder
    BY DEF FenceInv, NotOf
  <2>5. Runnable(q)' => enabled[q] /\ fence[q] = None
    BY <2>2, <2>3, <2>4, RunnableIs
  <2>6. WasEmpty(q)
    BY <2>1 DEF ToldInv, WasEmpty
  <2>7. CASE pc = "fence" /\ op.queue = q
    <3>1. op.previous < nextOrder
      BY <2>7 DEF FenceInv, NotOf
    <3>2. Runnable(q)' /\ op.previous # None => WillRequest(q)'
      BY <1>1, <2>2, <2>3, <2>5, <2>7, <3>1 DEF WillRequest, IncomingUnblocked
    <3>3. Runnable(q)' /\ op.previous = None => Requesting'
      BY <2>5, <2>6, <2>7 DEF ToldInv, KnownFence
    <3> QED
      BY <1>2, <2>7, <3>2, <3>3 DEF RestInv
  <2>8. CASE ~(pc = "fence" /\ op.queue = q)
    <3>1. Runnable(q)' => Requesting'
      BY <2>5, <2>6, <2>8 DEF ToldInv, KnownFence
    <3> QED
      BY <1>2, <3>1 DEF RestInv
  <2> QED
    BY <2>7, <2>8
<1> QED
  BY <1>3, <1>4

\* An operation of the client on queue q, in a task or in the sleep.
LEMMA OperationRests ==
    ASSUME RestInv, NEW q \in Queues, pc \in {"task", "sleep"},
           pc' = pc \/ (pc' \in {"fence", "enable", "unregister"} /\ op'.back = pc),
           \A r \in Queues \ {q} : Runnable(r)' => Runnable(r),
           Requesting => Requesting',
           pc = "sleep" /\ Runnable(q)' => Requesting' \/ WillRequest(q)'
    PROVE  RestInv'
<1>1. CASE pc = "task"
  BY <1>1, Busy
<1>2. CASE pc = "sleep"
  <2>1. \A r \in Queues : Runnable(r) => Requesting
    BY <1>2 DEF RestInv, Asleep, WillRequest
  <2>2. \A r \in Queues : Runnable(r)' => Requesting' \/ WillRequest(r)'
    BY <1>2, <2>1
  <2>3. pc' # "delayed"
    BY <1>2
  <2> QED
    BY <2>2, <2>3 DEF RestInv
<1> QED
  BY <1>1, <1>2

\* The end of an operation.
LEMMA FinishRests ==
    ASSUME RestInv, TypeOK, InOperation, pc' = op.back,
           \A r \in Queues \ {op.queue} : Runnable(r)' => Runnable(r),
           Requesting => Requesting',
           \A r \in Queues : r = op.queue /\ Asleep /\ Runnable(r)' => Requesting'
    PROVE  RestInv'
<1>1. pc' \in {"task", "didRun", "sleep"}
  BY DEF TypeOK
<1>2. CASE pc' # "sleep"
  BY <1>1, <1>2, Busy
<1>3. CASE pc' = "sleep"
  <2>1. Asleep
    BY <1>3 DEF Asleep
  <2>2. \A r \in Queues \ {op.queue} : Runnable(r) => Requesting
    BY <2>1 DEF RestInv, WillRequest
  <2>3. \A r \in Queues : Runnable(r)' => Requesting'
    BY <2>1, <2>2
  <2> QED
    BY <1>3, <2>3 DEF RestInv
<1> QED
  BY <1>2, <1>3

\* What is left to do when the thread rests has been requested.
LEMMA RestKept ==
    TypeOK /\ TypeOK' /\ DrawnInv /\ PlaceInv /\ LifeInv /\ FlagInv /\
    ToldInv /\ HeapInv /\ FenceInv /\ RestInv /\ [Next]_vars => RestInv'
<1> SUFFICES ASSUME TypeOK, TypeOK', DrawnInv, PlaceInv, LifeInv, FlagInv,
      ToldInv, HeapInv, FenceInv, RestInv, [Next]_vars PROVE RestInv'
  OBVIOUS
<1> USE DEF shared, queueState, loopState, bounds, InClientCode, ClientMay,
    Spend
<1>1. ASSUME NEW p \in Posters, NEW q \in Queues, TryBeginOperation(p, q)
      PROVE RestInv'
  <2>1. UNCHANGED <<work, incoming, enabled, fence, life, reloading, pc, op>>
    BY <1>1 DEF TryBeginOperation
  <2>2. Requesting => Requesting'
    BY <1>1 DEF TryBeginOperation, Requesting, TypeOK, NoCall
  <2> QED
    BY <2>1, <2>2, NothingNew
<1>2. ASSUME NEW p \in Posters, NEW b \in BOOLEAN, PostImmediateTask(p, b)
      PROVE RestInv'
  <2> DEFINE q == call[p].queue
  <2>1. /\ q \in Queues /\ life[q] # "gone" /\ nextOrder \in Orders
    BY <1>2, NumbersSuffice DEF PostImmediateTask, PlaceInv, LifeInv, TypeOK
  <2>2. /\ PushTask(q, b)
        /\ UNCHANGED <<work, enabled, fence, life, reloading, pc, op>>
    BY <1>2 DEF PostImmediateTask
  <2>3. Requesting => Requesting'
    BY <1>2 DEF PostImmediateTask, Requesting, TypeOK
  <2>4. WasEmpty(q) /\ schedules[q] => Requesting'
    BY <1>2 DEF PostImmediateTask, Requesting, TypeOK
  <2> HIDE DEF q
  <2> QED
    BY <2>1, <2>2, <2>3, <2>4, PushRests
<1>3. ASSUME NEW p \in Posters, ScheduleWork(p) PROVE RestInv'
  <2>1. UNCHANGED <<work, incoming, enabled, fence, life, reloading, pc, op>>
    BY <1>3 DEF ScheduleWork
  <2>2. Requesting'
    BY <1>3 DEF ScheduleWork, Requesting
  <2> QED
    BY <2>1, <2>2, NothingNew
<1>4. ASSUME NEW q \in Queues, NEW b \in BOOLEAN, PostOnBoundThread(q, b)
      PROVE RestInv'
  <2>1. /\ PushTask(q, b) /\ life[q] # "gone" /\ nextOrder \in Orders
        /\ UNCHANGED <<work, enabled, fence, life, reloading, pc, op>>
    BY <1>4, NumbersSuffice DEF PostOnBoundThread
  <2>2. Requesting => Requesting'
    BY <1>4 DEF PostOnBoundThread, Requesting
  <2>3. WasEmpty(q) /\ schedules[q] => Requesting'
    BY <1>4 DEF PostOnBoundThread, Requesting
  <2> QED
    BY <2>1, <2>2, <2>3, PushRests
<1>5. ASSUME NEW q \in Queues, NEW f \in {nextOrder, BlockingFence},
      InsertFence(q, f) PROVE RestInv'
  <2>1. /\ pc \in {"task", "sleep"} /\ pc' = "fence" /\ op'.back = pc
        /\ op'.queue = q /\ op'.previous = fence[q]
        /\ op'.unblocked <=> /\ enabled[q] /\ work[q] # <<>>
                             /\ BlockedByFence(fence[q], work[q])
                             /\ ~BlockedByFence(f, work[q])
        /\ fence' = [fence EXCEPT ![q] = f]
        /\ UNCHANGED <<work, incoming, enabled, life, requested, call>>
    BY <1>5 DEF InsertFence
  <2>2. /\ fence'[q] = f /\ \A r \in Queues \ {q} : fence'[r] = fence[r]
        /\ \A r \in Queues : Pending(r)' = Pending(r)
    BY <2>1 DEF TypeOK, Pending
  <2>3. \A r \in Queues \ {q} : Runnable(r)' => Runnable(r)
    BY <2>1, <2>2, RunnableIs
  <2>4. Requesting => Requesting'
    BY <2>1 DEF Requesting
  <2>5. ASSUME pc = "sleep", Runnable(q)' PROVE Requesting' \/ WillRequest(q)'
    <3>1. CASE Runnable(q)
      BY <2>4, <2>5, <3>1 DEF RestInv, Asleep, WillRequest
    <3>2. CASE ~Runnable(q)
      <4>1. /\ enabled[q] /\ Pending(q) # <<>> /\ fence[q] # None
            /\ ~(Head(Pending(q)).order < fence[q])
            /\ f = None \/ Head(Pending(q)).order < f
        BY <2>1, <2>2, <2>5, <3>2, RunnableIs
      <4>2. /\ fence[q] \in Nat /\ fence'[q] \in Nat
            /\ Head(Pending(q)).order \in Nat
            /\ Head(Pending(q)).order # fence[q]
        <5>1. /\ Head(Pending(q)) = Pending(q)[1] /\ Pending(q) \in Seq(Tasks)
              /\ Head(Pending(q)) \in Tasks
          BY <4>1, FrontOfPending
        <5>2. 1 \in DOMAIN Pending(q)
          BY <4>1, <5>1, EmptySeq, LenProperties
        <5>3. fence[q] \in Nat /\ fence'[q] \in Nat
          <6>1. \A n \in Orders \cup {None, BlockingFence} : n \in Nat
            BY OrdersAreNumbers
          <6> QED
            BY <6>1 DEF TypeOK
        <5> QED
          BY <5>1, <5>2, <5>3, TasksNumbered DEF FenceInv, NotOf
      <4>3. CASE work[q] # <<>>
        <5>1. Head(Pending(q)) = Head(work[q])
          BY <4>3, Fronts
        <5>2. BlockedByFence(fence[q], work[q]) /\ ~BlockedByFence(f, work[q])
          BY <2>2, <4>1, <4>2, <4>3, <5>1 DEF BlockedByFence
        <5>3. op'.unblocked
          BY <2>1, <4>1, <4>3, <5>2
        <5> QED
          BY <2>1, <4>1, <5>3 DEF WillRequest
      <4>4. CASE work[q] = <<>>
        <5>1. Pending(q) = incoming[q]
          BY <4>4, Fronts
        <5>2. /\ incoming[q] # <<>> /\ Head(incoming[q]).order > fence[q]
              /\ f # None => Head(incoming[q]).order < f
          BY <4>1, <4>2, <5>1
        <5> QED
          BY <2>1, <2>2, <4>1, <5>2 DEF WillRequest, IncomingUnblocked
      <4> QED
        BY <4>3, <4>4
    <3> QED
      BY <3>1, <3>2
  <2> QED
    BY <2>1, <2>3, <2>4, <2>5, OperationRests
<1>6. ASSUME NEW q \in Queues, RemoveFence(q) PROVE RestInv'
  <2>1. /\ pc \in {"task", "sleep"} /\ pc' = pc
        /\ requested' = (requested \/ (enabled[q] /\
              (\/ /\ enabled[q] /\ work[q] # <<>>
                  /\ BlockedByFence(fence[q], work[q])
               \/ IncomingUnblocked(q, fence[q], None))))
        /\ fence' = [fence EXCEPT ![q] = None]
        /\ UNCHANGED <<work, incoming, enabled, life, call>>
    BY <1>6 DEF RemoveFence
  <2>2. /\ fence'[q] = None /\ \A r \in Queues \ {q} : fence'[r] = fence[r]
        /\ \A r \in Queues : Pending(r)' = Pending(r)
    BY <2>1 DEF TypeOK, Pending
  <2>3. \A r \in Queues \ {q} : Runnable(r)' => Runnable(r)
    BY <2>1, <2>2, RunnableIs
  <2>4. (Requesting => Requesting') /\ (requested' => Requesting')
    BY <2>1 DEF Requesting
  <2>5. ASSUME pc = "sleep", Runnable(q)' PROVE Requesting'
    <3>1. CASE Runnable(q)
      BY <2>4, <2>5, <3>1 DEF RestInv, Asleep, WillRequest
    <3>2. CASE ~Runnable(q)
      <4>1. /\ enabled[q] /\ Pending(q) # <<>> /\ fence[q] # None
            /\ ~(Head(Pending(q)).order < fence[q])
        BY <2>1, <2>2, <2>5, <3>2, RunnableIs
      <4>2. /\ fence[q] \in Nat /\ Head(Pending(q)).order \in Nat
            /\ Head(Pending(q)).order # fence[q]
        <5>1. /\ Head(Pending(q)) = Pending(q)[1] /\ Pending(q) \in Seq(Tasks)
              /\ Head(Pending(q)) \in Tasks
          BY <4>1, FrontOfPending
        <5>2. 1 \in DOMAIN Pending(q)
          BY <4>1, <5>1, EmptySeq, LenProperties
        <5> QED
          BY <5>1, <5>2, FencesAreNumbers, TasksNumbered DEF FenceInv, NotOf
      <4>3. CASE work[q] # <<>>
        <5>1. Head(Pending(q)) = Head(work[q])
          BY <4>3, Fronts
        <5>2. BlockedByFence(fence[q], work[q])
          BY <4>1, <4>2, <4>3, <5>1 DEF BlockedByFence
        <5> QED
          BY <2>1, <2>4, <4>1, <4>3, <5>2
      <4>4. CASE work[q] = <<>>
        <5>1. Pending(q) = incoming[q]
          BY <4>4, Fronts
        <5>2. IncomingUnblocked(q, fence[q], None)
          BY <4>1, <4>2, <5>1 DEF IncomingUnblocked
        <5> QED
          BY <2>1, <2>4, <4>1, <5>2
      <4> QED
        BY <4>3, <4>4
    <3> QED
      BY <3>1, <3>2
  <2> QED
    BY <2>1, <2>3, <2>4, <2>5, OperationRests
<1>7. ASSUME NEW q \in Queues, SetQueueEnabled(q) PROVE RestInv'
  <2>1. /\ pc \in {"task", "sleep"} /\ pc' = "enable" /\ op'.back = pc
        /\ op'.queue = q
        /\ enabled' = [enabled EXCEPT ![q] = ~enabled[q]]
        /\ UNCHANGED <<work, incoming, fence, life, requested, call>>
    BY <1>7 DEF SetQueueEnabled, NoOp
  <2>2. /\ \A r \in Queues \ {q} : enabled'[r] = enabled[r]
        /\ \A r \in Queues : Pending(r)' = Pending(r)
    BY <2>1 DEF TypeOK, Pending
  <2>3. \A r \in Queues \ {q} : Runnable(r)' => Runnable(r)
    BY <2>1, <2>2, RunnableIs
  <2>4. (Requesting => Requesting') /\ WillRequest(q)'
    BY <2>1 DEF Requesting, WillRequest
  <2> QED
    BY <2>1, <2>3, <2>4, OperationRests
<1>8. ASSUME NEW q \in Queues, ShutdownTaskQueue(q) PROVE RestInv'
  <2>1. /\ pc \in {"task", "sleep"} /\ pc' = "unregister" /\ op'.back = pc
        /\ life' = [life EXCEPT ![q] = "closing"]
        /\ UNCHANGED <<work, incoming, enabled, fence, requested, call>>
    BY <1>8 DEF ShutdownTaskQueue, BeginUnregister, NoOp
  <2>2. /\ life'[q] = "closing"
        /\ \A r \in Queues \ {q} : life'[r] = life[r]
        /\ \A r \in Queues : Pending(r)' = Pending(r)
    BY <2>1 DEF TypeOK, Pending
  <2>3. (\A r \in Queues \ {q} : Runnable(r)' => Runnable(r)) /\ ~Runnable(q)'
    BY <2>1, <2>2, RunnableIs
  <2>4. Requesting => Requesting'
    BY <2>1 DEF Requesting
  <2> QED
    BY <2>1, <2>3, <2>4, OperationRests
<1>9. ASSUME NEW q \in Queues, ShutdownTaskQueueGracefully(q) PROVE RestInv'
  <2>1. /\ pc \in {"task", "sleep"} /\ pc' = pc /\ life[q] = "registered"
        /\ life' = [life EXCEPT ![q] = "graceful"]
        /\ UNCHANGED <<work, incoming, enabled, fence, requested, call>>
    BY <1>9 DEF ShutdownTaskQueueGracefully
  <2>2. /\ \A r \in Queues \ {q} : life'[r] = life[r]
        /\ \A r \in Queues : Pending(r)' = Pending(r)
    BY <2>1 DEF TypeOK, Pending
  <2>3. \A r \in Queues : Runnable(r)' => Runnable(r)
    BY <2>1, <2>2, RunnableIs
  <2>4. Requesting => Requesting'
    BY <2>1 DEF Requesting
  <2>5. pc = "sleep" /\ Runnable(q)' => Requesting'
    BY <2>3, <2>4 DEF RestInv, Asleep, WillRequest
  <2> QED
    BY <2>1, <2>3, <2>4, <2>5, OperationRests
<1>10. ASSUME NEW q \in Queues, CancelTask(q) PROVE RestInv'
  <2>1. UNCHANGED <<work, incoming, enabled, fence, life, reloading, pc, op>>
    BY <1>10 DEF CancelTask
  <2>2. Requesting => Requesting'
    BY <1>10 DEF CancelTask, Requesting
  <2> QED
    BY <2>1, <2>2, NothingNew
<1>11. CASE BeginNestedRunLoop
  BY <1>11, Busy DEF BeginNestedRunLoop
<1>12. CASE ExitNestedRunLoop
  BY <1>12, Busy DEF ExitNestedRunLoop
<1>13. CASE BeginWork
  BY <1>13, Busy DEF BeginWork
<1>14. CASE SelectNextTask
  BY <1>14, Busy DEF SelectNextTask, RunActiveCallbacks
<1>15. CASE SelectNoTask
  BY <1>15, Busy DEF SelectNoTask, MainGoes
<1>16. CASE DidRunTask
  BY <1>16, Busy DEF DidRunTask, MainGoes
<1>17. CASE WillCheckForMoreWork
  BY <1>17, Busy DEF WillCheckForMoreWork
<1>18. CASE DelayTillNextTask
  <2>1. CASE HasWork /\ MainGoes("delay", "begin")
    BY <2>1, Busy DEF MainGoes
  <2>2. CASE ~HasWork /\ pc = "delay" /\ pc' = "delayed" /\ RunActiveCallbacks
    <3>1. /\ reloading' = reload /\ reloading = {}
          /\ UNCHANGED <<work, incoming, enabled, fence, life>>
      BY <2>2 DEF RunActiveCallbacks, PlaceInv
    <3>2. ASSUME NEW q \in Queues, q \notin reload, work[q] = <<>> PROVE ~Runnable(q)'
      <4>1. incoming[q] = <<>>
        BY <3>1, <3>2 DEF FlagInv
      <4>2. Pending(q)' = <<>>
        BY <3>1, <3>2, <4>1, Fronts
      <4> QED
        BY <4>2, RunnableIs
    <3>3. ~Asleep'
      BY <2>2 DEF Asleep, InOperation
    <3> QED
      BY <2>2, <3>1, <3>2, <3>3 DEF RestInv
  <2> QED
    BY <1>18, <2>1, <2>2 DEF DelayTillNextTask
<1>19. CASE DelayAfterReload
  <2>1. /\ reloading = {} /\ pc = "delayed"
        /\ UNCHANGED <<work, incoming, enabled, fence, life, requested, call>>
        /\ pc' = IF HasWork THEN "begin" ELSE "sleep"
    BY <1>19 DEF DelayAfterReload, MainGoes
  <2>2. CASE HasWork
    BY <2>1, <2>2, Busy
  <2>3. CASE ~HasWork
    <3>1. ASSUME NEW q \in Queues, Runnable(q)' PROVE Requesting'
      <4>1. Runnable(q) /\ (Requesting => Requesting')
        BY <2>1, <3>1 DEF Runnable, Pending, Requesting
      <4>2. CASE work[q] = <<>>
        BY <2>1, <4>1, <4>2 DEF RestInv
      <4>3. CASE work[q] # <<>>
        <5>1. FrontKey(fence[q], work[q]) # None
          BY <4>1, <4>3, FrontOfPending DEF Runnable
        <5>2. keys[q] # None
          BY <2>1, <4>1, <5>1 DEF HeapInv, SelectorExact, Runnable
        <5> QED
          BY <2>3, <5>2 DEF HasWork
      <4> QED
        BY <4>2, <4>3
    <3> QED
      BY <2>1, <2>3, <3>1 DEF RestInv
  <2> QED
    BY <2>2, <2>3
<1>20. CASE WaitReturns
  BY <1>20, Busy DEF WaitReturns, MainGoes
<1>21. ASSUME NEW q \in Queues, ReloadEmptyImmediateWorkQueue(q) PROVE
      RestInv'
  <2>1. /\ pc \in {"select", "delayed"} /\ pc' = pc /\ q \in reloading
        /\ reloading' = reloading \ {q} /\ TakeImmediateIncomingQueueTasks(q)
        /\ UNCHANGED <<enabled, fence, life, requested, call>>
    BY <1>21 DEF ReloadEmptyImmediateWorkQueue
  <2>2. work[q] = <<>> /\ incoming[q] # <<>>
    BY <2>1 DEF FlagInv
  <2>3. OthersKept(q) /\ work'[q] = incoming[q]
    BY <2>1, <2>2, ReloadKeeps
  <2>4. /\ \A r \in Queues \ {q} : Runnable(r)' <=> Runnable(r)
        /\ Requesting => Requesting'
    BY <2>1, <2>3 DEF Runnable, Pending, OthersKept, Requesting
  <2>5. ~Asleep'
    BY <2>1 DEF Asleep, InOperation
  <2>6. ASSUME pc = "delayed", NEW r \in Queues \ reloading', work'[r] = <<>>, Runnable(r)'
        PROVE  Requesting'
    <3>1. r # q /\ r \in Queues \ reloading
      BY <2>1, <2>2, <2>3, <2>6
    <3> QED
      BY <2>3, <2>4, <2>6, <3>1 DEF RestInv, OthersKept
  <2> QED
    BY <2>1, <2>5, <2>6 DEF RestInv
<1>22. ASSUME NEW q \in Queues, DropCanceledTasks(q) PROVE RestInv'
  BY <1>22, Busy DEF DropCanceledTasks, SelectWorkQueueToService
<1>23. ASSUME NEW q \in Queues, DeferTask(q) PROVE RestInv'
  BY <1>23, Busy DEF DeferTask, SelectWorkQueueToService
<1>24. ASSUME NEW q \in Queues, RunTask(q) PROVE RestInv'
  BY <1>24, Busy DEF RunTask, SelectWorkQueueToService
<1>25. CASE RequeueDeferredNonNestableTask
  BY <1>25, Busy DEF RequeueDeferredNonNestableTask
<1>26. CASE RequeueDone
  BY <1>26, Busy DEF RequeueDone, MainGoes
<1>27. CASE RequeueToUnregistered
  BY <1>27, Busy DEF RequeueToUnregistered, MainGoes
<1>28. CASE FinishInsertFence
  <2>1. /\ pc = "fence" /\ pc' = op.back
        /\ requested' = (requested \/ (enabled[op.queue] /\ (op.unblocked \/
                IncomingUnblocked(op.queue, op.previous, fence[op.queue]))))
        /\ UNCHANGED <<work, incoming, enabled, fence, life, call>>
    BY <1>28 DEF FinishInsertFence
  <2>2. \A r \in Queues : Runnable(r)' => Runnable(r)
    BY <2>1 DEF Runnable, Pending
  <2>3. (Requesting => Requesting') /\ (requested' => Requesting')
    BY <2>1 DEF Requesting
  <2>4. ASSUME NEW r \in Queues, r = op.queue, Asleep, Runnable(r)' PROVE Requesting'
    <3>1. Requesting \/ WillRequest(r)
      BY <2>2, <2>4 DEF RestInv
    <3>2. WillRequest(r) => requested'
      BY <2>1, <2>4 DEF WillRequest
    <3> QED
      BY <2>3, <3>1, <3>2
  <2> QED
    BY <2>1, <2>2, <2>3, <2>4, FinishRests DEF InOperation
<1>29. CASE FinishSetQueueEnabled
  <2>1. /\ pc = "enable" /\ pc' = op.back
        /\ requested' = (requested \/
                (/\ enabled[op.queue]
                 /\ work[op.queue] # <<>> \/ incoming[op.queue] # <<>>
                 /\ ~QueueBlockedByFence(op.queue)))
        /\ UNCHANGED <<work, incoming, enabled, fence, life, call>>
    BY <1>29 DEF FinishSetQueueEnabled
  <2>2. \A r \in Queues : Runnable(r)' => Runnable(r)
    BY <2>1 DEF Runnable, Pending
  <2>3. (Requesting => Requesting') /\ (requested' => Requesting')
    BY <2>1 DEF Requesting
  <2>4. ASSUME NEW r \in Queues, r = op.queue, Runnable(r) PROVE requested'
    <3>1. /\ enabled[r] /\ Pending(r) # <<>>
          /\ fence[r] = None \/ Head(Pending(r)).order < fence[r]
      BY <2>4, RunnableIs
    <3>2. work[r] # <<>> \/ incoming[r] # <<>>
      BY <3>1, Fronts
    <3>3. fence[r] \in Nat /\ Head(Pending(r)).order \in Nat
      BY <3>1, FrontOfPending, FencesAreNumbers, TasksNumbered
    <3>4. ~QueueBlockedByFence(r)
      <4>1. CASE work[r] # <<>>
        <5>1. Head(Pending(r)) = Head(work[r])
          BY <4>1, Fronts
        <5> QED
          BY <3>1, <3>3, <4>1, <5>1 DEF QueueBlockedByFence, BlockedByFence
      <4>2. CASE work[r] = <<>>
        <5>1. Pending(r) = incoming[r]
          BY <4>2, Fronts
        <5> QED
          BY <3>1, <3>3, <5>1 DEF QueueBlockedByFence
      <4> QED
        BY <4>1, <4>2
    <3> QED
      BY <2>1, <2>4, <3>1, <3>2, <3>4
  <2> QED
    BY <2>1, <2>2, <2>3, <2>4, FinishRests DEF InOperation
<1>30. CASE UnregisterTaskQueue
  <2>1. /\ pc = "unregister" /\ pc' = op.back /\ op.queue \in Queues
        /\ incoming' = [incoming EXCEPT ![op.queue] = <<>>]
        /\ work' = [work EXCEPT ![op.queue] = <<>>]
        /\ life' = [life EXCEPT ![op.queue] = "gone"]
        /\ UNCHANGED <<enabled, fence, requested, call>>
    BY <1>30 DEF UnregisterTaskQueue, PlaceInv, InOperation
  <2>2. /\ \A r \in Queues \ {op.queue} : Runnable(r)' => Runnable(r)
        /\ life'[op.queue] = "gone"
    BY <2>1 DEF Runnable, Pending, TypeOK
  <2>3. Requesting => Requesting'
    BY <2>1 DEF Requesting
  <2>4. \A r \in Queues : r = op.queue => ~Runnable(r)'
    BY <2>2 DEF Runnable
  <2> QED
    BY <2>1, <2>2, <2>3, <2>4, FinishRests DEF InOperation
<1>31. CASE CleanUpQueues
  <2>1. /\ pc' \notin {"delayed", "sleep"}
        /\ pc' \in {"fence", "enable", "unregister"} => op'.back # "sleep"
    BY <1>31 DEF CleanUpQueues, BeginUnregister, MainGoes, NoOp
  <2> QED
    BY <2>1, Busy
<1>32. CASE UNCHANGED vars
  <2>1. UNCHANGED <<work, incoming, enabled, fence, life, reloading, pc, op>>
    BY <1>32 DEF vars
  <2>2. Requesting => Requesting'
    BY <1>32 DEF vars, Requesting
  <2> QED
    BY <2>1, <2>2, NothingNew
<1> HIDE DEF shared, queueState, loopState, bounds, InClientCode, ClientMay,
    Spend
<1> QED
  BY <1>1, <1>2, <1>3, <1>4, <1>5, <1>6, <1>7, <1>8, <1>9, <1>10, <1>11,
     <1>12, <1>13, <1>14, <1>15, <1>16, <1>17, <1>18, <1>19, <1>20, <1>21,
     <1>22, <1>23, <1>24, <1>25, <1>26, <1>27, <1>28, <1>29, <1>30, <1>31,
     <1>32 DEF Next, CallStep, ClientStep, MainStep, Wake

-----------------------------------------------------------------------------
(* Everything together.                                                      *)

\* At first there is no task, no fence and no call.
LEMMA Initially == Init => ManagerInv
<1> SUFFICES ASSUME Init PROVE ManagerInv
  OBVIOUS
<1>1. FirstOrder \in Orders /\ 0 \in 0..MaxPosts /\ 0 \in 0..MaxOps
      /\ 0 \in 0..MaxDepth
  BY BoundsAssumption DEF Orders, FirstOrder
<1>2. /\ \A q \in Queues : work[q] = <<>> /\ incoming[q] = <<>>
      /\ \A q \in Queues : Pending(q) = <<>>
      /\ deferred = <<>> /\ DOMAIN deferred = {} /\ DOMAIN <<>> = {}
  <2>1. \A q \in Queues : work[q] = <<>> /\ incoming[q] = <<>>
    BY DEF Init
  <2>2. <<>> \in Seq(Tasks) /\ <<>> \o <<>> = <<>> /\ DOMAIN <<>> = {}
    BY EmptySeq, ConcatEmptySeq
  <2> QED
    BY <2>1, <2>2 DEF Init, Pending
<1>3. TypeOK
  <2>1. incoming \in [Queues -> Seq(Tasks)] /\ work \in [Queues -> Seq(Tasks)]
        /\ deferred \in Seq([task : Tasks, queue : Queues])
    BY DEF Init
  <2>2. call \in [Posters -> [queue : Queues \cup {NoQueue},
                              at : {"none", "push", "schedule"}]]
    BY DEF Init, NoCall
  <2>3. op \in [queue : Queues \cup {NoQueue}, unblocked : BOOLEAN,
                previous : Orders \cup {None, BlockingFence},
                back : {"task", "didRun", "sleep"}]
    BY DEF Init, NoOp
  <2> QED
    BY <1>1, <2>1, <2>2, <2>3 DEF Init, TypeOK, Lives, MainPCs, Orders
<1>4. DrawnInv
  <2>1. Pushers = {}
    BY DEF Init, Pushers, NoCall
  <2> QED
    BY <1>1, <2>1, FS_EmptySet DEF Init, DrawnInv, FirstOrder
<1>5. PlaceInv /\ LifeInv /\ FlagInv /\ ToldInv
  BY NoQueueAssumption DEF Init, PlaceInv, LifeInv, FlagInv, ToldInv,
     InOperation, NoOp, NoCall, KnownFence
<1>6. HeapInv
  BY <1>2 DEF Init, HeapInv, SelectorExact, FrontKey
<1>7. OrderInv /\ RanInv
  BY <1>2 DEF Init, OrderInv, RanInv, Ascending, None, FirstOrder
<1>8. FenceInv
  BY <1>2 DEF Init, FenceInv, NotOf, None, FirstOrder
<1>9. RestInv
  BY DEF Init, RestInv, Asleep, InOperation
<1> QED
  BY <1>3, <1>4, <1>5, <1>6, <1>7, <1>8, <1>9 DEF ManagerInv

LEMMA ManagerKept == ManagerInv /\ [Next]_vars => ManagerInv'
<1> SUFFICES ASSUME ManagerInv, [Next]_vars PROVE ManagerInv'
  OBVIOUS
<1>1. TypeOK' /\ DrawnInv' /\ PlaceInv'
  BY DrawnKept, TypeKept, PlaceKept DEF ManagerInv
<1>2. LifeInv' /\ FlagInv' /\ ToldInv' /\ HeapInv'
  BY LifeKept, FlagsKept, ToldKept, HeapKept DEF ManagerInv
<1>3. Moves
  BY StepsMoveTasks DEF ManagerInv
<1>4. OrderInv' /\ RanInv'
  BY <1>1, <1>3, OrderKept, RanKept DEF ManagerInv
<1>5. FenceInv'
  BY <1>1, <1>3, FenceKept DEF ManagerInv
<1>6. RestInv'
  BY <1>1, RestKept DEF ManagerInv
<1> QED
  BY <1>1, <1>2, <1>4, <1>5, <1>6 DEF ManagerInv

\* The invariant of the queues.
THEOREM ManagerInvariant == Spec => []ManagerInv
  BY Initially, ManagerKept, PTL DEF Spec

\* Every variable keeps its type; among others the numbers that are drawn
\* never run past the posts and operations that drew them.
THEOREM TypesHold == Spec => []TypeOK
<1>1. ManagerInv => TypeOK
  BY DEF ManagerInv
<1> QED
  BY ManagerInvariant, <1>1, PTL

\* Whatever fences, queues and tasks are changed while others post, each heap
\* key is the one that would be computed anew from the queue's tasks.
THEOREM HeapsAreExact == Spec => []SelectorExact
<1>1. ManagerInv => SelectorExact
  BY DEF ManagerInv, HeapInv
<1> QED
  BY ManagerInvariant, <1>1, PTL

\* Any number of threads post and any nesting requeues: tasks that came to an
\* empty queue are owed a reload, and a reload finds the work queue empty.
THEOREM ReloadsAreOwed == Spec => []ReloadIsOwed
<1>1. ManagerInv => ReloadIsOwed
  BY DEF ManagerInv, FlagInv, ReloadIsOwed
<1> QED
  BY ManagerInvariant, <1>1, PTL

\* The thread never sleeps on a task that may run without a request for work
\* made or about to be made, nor outside of nested loops on deferred tasks.
THEOREM NoTaskIsStranded == Spec => []NoStrandedTask
<1>1. ManagerInv => NoStrandedTask
  <2> SUFFICES ASSUME ManagerInv, pc = "sleep"
               PROVE  /\ depth = 0 => deferred = <<>>
                      /\ \A q \in Queues : Runnable(q) => Requesting
    BY DEF NoStrandedTask, Requesting
  <2>1. depth = 0 => deferred = <<>>
    BY DEF ManagerInv, PlaceInv, TypeOK
  <2>2. \A q \in Queues : ~WillRequest(q)
    BY DEF WillRequest
  <2> QED
    BY <2>1, <2>2 DEF ManagerInv, RestInv, Asleep
<1> QED
  BY ManagerInvariant, <1>1, PTL

\* However often tasks are deferred, requeued and canceled, a queue's nestable
\* tasks run in the order they were posted, and so do its others.
THEOREM OrderIsKept == Spec => InPostedOrder
<1>1. ManagerInv /\ [Next]_vars =>
        [\A q \in Queues : RunTask(q) =>
            Head(work[q]).order > ran[q][Head(work[q]).nestable]]_vars
  <2> SUFFICES ASSUME ManagerInv, NEW q \in Queues, RunTask(q)
               PROVE  Head(work[q]).order > ran[q][Head(work[q]).nestable]
    OBVIOUS
  <2>1. work[q] \in Seq(Tasks) /\ work[q] # <<>>
    BY SelectedHasTask DEF ManagerInv, HeapInv, RunTask
  <2>2. /\ Pending(q) \in Seq(Tasks) /\ Pending(q) # <<>>
        /\ Head(Pending(q)) = Head(work[q])
    BY <2>1, FrontOfPending DEF ManagerInv
  <2>3. 1 \in DOMAIN Pending(q) /\ Head(Pending(q)) = Pending(q)[1]
    BY <2>2
  <2>4. ran[q][Head(work[q]).nestable] < Head(work[q]).order
    BY <2>2, <2>3 DEF ManagerInv, RanInv
  <2>5. Head(work[q]).order \in Nat /\ ran[q][Head(work[q]).nestable] \in Nat
    <3>1. Head(work[q]) \in Tasks
      BY <2>1
    <3>2. ran[q][Head(work[q]).nestable] \in Orders \cup {None}
      BY <3>1 DEF ManagerInv, TypeOK, Tasks
    <3> QED
      BY <3>1, <3>2, OrdersAreNumbers DEF Tasks
  <2> QED
    BY <2>4, <2>5
<1> QED
  BY ManagerInvariant, <1>1, PTL DEF Spec, InPostedOrder

-----------------------------------------------------------------------------
(* The loop that calls the queues: the invariant of ThreadController.        *)

\* DoSomeWork has returned, and the loop has not started the next one.
BetweenWork == {"pump", "idle", "wait"}

SomeoneSignals == \E t \in Loop!Threads : loopCall[t] = "signal"

\* What the flags say of the place where the bound thread is.
LoopFlags ==
    /\ loopPc # "unbound" => "bound" \in flags
    /\ loopPc \in BetweenWork => "inDoWork" \notin flags

\* The loop goes to sleep only if no more work was found.
LoopRest == loopPc \in {"idle", "wait"} => ~immediate

\* A pending flag that is set after DidCheckForMoreWork was set by a thread
\* that saw the deduplicator idle and so signals the pump.
LoopPending ==
    (loopPc \in BetweenWork /\ ~immediate /\ "pending" \in flags)
        => event \/ SomeoneSignals

\* From the moment the loop found no work, whoever adds some leaves a trace:
\* a call under way, the pending flag or the event.
LoopWork ==
    (loopPc \in BetweenWork \cup {"did"} /\ ~immediate /\ ~quitPending
      /\ allowed /\ source > 0)
        => event \/ Loop!SomeoneCalls \/ "pending" \in flags

\* There are no more tasks than posts, and a loop that runs is on the stack.
LoopCounts ==
    /\ source <= postedTasks
    /\ loopPc \notin {"unbound", "bindSignal", "outside"} => nesting > 0

\* Outside of a task, quit_pending and keep_running_ are those of the innermost
\* loop; in a task they are too, though Run has reset quit_pending meanwhile.
LoopQuits ==
    /\ loopPc \notin {"unbound", "bindSignal", "outside"} =>
          /\ quitPending <=> nesting \in quits
          /\ nesting \in quits => nesting \in stopped
    /\ loopPc \in {"begin", "select", "willCheck", "delay", "idle", "wait"}
          => ~quitPending

LoopInv == Loop!TypeOK /\ LoopCounts /\ LoopQuits /\ LoopFlags /\ LoopRest
  /\ LoopPending /\ LoopWork

-----------------------------------------------------------------------------
(* The invariant is inductive.                                               *)

LEMMA LoopInitially == Loop!Init => LoopInv
<1>1. 0 \in 0..MaxTasks /\ 0 \in 0..MaxNesting /\ 0 \in 0..MaxRuns
  BY LoopBoundsAssumption
<1>2. Loop!Init => Loop!TypeOK
  BY <1>1 DEF Loop!Init, Loop!TypeOK, Loop!Unbound, Loop!Flags, Loop!CallPCs,
     Loop!MainPCs
<1>3. Loop!Init
    => LoopCounts /\ LoopQuits /\ LoopFlags /\ LoopRest /\ LoopPending
       /\ LoopWork
  BY DEF Loop!Init, LoopCounts, LoopQuits, LoopFlags, LoopRest, LoopPending,
     LoopWork, BetweenWork
<1> QED
  BY <1>2, <1>3 DEF LoopInv

LEMMA LoopTypeKept ==
    Loop!TypeOK /\ LoopCounts /\ [Loop!Next]_(Loop!vars)
        => (Loop!TypeOK /\ LoopCounts)'
<1> SUFFICES ASSUME Loop!TypeOK, LoopCounts, [Loop!Next]_(Loop!vars)
    PROVE  (Loop!TypeOK /\ LoopCounts)'
  OBVIOUS
<1> USE LoopBoundsAssumption, MainAssumption DEF Loop!loops, Loop!TypeOK,
    LoopCounts, Loop!Flags, Loop!CallPCs, Loop!MainPCs, Loop!MainAt,
    Loop!Calling, Loop!MayPost, Loop!Idle, Loop!DoWorkPending, Loop!InDoWork
<1>1. ASSUME NEW t \in Loop!Threads, Loop!PostTask(t)
      PROVE  (Loop!TypeOK /\ LoopCounts)'
  BY <1>1 DEF Loop!PostTask
<1>2. ASSUME NEW t \in Loop!Threads, Loop!EnsureWorkScheduled(t)
      PROVE  (Loop!TypeOK /\ LoopCounts)'
  BY <1>2 DEF Loop!EnsureWorkScheduled
<1>3. ASSUME NEW t \in Loop!Threads, Loop!ScheduleWork(t)
      PROVE  (Loop!TypeOK /\ LoopCounts)'
  BY <1>3 DEF Loop!ScheduleWork, Loop!OnWorkRequested, Loop!SchedulesOnRequest
<1>4. ASSUME NEW t \in Loop!Threads, Loop!PumpScheduleWork(t)
      PROVE  (Loop!TypeOK /\ LoopCounts)'
  BY <1>4 DEF Loop!PumpScheduleWork
<1>5. ASSUME NEW b \in BOOLEAN, Loop!Run(b) PROVE (Loop!TypeOK /\ LoopCounts)'
  <2> USE <1>5 DEF Loop!Run
  <2>1. nesting + 1 \in 0..MaxNesting /\ runs + 1 \in 0..MaxRuns
    /\ nesting + 1 > 0
    OBVIOUS
  <2>2. quits' \subseteq 1..nesting' /\ stopped' \subseteq quits'
    BY <2>1
  <2>3. allowed' \in BOOLEAN
    OBVIOUS
  <2>4. loopCall' \in [Loop!Threads -> Loop!CallPCs]
    BY DEF Loop!Threads
  <2>5. loopPc' \in Loop!MainPCs /\ quitPending' \in BOOLEAN
    OBVIOUS
  <2>6. UNCHANGED <<flags, event, source, immediate, postedTasks>>
    OBVIOUS
  <2> QED
    BY <2>1, <2>2, <2>3, <2>4, <2>5, <2>6
<1>6. ASSUME NEW loop \in 1..nesting, Loop!Quit(loop)
      PROVE  (Loop!TypeOK /\ LoopCounts)'
  BY <1>6 DEF Loop!Quit
<1>7. CASE Loop!Bind
  BY <1>7 DEF Loop!Bind, Loop!BindToCurrentThread
<1>8. CASE Loop!BindScheduleWork
  BY <1>8 DEF Loop!BindScheduleWork
<1>9. CASE Loop!QuitWhenIdle \/ Loop!RunReturns
  <2> USE <1>9 DEF Loop!QuitWhenIdle, Loop!RunReturns, Loop!LeaveRun
  <2>1. nesting > 0 /\ nesting - 1 \in 0..MaxNesting
    OBVIOUS
  <2>2. nesting # 1 => nesting - 1 > 0
    BY <2>1
  <2>3. loopPc' \in Loop!MainPCs /\ allowed' \in BOOLEAN
    OBVIOUS
  <2>4. nesting' \in 0..MaxNesting
    BY <2>1
  <2>5. stopped' \subseteq quits' /\ quits' \subseteq 1..nesting'
    <3>1. ASSUME NEW loop \in quits' PROVE loop \in 1..(nesting - 1)
      <4>1. loop \in 1..nesting /\ loop # nesting
        OBVIOUS
      <4> QED
        BY <2>1, <4>1
    <3>2. quits \cap {nesting - 1} \subseteq quits'
      BY <2>1
    <3> QED
      BY <2>1, <3>1, <3>2
  <2>6. quitPending' \in BOOLEAN
    <3> DEFINE outerQuit == nesting - 1 \in quits
    <3>1. quitPending' = outerQuit
      OBVIOUS
    <3>2. outerQuit \in BOOLEAN
      OBVIOUS
    <3> HIDE DEF outerQuit
    <3> QED
      BY <3>1, <3>2
  <2>7. LoopCounts'
    BY <2>1, <2>2
  <2>8. UNCHANGED <<flags, event, source, loopCall, immediate, postedTasks,
    runs>>
    OBVIOUS
  <2> QED
    BY <2>3, <2>4, <2>5, <2>6, <2>7, <2>8
<1>10. CASE Loop!PumpContinues
  BY <1>10 DEF Loop!PumpContinues
<1>11. CASE Loop!DoIdleWork
  BY <1>11 DEF Loop!DoIdleWork
<1>12. CASE Loop!WaitReturns
  BY <1>12 DEF Loop!WaitReturns
<1>13. CASE Loop!WorkStarted
  BY <1>13 DEF Loop!WorkStarted, Loop!OnWorkStarted
<1>14. CASE Loop!SelectNextTask
  <2> USE <1>14 DEF Loop!SelectNextTask
  <2>1. source - 1 \in 0..MaxTasks /\ source - 1 <= postedTasks
    OBVIOUS
  <2> QED
    BY <2>1
<1>15. CASE Loop!SelectNoTask
  BY <1>15 DEF Loop!SelectNoTask
<1>16. CASE Loop!TaskEnds
  BY <1>16 DEF Loop!TaskEnds
<1>17. CASE Loop!WillCheck
  BY <1>17 DEF Loop!WillCheck, Loop!WillCheckForMoreWork
<1>18. CASE Loop!DelayTillNextTask
  BY <1>18 DEF Loop!DelayTillNextTask
<1>19. CASE Loop!DidCheck
  BY <1>19 DEF Loop!DidCheck, Loop!DidCheckForMoreWork, Loop!SchedulesOnDidCheck
<1>20. CASE UNCHANGED Loop!vars
  BY <1>20 DEF Loop!vars
<1> HIDE DEF Loop!loops, Loop!TypeOK, LoopCounts, Loop!Flags, Loop!CallPCs,
    Loop!MainPCs, Loop!MainAt, Loop!Calling, Loop!MayPost, Loop!Idle,
    Loop!DoWorkPending, Loop!InDoWork
<1> QED
  BY <1>1, <1>2, <1>3, <1>4, <1>5, <1>6, <1>7, <1>8, <1>9, <1>10, <1>11,
     <1>12, <1>13, <1>14, <1>15, <1>16, <1>17, <1>18, <1>19,
     <1>20 DEF Loop!Next, Loop!CallStep, Loop!MainStep

\* The quit of an outer loop waits for the inner ones to be left.
LEMMA LoopQuitKept ==
    Loop!TypeOK /\ LoopCounts /\ LoopQuits /\ [Loop!Next]_(Loop!vars)
        => LoopQuits'
<1> SUFFICES ASSUME Loop!TypeOK, LoopCounts, LoopQuits, [Loop!Next]_(Loop!vars)
    PROVE  LoopQuits'
  OBVIOUS
<1> USE LoopBoundsAssumption, MainAssumption DEF LoopQuits, Loop!loops,
    Loop!TypeOK, LoopCounts, Loop!Flags, Loop!CallPCs, Loop!MainPCs,
    Loop!MainAt, Loop!Calling, Loop!MayPost, Loop!Idle, Loop!DoWorkPending,
    Loop!InDoWork
<1>1. ASSUME NEW t \in Loop!Threads, Loop!PostTask(t) PROVE LoopQuits'
  BY <1>1 DEF Loop!PostTask
<1>2. ASSUME NEW t \in Loop!Threads, Loop!EnsureWorkScheduled(t)
      PROVE  LoopQuits'
  BY <1>2 DEF Loop!EnsureWorkScheduled
<1>3. ASSUME NEW t \in Loop!Threads, Loop!ScheduleWork(t) PROVE LoopQuits'
  BY <1>3 DEF Loop!ScheduleWork, Loop!OnWorkRequested, Loop!SchedulesOnRequest
<1>4. ASSUME NEW t \in Loop!Threads, Loop!PumpScheduleWork(t) PROVE LoopQuits'
  BY <1>4 DEF Loop!PumpScheduleWork
<1>5. ASSUME NEW b \in BOOLEAN, Loop!Run(b) PROVE LoopQuits'
  BY <1>5 DEF Loop!Run
<1>6. ASSUME NEW loop \in 1..nesting, Loop!Quit(loop) PROVE LoopQuits'
  <2> USE <1>6 DEF Loop!Quit
  <2>1. CASE loop = nesting
    BY <2>1
  <2>2. CASE loop # nesting
    BY <2>2
  <2> QED
    BY <2>1, <2>2
<1>7. CASE Loop!Bind
  BY <1>7 DEF Loop!Bind, Loop!BindToCurrentThread
<1>8. CASE Loop!BindScheduleWork
  BY <1>8 DEF Loop!BindScheduleWork
<1>9. CASE Loop!QuitWhenIdle \/ Loop!RunReturns
  <2> USE <1>9 DEF Loop!QuitWhenIdle, Loop!RunReturns, Loop!LeaveRun
  <2>1. nesting - 1 # nesting /\ nesting' = nesting - 1
    /\ loopPc' \in {"outside", "task"}
    OBVIOUS
  <2>2. nesting' \in quits' <=> nesting' \in quits
    BY <2>1
  <2>3. nesting' \in quits => nesting' \in stopped'
    BY <2>1
  <2>4. quitPending' <=> nesting' \in quits
    BY <2>1
  <2> QED
    BY <2>1, <2>2, <2>3, <2>4
<1>10. CASE Loop!PumpContinues
  BY <1>10 DEF Loop!PumpContinues
<1>11. CASE Loop!DoIdleWork
  BY <1>11 DEF Loop!DoIdleWork
<1>12. CASE Loop!WaitReturns
  BY <1>12 DEF Loop!WaitReturns
<1>13. CASE Loop!WorkStarted
  BY <1>13 DEF Loop!WorkStarted, Loop!OnWorkStarted
<1>14. CASE Loop!SelectNextTask
  BY <1>14 DEF Loop!SelectNextTask
<1>15. CASE Loop!SelectNoTask
  BY <1>15 DEF Loop!SelectNoTask
<1>16. CASE Loop!TaskEnds
  BY <1>16 DEF Loop!TaskEnds
<1>17. CASE Loop!WillCheck
  BY <1>17 DEF Loop!WillCheck, Loop!WillCheckForMoreWork
<1>18. CASE Loop!DelayTillNextTask
  BY <1>18 DEF Loop!DelayTillNextTask
<1>19. CASE Loop!DidCheck
  BY <1>19 DEF Loop!DidCheck, Loop!DidCheckForMoreWork, Loop!SchedulesOnDidCheck
<1>20. CASE UNCHANGED Loop!vars
  BY <1>20 DEF Loop!vars
<1> HIDE DEF LoopQuits, Loop!loops, Loop!TypeOK, LoopCounts, Loop!Flags,
    Loop!CallPCs, Loop!MainPCs, Loop!MainAt, Loop!Calling, Loop!MayPost,
    Loop!Idle, Loop!DoWorkPending, Loop!InDoWork
<1> QED
  BY <1>1, <1>2, <1>3, <1>4, <1>5, <1>6, <1>7, <1>8, <1>9, <1>10, <1>11,
     <1>12, <1>13, <1>14, <1>15, <1>16, <1>17, <1>18, <1>19,
     <1>20 DEF Loop!Next, Loop!CallStep, Loop!MainStep

\* Only the bound thread sets the flag that marks its DoWork.
LEMMA LoopFlagsKept ==
    Loop!TypeOK /\ LoopCounts /\ LoopQuits /\ LoopFlags /\ LoopRest
      /\ [Loop!Next]_(Loop!vars)
        => (LoopFlags /\ LoopRest)'
<1> SUFFICES ASSUME Loop!TypeOK, LoopCounts, LoopQuits, LoopFlags, LoopRest,
  [Loop!Next]_(Loop!vars)
      PROVE  (LoopFlags /\ LoopRest)'
  OBVIOUS
<1> USE LoopBoundsAssumption, MainAssumption DEF LoopFlags, LoopRest,
    BetweenWork, LoopQuits, Loop!loops, Loop!TypeOK, LoopCounts, Loop!Flags,
    Loop!CallPCs, Loop!MainPCs, Loop!MainAt, Loop!Calling, Loop!MayPost,
    Loop!Idle, Loop!DoWorkPending, Loop!InDoWork
<1>1. ASSUME NEW t \in Loop!Threads, Loop!PostTask(t)
      PROVE  (LoopFlags /\ LoopRest)'
  BY <1>1 DEF Loop!PostTask
<1>2. ASSUME NEW t \in Loop!Threads, Loop!EnsureWorkScheduled(t)
      PROVE  (LoopFlags /\ LoopRest)'
  BY <1>2 DEF Loop!EnsureWorkScheduled
<1>3. ASSUME NEW t \in Loop!Threads, Loop!ScheduleWork(t)
      PROVE  (LoopFlags /\ LoopRest)'
  BY <1>3 DEF Loop!ScheduleWork, Loop!OnWorkRequested, Loop!SchedulesOnRequest
<1>4. ASSUME NEW t \in Loop!Threads, Loop!PumpScheduleWork(t)
      PROVE  (LoopFlags /\ LoopRest)'
  BY <1>4 DEF Loop!PumpScheduleWork
<1>5. ASSUME NEW b \in BOOLEAN, Loop!Run(b) PROVE (LoopFlags /\ LoopRest)'
  BY <1>5 DEF Loop!Run
<1>6. ASSUME NEW loop \in 1..nesting, Loop!Quit(loop)
      PROVE  (LoopFlags /\ LoopRest)'
  BY <1>6 DEF Loop!Quit
<1>7. CASE Loop!Bind
  BY <1>7 DEF Loop!Bind, Loop!BindToCurrentThread
<1>8. CASE Loop!BindScheduleWork
  BY <1>8 DEF Loop!BindScheduleWork
<1>9. CASE Loop!QuitWhenIdle \/ Loop!RunReturns
  BY <1>9 DEF Loop!QuitWhenIdle, Loop!RunReturns, Loop!LeaveRun
<1>10. CASE Loop!PumpContinues
  BY <1>10 DEF Loop!PumpContinues
<1>11. CASE Loop!DoIdleWork
  BY <1>11 DEF Loop!DoIdleWork
<1>12. CASE Loop!WaitReturns
  BY <1>12 DEF Loop!WaitReturns
<1>13. CASE Loop!WorkStarted
  BY <1>13 DEF Loop!WorkStarted, Loop!OnWorkStarted
<1>14. CASE Loop!SelectNextTask
  BY <1>14 DEF Loop!SelectNextTask
<1>15. CASE Loop!SelectNoTask
  BY <1>15 DEF Loop!SelectNoTask
<1>16. CASE Loop!TaskEnds
  BY <1>16 DEF Loop!TaskEnds
<1>17. CASE Loop!WillCheck
  BY <1>17 DEF Loop!WillCheck, Loop!WillCheckForMoreWork
<1>18. CASE Loop!DelayTillNextTask
  BY <1>18 DEF Loop!DelayTillNextTask
<1>19. CASE Loop!DidCheck
  BY <1>19 DEF Loop!DidCheck, Loop!DidCheckForMoreWork, Loop!SchedulesOnDidCheck
<1>20. CASE UNCHANGED Loop!vars
  BY <1>20 DEF Loop!vars
<1> HIDE DEF LoopFlags, LoopRest, BetweenWork, LoopQuits, Loop!loops,
    Loop!TypeOK, LoopCounts, Loop!Flags, Loop!CallPCs, Loop!MainPCs,
    Loop!MainAt, Loop!Calling, Loop!MayPost, Loop!Idle, Loop!DoWorkPending,
    Loop!InDoWork
<1> QED
  BY <1>1, <1>2, <1>3, <1>4, <1>5, <1>6, <1>7, <1>8, <1>9, <1>10, <1>11,
     <1>12, <1>13, <1>14, <1>15, <1>16, <1>17, <1>18, <1>19,
     <1>20 DEF Loop!Next, Loop!CallStep, Loop!MainStep

\* A request that found the deduplicator idle leads to a signal.
LEMMA LoopPendingKept ==
    Loop!TypeOK /\ LoopFlags /\ LoopPending /\ [Loop!Next]_(Loop!vars)
        => LoopPending'
<1> SUFFICES ASSUME Loop!TypeOK, LoopFlags, LoopPending, [Loop!Next]_(Loop!vars)
    PROVE  LoopPending'
  OBVIOUS
<1> USE LoopBoundsAssumption, MainAssumption DEF LoopPending, LoopFlags,
    SomeoneSignals, BetweenWork, Loop!loops, Loop!TypeOK, LoopCounts,
    Loop!Flags, Loop!CallPCs, Loop!MainPCs, Loop!MainAt, Loop!Calling,
    Loop!MayPost, Loop!Idle, Loop!DoWorkPending, Loop!InDoWork, Loop!Threads
<1>1. ASSUME NEW t \in Loop!Threads, Loop!PostTask(t) PROVE LoopPending'
  BY <1>1 DEF Loop!PostTask
<1>2. ASSUME NEW t \in Loop!Threads, Loop!EnsureWorkScheduled(t)
      PROVE  LoopPending'
  BY <1>2 DEF Loop!EnsureWorkScheduled
<1>3. ASSUME NEW t \in Loop!Threads, Loop!ScheduleWork(t) PROVE LoopPending'
    <2> USE <1>3 DEF Loop!ScheduleWork, Loop!OnWorkRequested,
      Loop!SchedulesOnRequest
  <2>1. CASE flags = Loop!Idle
    <3>1. loopCall'[t] = "signal"
      BY <2>1
    <3> QED
      BY <3>1
  <2>2. CASE flags # Loop!Idle
    <3>1. loopPc \in BetweenWork => "pending" \in flags
      BY <2>2
    <3>2. SomeoneSignals => SomeoneSignals'
      OBVIOUS
    <3> QED
      BY <3>1, <3>2
  <2> QED
    BY <2>1, <2>2
<1>4. ASSUME NEW t \in Loop!Threads, Loop!PumpScheduleWork(t) PROVE LoopPending'
  BY <1>4 DEF Loop!PumpScheduleWork
<1>5. ASSUME NEW b \in BOOLEAN, Loop!Run(b) PROVE LoopPending'
  BY <1>5 DEF Loop!Run
<1>6. ASSUME NEW loop \in 1..nesting, Loop!Quit(loop) PROVE LoopPending'
  BY <1>6 DEF Loop!Quit
<1>7. CASE Loop!Bind
  BY <1>7 DEF Loop!Bind, Loop!BindToCurrentThread
<1>8. CASE Loop!BindScheduleWork
  BY <1>8 DEF Loop!BindScheduleWork
<1>9. CASE Loop!QuitWhenIdle \/ Loop!RunReturns
  BY <1>9 DEF Loop!QuitWhenIdle, Loop!RunReturns, Loop!LeaveRun
<1>10. CASE Loop!PumpContinues
  BY <1>10 DEF Loop!PumpContinues
<1>11. CASE Loop!DoIdleWork
  BY <1>11 DEF Loop!DoIdleWork
<1>12. CASE Loop!WaitReturns
  BY <1>12 DEF Loop!WaitReturns
<1>13. CASE Loop!WorkStarted
  BY <1>13 DEF Loop!WorkStarted, Loop!OnWorkStarted
<1>14. CASE Loop!SelectNextTask
  BY <1>14 DEF Loop!SelectNextTask
<1>15. CASE Loop!SelectNoTask
  BY <1>15 DEF Loop!SelectNoTask
<1>16. CASE Loop!TaskEnds
  BY <1>16 DEF Loop!TaskEnds
<1>17. CASE Loop!WillCheck
  BY <1>17 DEF Loop!WillCheck, Loop!WillCheckForMoreWork
<1>18. CASE Loop!DelayTillNextTask
  BY <1>18 DEF Loop!DelayTillNextTask
<1>19. CASE Loop!DidCheck
  BY <1>19 DEF Loop!DidCheck, Loop!DidCheckForMoreWork, Loop!SchedulesOnDidCheck
<1>20. CASE UNCHANGED Loop!vars
  BY <1>20 DEF Loop!vars
<1> HIDE DEF LoopPending, LoopFlags, SomeoneSignals, BetweenWork, Loop!loops,
    Loop!TypeOK, LoopCounts, Loop!Flags, Loop!CallPCs, Loop!MainPCs,
    Loop!MainAt, Loop!Calling, Loop!MayPost, Loop!Idle, Loop!DoWorkPending,
    Loop!InDoWork, Loop!Threads
<1> QED
  BY <1>1, <1>2, <1>3, <1>4, <1>5, <1>6, <1>7, <1>8, <1>9, <1>10, <1>11,
     <1>12, <1>13, <1>14, <1>15, <1>16, <1>17, <1>18, <1>19,
     <1>20 DEF Loop!Next, Loop!CallStep, Loop!MainStep

\* Work added after the last look at the task source leaves a trace.
LEMMA LoopWorkKept ==
    Loop!TypeOK /\ LoopFlags /\ LoopWork /\ [Loop!Next]_(Loop!vars) => LoopWork'
<1> SUFFICES ASSUME Loop!TypeOK, LoopFlags, LoopWork, [Loop!Next]_(Loop!vars)
    PROVE  LoopWork'
  OBVIOUS
<1> USE LoopBoundsAssumption, MainAssumption DEF LoopWork, Loop!SomeoneCalls,
    BetweenWork, Loop!loops, Loop!TypeOK, LoopCounts, Loop!Flags,
    Loop!CallPCs, Loop!MainPCs, Loop!MainAt, Loop!Calling, Loop!MayPost,
    Loop!Idle, Loop!DoWorkPending, Loop!InDoWork, Loop!Threads
<1>1. ASSUME NEW t \in Loop!Threads, Loop!PostTask(t) PROVE LoopWork'
  BY <1>1 DEF Loop!PostTask
<1>2. ASSUME NEW t \in Loop!Threads, Loop!EnsureWorkScheduled(t) PROVE LoopWork'
  BY <1>2 DEF Loop!EnsureWorkScheduled
<1>3. ASSUME NEW t \in Loop!Threads, Loop!ScheduleWork(t) PROVE LoopWork'
  BY <1>3 DEF Loop!ScheduleWork, Loop!OnWorkRequested, Loop!SchedulesOnRequest
<1>4. ASSUME NEW t \in Loop!Threads, Loop!PumpScheduleWork(t) PROVE LoopWork'
  BY <1>4 DEF Loop!PumpScheduleWork
<1>5. ASSUME NEW b \in BOOLEAN, Loop!Run(b) PROVE LoopWork'
  BY <1>5 DEF Loop!Run
<1>6. ASSUME NEW loop \in 1..nesting, Loop!Quit(loop) PROVE LoopWork'
  BY <1>6 DEF Loop!Quit
<1>7. CASE Loop!Bind
  BY <1>7 DEF Loop!Bind, Loop!BindToCurrentThread
<1>8. CASE Loop!BindScheduleWork
  BY <1>8 DEF Loop!BindScheduleWork
<1>9. CASE Loop!QuitWhenIdle \/ Loop!RunReturns
  BY <1>9 DEF Loop!QuitWhenIdle, Loop!RunReturns, Loop!LeaveRun
<1>10. CASE Loop!PumpContinues
  BY <1>10 DEF Loop!PumpContinues
<1>11. CASE Loop!DoIdleWork
  BY <1>11 DEF Loop!DoIdleWork
<1>12. CASE Loop!WaitReturns
  BY <1>12 DEF Loop!WaitReturns
<1>13. CASE Loop!WorkStarted
  BY <1>13 DEF Loop!WorkStarted, Loop!OnWorkStarted
<1>14. CASE Loop!SelectNextTask
  BY <1>14 DEF Loop!SelectNextTask
<1>15. CASE Loop!SelectNoTask
  BY <1>15 DEF Loop!SelectNoTask
<1>16. CASE Loop!TaskEnds
  BY <1>16 DEF Loop!TaskEnds
<1>17. CASE Loop!WillCheck
  BY <1>17 DEF Loop!WillCheck, Loop!WillCheckForMoreWork
<1>18. CASE Loop!DelayTillNextTask
  BY <1>18 DEF Loop!DelayTillNextTask
<1>19. CASE Loop!DidCheck
  BY <1>19 DEF Loop!DidCheck, Loop!DidCheckForMoreWork, Loop!SchedulesOnDidCheck
<1>20. CASE UNCHANGED Loop!vars
  BY <1>20 DEF Loop!vars
<1> HIDE DEF LoopWork, Loop!SomeoneCalls, BetweenWork, Loop!loops,
    Loop!TypeOK, LoopCounts, Loop!Flags, Loop!CallPCs, Loop!MainPCs,
    Loop!MainAt, Loop!Calling, Loop!MayPost, Loop!Idle, Loop!DoWorkPending,
    Loop!InDoWork, Loop!Threads
<1> QED
  BY <1>1, <1>2, <1>3, <1>4, <1>5, <1>6, <1>7, <1>8, <1>9, <1>10, <1>11,
     <1>12, <1>13, <1>14, <1>15, <1>16, <1>17, <1>18, <1>19,
     <1>20 DEF Loop!Next, Loop!CallStep, Loop!MainStep

\* The loop's invariant.
THEOREM LoopInvariant == Loop!Spec => []LoopInv
<1>1. LoopInv /\ [Loop!Next]_(Loop!vars) => LoopInv'
  BY LoopTypeKept, LoopQuitKept, LoopFlagsKept, LoopPendingKept,
     LoopWorkKept DEF LoopInv
<1> QED
  BY LoopInitially, <1>1, PTL DEF Loop!Spec

\* Every variable of the loop keeps its type: among others no loop is left
\* twice.
THEOREM LoopTypesHold == Loop!Spec => []Loop!TypeOK
<1>1. LoopInv => Loop!TypeOK
  BY DEF LoopInv
<1> QED
  BY LoopInvariant, <1>1, PTL

\* Wherever threads post and the loop is nested or quit, the bound thread does
\* not sleep on work that it may run without a signal set or owed.
THEOREM NeverStranded == Loop!Spec => []NoStrandedWork
<1>1. LoopInv => NoStrandedWork
  BY DEF LoopInv, LoopRest, LoopQuits, LoopPending, LoopWork, BetweenWork,
     SomeoneSignals, NoStrandedWork, Loop!NoStrandedWork, Loop!SomeoneCalls
<1> QED
  BY LoopInvariant, <1>1, PTL

\* At any depth, a run loop that was quit takes no further task.
THEOREM QuitEndsBatch == Loop!Spec => []QuitHeeded
<1>1. LoopInv => QuitHeeded
  BY DEF LoopInv, LoopQuits, QuitHeeded, Loop!QuitHeeded
<1> QED
  BY LoopInvariant, <1>1, PTL

-----------------------------------------------------------------------------
(* The loop and the queues keep to WorkRequests.                             *)

LEMMA LoopStepRefines ==
    Loop!TypeOK /\ [Loop!Next]_(Loop!vars) => [Requests!Next]_(Requests!vars)
<1> SUFFICES ASSUME Loop!TypeOK, [Loop!Next]_(Loop!vars)
             PROVE  [Requests!Next]_(Requests!vars)
  OBVIOUS
<1> USE DEF Requests!vars, Requests!Next, LoopPlace, Loop!loops, Loop!MainAt,
    Loop!Calling, Loop!Idle, Loop!DoWorkPending, Loop!InDoWork
<1>1. ASSUME NEW t \in Loop!Threads, Loop!PostTask(t)
      PROVE  [Requests!Next]_(Requests!vars)
  BY <1>1 DEF Loop!PostTask
<1>2. ASSUME NEW t \in Loop!Threads, Loop!EnsureWorkScheduled(t)
      PROVE  [Requests!Next]_(Requests!vars)
  BY <1>2 DEF Loop!EnsureWorkScheduled
<1>3. ASSUME NEW t \in Loop!Threads, Loop!ScheduleWork(t)
      PROVE  [Requests!Next]_(Requests!vars)
  BY <1>3 DEF Loop!ScheduleWork, Loop!OnWorkRequested, Requests!Request
<1>4. ASSUME NEW t \in Loop!Threads, Loop!PumpScheduleWork(t)
      PROVE  [Requests!Next]_(Requests!vars)
  BY <1>4 DEF Loop!PumpScheduleWork
<1>5. ASSUME NEW b \in BOOLEAN, Loop!Run(b)
      PROVE  [Requests!Next]_(Requests!vars)
  BY <1>5 DEF Loop!Run
<1>6. ASSUME NEW loop \in 1..nesting, Loop!Quit(loop)
      PROVE  [Requests!Next]_(Requests!vars)
  BY <1>6 DEF Loop!Quit
<1>7. CASE Loop!Bind
  BY <1>7 DEF Loop!Bind, Loop!BindToCurrentThread
<1>8. CASE Loop!BindScheduleWork
  BY <1>8 DEF Loop!BindScheduleWork
<1>9. CASE Loop!QuitWhenIdle \/ Loop!RunReturns
  BY <1>9 DEF Loop!QuitWhenIdle, Loop!RunReturns, Loop!LeaveRun,
     Requests!Resume
<1>10. CASE Loop!PumpContinues
  BY <1>10 DEF Loop!PumpContinues
<1>11. CASE Loop!DoIdleWork
  BY <1>11 DEF Loop!DoIdleWork
<1>12. CASE Loop!WaitReturns
  BY <1>12 DEF Loop!WaitReturns, Requests!Resume
<1>13. CASE Loop!WorkStarted
  BY <1>13 DEF Loop!WorkStarted, Loop!OnWorkStarted, Requests!StartWork
<1>14. CASE Loop!SelectNextTask
  BY <1>14 DEF Loop!SelectNextTask
<1>15. CASE Loop!SelectNoTask
  BY <1>15 DEF Loop!SelectNoTask
<1>16. CASE Loop!TaskEnds
  BY <1>16 DEF Loop!TaskEnds
<1>17. CASE Loop!WillCheck
  BY <1>17 DEF Loop!WillCheck, Loop!WillCheckForMoreWork, Requests!LookAgain,
     Requests!StartWork
<1>18. CASE Loop!DelayTillNextTask
  BY <1>18 DEF Loop!DelayTillNextTask
<1>19. CASE Loop!DidCheck
  <2>1. /\ loopPc = "did" /\ loopPc' = "pump"
        /\ UNCHANGED <<allowed, quitPending>>
        /\ immediate' = (immediate \/ "pending" \in flags)
    BY <1>19 DEF Loop!DidCheck, Loop!SchedulesOnDidCheck
  <2>2. \/ "pending" \in flags'
        \/ "pending" \notin flags /\ "pending" \notin flags' /\ ~immediate
    BY <1>19 DEF Loop!DidCheck, Loop!DidCheckForMoreWork
  <2>3. CASE ~allowed \/ quitPending
    <3>1. LoopPlace' = LoopPlace
      BY <2>1, <2>3
    <3> QED
      BY <2>2, <3>1 DEF Requests!Request
  <2>4. CASE ~(~allowed \/ quitPending)
    <3>1. LoopPlace = "looking"
          /\ LoopPlace' = IF immediate' THEN "working" ELSE "asleep"
      BY <2>1, <2>4
    <3>2. CASE immediate'
      <4>1. "pending" \in flags'
        BY <2>1, <2>2, <3>2
      <4>2. LoopPlace' = "working"
        BY <3>1, <3>2
      <4>3. Requests!Resume
        BY <3>1, <4>1, <4>2 DEF Requests!Resume
      <4> QED
        BY <4>3
    <3>3. CASE ~immediate'
      <4>1. "pending" \notin flags /\ "pending" \notin flags'
        BY <1>19, <2>1, <3>3 DEF Loop!DidCheck, Loop!DidCheckForMoreWork
      <4>2. Requests!Sleep
        BY <3>1, <3>3, <4>1 DEF Requests!Sleep
      <4> QED
        BY <4>2
    <3> QED
      BY <3>2, <3>3
  <2> QED
    BY <2>3, <2>4
<1>20. CASE UNCHANGED Loop!vars
  BY <1>20 DEF Loop!vars
<1> HIDE DEF Requests!vars, Requests!Next, LoopPlace, Loop!loops, Loop!MainAt,
    Loop!Calling, Loop!Idle, Loop!DoWorkPending, Loop!InDoWork
<1> QED
  BY <1>1, <1>2, <1>3, <1>4, <1>5, <1>6, <1>7, <1>8, <1>9, <1>10, <1>11,
     <1>12, <1>13, <1>14, <1>15, <1>16, <1>17, <1>18, <1>19, <1>20
     DEF Loop!Next, Loop!CallStep, Loop!MainStep

\* The deduplicator's pending flag is a request in the sense of WorkRequests,
\* which SequenceManager keeps as its flag `requested'.
THEOREM LoopKeepsRequests == Loop!Spec => KeepsRequests
<1>1. Loop!Init => Requests!Init
  BY DEF Loop!Init, Loop!Unbound, Requests!Init, LoopPlace
<1>2. LoopInv => Loop!TypeOK
  BY DEF LoopInv
<1> QED
  BY <1>1, <1>2, LoopStepRefines, LoopInvariant, PTL
  DEF Loop!Spec, KeepsRequests, Requests!Spec

\* A request for work wakes the thread, whoever made it and whatever loops are
\* nested: while it sleeps, the event is signaled or about to be.
THEOREM RequestsWake ==
    Loop!Spec =>
        [](loopPc = "wait" /\ "pending" \in flags => event \/ SomeoneSignals)
<1>1. LoopInv =>
        (loopPc = "wait" /\ "pending" \in flags => event \/ SomeoneSignals)
  BY DEF LoopInv, LoopRest, LoopPending, BetweenWork
<1> QED
  BY LoopInvariant, <1>1, PTL

\* Where the bound thread is, as SequenceManager has it: client code that runs
\* in its sleep does not put it to work.
QueuePlace ==
    IF pc \in {"delay", "delayed"} THEN "looking"
    ELSE IF Asleep THEN "asleep" ELSE "working"

QueueRequests == INSTANCE WorkRequests WITH place <- QueuePlace

\* A step that leaves the thread in its place makes a request or none.
LEMMA StaysThere ==
    ASSUME QueuePlace' = QueuePlace, requested' = requested \/ requested' = TRUE
    PROVE  [QueueRequests!Next]_(QueueRequests!vars)
  BY DEF QueueRequests!vars, QueueRequests!Next, QueueRequests!Request

LEMMA NobodyMoves ==
    ASSUME UNCHANGED <<pc, op>>, requested' = requested \/ requested' = TRUE
    PROVE  [QueueRequests!Next]_(QueueRequests!vars)
<1>1. QueuePlace' = QueuePlace
  BY DEF QueuePlace, Asleep, InOperation
<1> QED
  BY <1>1, StaysThere

\* The steps of the queues' thread are steps of WorkRequests.
LEMMA QueueStepRefines ==
    TypeOK /\ PlaceInv /\ [Next]_vars =>
    [QueueRequests!Next]_(QueueRequests!vars)
<1> SUFFICES ASSUME TypeOK, PlaceInv, [Next]_vars
      PROVE  [QueueRequests!Next]_(QueueRequests!vars)
  OBVIOUS
<1> USE DEF PlaceInv
<1>1. ASSUME NEW p \in Posters, NEW q \in Queues, TryBeginOperation(p, q)
      PROVE  [QueueRequests!Next]_(QueueRequests!vars)
  BY <1>1, NobodyMoves DEF TryBeginOperation, TypeOK
<1>2. ASSUME NEW p \in Posters, NEW b \in BOOLEAN, PostImmediateTask(p, b)
      PROVE  [QueueRequests!Next]_(QueueRequests!vars)
  BY <1>2, NobodyMoves DEF PostImmediateTask, PushTask, TypeOK
<1>3. ASSUME NEW p \in Posters, ScheduleWork(p)
      PROVE  [QueueRequests!Next]_(QueueRequests!vars)
  BY <1>3, NobodyMoves DEF ScheduleWork, TypeOK
<1>4. ASSUME NEW q \in Queues, NEW b \in BOOLEAN, PostOnBoundThread(q, b)
      PROVE  [QueueRequests!Next]_(QueueRequests!vars)
  BY <1>4, NobodyMoves DEF PostOnBoundThread, PushTask, TypeOK
<1>5. ASSUME NEW q \in Queues, NEW f \in {nextOrder, BlockingFence},
      InsertFence(q, f) PROVE  [QueueRequests!Next]_(QueueRequests!vars)
  <2>1. QueuePlace' = QueuePlace
    BY <1>5 DEF InsertFence, QueuePlace, Asleep, InOperation, InClientCode,
       ClientMay
  <2>2. requested' = requested \/ requested' = TRUE
    BY <1>5 DEF InsertFence
  <2> QED
    BY <2>1, <2>2, StaysThere
<1>6. ASSUME NEW q \in Queues, RemoveFence(q)
      PROVE  [QueueRequests!Next]_(QueueRequests!vars)
  BY <1>6, NobodyMoves DEF RemoveFence, TypeOK
<1>7. ASSUME NEW q \in Queues, SetQueueEnabled(q)
      PROVE  [QueueRequests!Next]_(QueueRequests!vars)
  <2>1. QueuePlace' = QueuePlace
    BY <1>7 DEF SetQueueEnabled, QueuePlace, Asleep, InOperation, InClientCode,
       ClientMay, NoOp
  <2>2. requested' = requested \/ requested' = TRUE
    BY <1>7 DEF SetQueueEnabled
  <2> QED
    BY <2>1, <2>2, StaysThere
<1>8. ASSUME NEW q \in Queues, ShutdownTaskQueue(q)
      PROVE  [QueueRequests!Next]_(QueueRequests!vars)
  <2>1. QueuePlace' = QueuePlace
    BY <1>8 DEF ShutdownTaskQueue, BeginUnregister, QueuePlace, Asleep,
       InOperation, InClientCode, ClientMay, NoOp
  <2>2. requested' = requested \/ requested' = TRUE
    BY <1>8 DEF ShutdownTaskQueue, BeginUnregister
  <2> QED
    BY <2>1, <2>2, StaysThere
<1>9. ASSUME NEW q \in Queues, ShutdownTaskQueueGracefully(q)
      PROVE  [QueueRequests!Next]_(QueueRequests!vars)
  BY <1>9, NobodyMoves DEF ShutdownTaskQueueGracefully, TypeOK
<1>10. ASSUME NEW q \in Queues, CancelTask(q)
      PROVE  [QueueRequests!Next]_(QueueRequests!vars)
  BY <1>10, NobodyMoves DEF CancelTask, TypeOK
<1>11. CASE BeginNestedRunLoop
  <2>1. QueuePlace' = QueuePlace
    BY <1>11 DEF BeginNestedRunLoop, QueuePlace, Asleep, InOperation
  <2>2. requested' = requested \/ requested' = TRUE
    BY <1>11 DEF BeginNestedRunLoop
  <2> QED
    BY <2>1, <2>2, StaysThere
<1>12. CASE ExitNestedRunLoop
  <2>1. CASE pc = "begin"
    <3>1. QueuePlace' = QueuePlace /\ requested' = requested
      BY <1>12, <2>1 DEF ExitNestedRunLoop, QueuePlace, Asleep, InOperation
    <3> QED
      BY <3>1, StaysThere
  <2>2. CASE pc = "sleep"
    <3>1. QueueRequests!Resume
      BY <1>12, <2>2 DEF ExitNestedRunLoop, QueuePlace, Asleep, InOperation,
         QueueRequests!Resume
    <3> QED
      BY <3>1 DEF QueueRequests!Next
  <2> QED
    BY <1>12, <2>1, <2>2 DEF ExitNestedRunLoop
<1>13. CASE BeginWork
  <2>1. QueueRequests!StartWork
    BY <1>13 DEF BeginWork, QueuePlace, Asleep, InOperation,
       QueueRequests!StartWork
  <2> QED
    BY <2>1 DEF QueueRequests!Next
<1>14. CASE SelectNextTask
  <2>1. QueuePlace' = QueuePlace
    BY <1>14 DEF SelectNextTask, RunActiveCallbacks, QueuePlace, Asleep,
       InOperation
  <2>2. requested' = requested \/ requested' = TRUE
    BY <1>14 DEF SelectNextTask, RunActiveCallbacks
  <2> QED
    BY <2>1, <2>2, StaysThere
<1>15. CASE SelectNoTask
  <2>1. QueuePlace' = QueuePlace
    BY <1>15 DEF SelectNoTask, MainGoes, QueuePlace, Asleep, InOperation
  <2>2. requested' = requested \/ requested' = TRUE
    BY <1>15 DEF SelectNoTask, MainGoes
  <2> QED
    BY <2>1, <2>2, StaysThere
<1>16. CASE DidRunTask
  <2>1. QueuePlace' = QueuePlace
    BY <1>16 DEF DidRunTask, MainGoes, QueuePlace, Asleep, InOperation
  <2>2. requested' = requested \/ requested' = TRUE
    BY <1>16 DEF DidRunTask, MainGoes
  <2> QED
    BY <2>1, <2>2, StaysThere
<1>17. CASE WillCheckForMoreWork
  <2>1. QueueRequests!LookAgain
    BY <1>17 DEF WillCheckForMoreWork, QueuePlace, Asleep, InOperation,
       QueueRequests!LookAgain
  <2> QED
    BY <2>1 DEF QueueRequests!Next
<1>18. CASE DelayTillNextTask
  <2>1. CASE HasWork /\ MainGoes("delay", "begin")
    <3>1. QueueRequests!Resume
      BY <2>1 DEF MainGoes, QueuePlace, Asleep, InOperation,
         QueueRequests!Resume
    <3> QED
      BY <3>1 DEF QueueRequests!Next
  <2>2. CASE pc = "delay" /\ pc' = "delayed" /\ RunActiveCallbacks
    <3>1. QueuePlace' = QueuePlace /\ requested' = requested
      BY <2>2 DEF RunActiveCallbacks, QueuePlace, Asleep, InOperation
    <3> QED
      BY <3>1, StaysThere
  <2> QED
    BY <1>18, <2>1, <2>2 DEF DelayTillNextTask
<1>19. CASE DelayAfterReload
  <2>1. CASE HasWork
    <3>1. QueueRequests!Resume
      BY <1>19, <2>1 DEF DelayAfterReload, MainGoes, QueuePlace, Asleep,
         InOperation, QueueRequests!Resume
    <3> QED
      BY <3>1 DEF QueueRequests!Next
  <2>2. CASE ~HasWork
    <3>1. QueueRequests!Sleep
      BY <1>19, <2>2 DEF DelayAfterReload, MainGoes, QueuePlace, Asleep,
         InOperation, QueueRequests!Sleep
    <3> QED
      BY <3>1 DEF QueueRequests!Next
  <2> QED
    BY <2>1, <2>2
<1>20. CASE WaitReturns
  <2>1. QueueRequests!Resume
    BY <1>20 DEF WaitReturns, MainGoes, QueuePlace, Asleep, InOperation,
       QueueRequests!Resume
  <2> QED
    BY <2>1 DEF QueueRequests!Next
<1>21. ASSUME NEW q \in Queues, ReloadEmptyImmediateWorkQueue(q)
      PROVE  [QueueRequests!Next]_(QueueRequests!vars)
  BY <1>21, NobodyMoves DEF ReloadEmptyImmediateWorkQueue, TypeOK
<1>22. ASSUME NEW q \in Queues, DropCanceledTasks(q)
      PROVE  [QueueRequests!Next]_(QueueRequests!vars)
  BY <1>22, NobodyMoves DEF DropCanceledTasks, TypeOK
<1>23. ASSUME NEW q \in Queues, DeferTask(q)
      PROVE  [QueueRequests!Next]_(QueueRequests!vars)
  BY <1>23, NobodyMoves DEF DeferTask, TypeOK
<1>24. ASSUME NEW q \in Queues, RunTask(q)
      PROVE  [QueueRequests!Next]_(QueueRequests!vars)
  <2>1. QueuePlace' = QueuePlace
    BY <1>24 DEF RunTask, QueuePlace, Asleep, InOperation,
       SelectWorkQueueToService
  <2>2. requested' = requested \/ requested' = TRUE
    BY <1>24 DEF RunTask
  <2> QED
    BY <2>1, <2>2, StaysThere
<1>25. CASE RequeueDeferredNonNestableTask
  BY <1>25, NobodyMoves DEF RequeueDeferredNonNestableTask, TypeOK
<1>26. CASE RequeueDone
  <2>1. QueuePlace' = QueuePlace
    BY <1>26 DEF RequeueDone, MainGoes, QueuePlace, Asleep, InOperation
  <2>2. requested' = requested \/ requested' = TRUE
    BY <1>26 DEF RequeueDone, MainGoes
  <2> QED
    BY <2>1, <2>2, StaysThere
<1>27. CASE RequeueToUnregistered
  <2>1. QueuePlace' = QueuePlace
    BY <1>27 DEF RequeueToUnregistered, MainGoes, QueuePlace, Asleep, InOperation
  <2>2. requested' = requested \/ requested' = TRUE
    BY <1>27 DEF RequeueToUnregistered, MainGoes
  <2> QED
    BY <2>1, <2>2, StaysThere
<1>28. CASE FinishInsertFence
  <2>1. QueuePlace' = QueuePlace
    BY <1>28 DEF FinishInsertFence, QueuePlace, Asleep, InOperation, NoOp, TypeOK
  <2>2. requested' = requested \/ requested' = TRUE
    BY <1>28 DEF FinishInsertFence, TypeOK
  <2> QED
    BY <2>1, <2>2, StaysThere
<1>29. CASE FinishSetQueueEnabled
  <2>1. QueuePlace' = QueuePlace
    BY <1>29 DEF FinishSetQueueEnabled, QueuePlace, Asleep, InOperation, NoOp,
       TypeOK
  <2>2. requested' = requested \/ requested' = TRUE
    BY <1>29 DEF FinishSetQueueEnabled, TypeOK
  <2> QED
    BY <2>1, <2>2, StaysThere
<1>30. CASE UnregisterTaskQueue
  <2>1. QueuePlace' = QueuePlace
    BY <1>30 DEF UnregisterTaskQueue, QueuePlace, Asleep, InOperation, NoOp,
       TypeOK
  <2>2. requested' = requested \/ requested' = TRUE
    BY <1>30 DEF UnregisterTaskQueue
  <2> QED
    BY <2>1, <2>2, StaysThere
<1>31. CASE CleanUpQueues
  <2>1. QueuePlace' = QueuePlace
    BY <1>31 DEF CleanUpQueues, BeginUnregister, MainGoes, QueuePlace, Asleep,
       InOperation, NoOp
  <2>2. requested' = requested \/ requested' = TRUE
    BY <1>31 DEF CleanUpQueues, BeginUnregister, MainGoes
  <2> QED
    BY <2>1, <2>2, StaysThere
<1>32. CASE UNCHANGED vars
  BY <1>32, NobodyMoves DEF vars
<1> HIDE DEF PlaceInv
<1> QED
  BY <1>1, <1>2, <1>3, <1>4, <1>5, <1>6, <1>7, <1>8, <1>9, <1>10, <1>11,
     <1>12, <1>13, <1>14, <1>15, <1>16, <1>17, <1>18, <1>19, <1>20, <1>21,
     <1>22, <1>23, <1>24, <1>25, <1>26, <1>27, <1>28, <1>29, <1>30, <1>31,
     <1>32 DEF Next, CallStep, ClientStep, MainStep, Wake

\* What SequenceManager takes for granted of its controller is no more than
\* WorkRequests: its flag `requested' is lowered and its thread put to sleep
\* as there.
THEOREM QueuesKeepRequests == Spec => QueueRequests!Spec
<1>1. Init => QueueRequests!Init
  BY DEF Init, QueueRequests!Init, QueuePlace, Asleep, InOperation
<1>2. ManagerInv => TypeOK /\ PlaceInv
  BY DEF ManagerInv
<1> QED
  BY <1>1, <1>2, QueueStepRefines, ManagerInvariant, PTL
  DEF Spec, QueueRequests!Spec
=============================================================================
