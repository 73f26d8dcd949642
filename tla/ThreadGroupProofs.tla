--------------------------- MODULE ThreadGroupProofs ---------------------------
(***************************************************************************)
(* What a thread group keeps, for any number of workers and any limits.    *)
(* StaffInv: the workers, the idle stack, the threads that are still to be *)
(* started, and the counters, which are those of the workers' places.      *)
(* GroupInv adds who sees to what is missing: PostedInv and LimitInv to    *)
(* limits that are too low, ChaseInv to workers that should be awake.      *)
(* Most steps either end with EnsureEnoughWorkers (EnsuredInv, of what     *)
(* Ensured says of such a step) or leave the queue and the counters alone  *)
(* (QuietInv); the others are GetWork and the ends of blocking calls.      *)
(***************************************************************************)
EXTENDS ThreadGroup, FiniteSetTheorems, SequenceTheorems, TLAPS

-----------------------------------------------------------------------------
(* The parts of the invariant.                                             *)

\* The workers that count as awake.
Awake == workers \ Range(idle)

\* The queue has no more sources than calls have put there.
QueueInv == queued[BestEffort] + queued[Foreground] <= calls

\* Only a group that was started has workers, and posts AdjustMaxTasks.
StartedInv == workers # {} \/ posted => count.max # 0

Distinct(s) == \A i, j \in 1..Len(s) : s[i] = s[j] => i = j

\* The idle stack has workers that run no task, each once.
IdleInv ==
    /\ Distinct(idle)
    /\ \A w \in Range(idle) :
          w \in workers /\ pc[w] \in {"none", "wait", "get", "flush"}

\* A thread is started once, for a worker that has none.
StartInv ==
    /\ \A w \in Workers : pc[w] # "none" => w \in workers
    /\ \A w \in workers : pc[w] = "none" => StartOwed(w)
    /\ \A t \in Threads :
          /\ Distinct(owes[t].start)
          /\ \A w \in Range(owes[t].start) : w \in workers /\ pc[w] = "none"
    /\ \A t, u \in Threads :
          t # u => Range(owes[t].start) \cap Range(owes[u].start) = {}

\* There are names left for MaxWorkers workers.
NamesInv == Cardinality(Held \ workers) <= Cardinality(Workers) - MaxWorkers

\* The workers that are awake run a task or are on their way to GetWork.
AwakeInv == \A w \in Awake : w \in Running \/ OnTheWay(w)

\* A worker that looks for missing workers before it takes a task, and one
\* that does not, or not before its task ends or raises a limit.
Looks(w) == w \in Awake /\ pc[w] \in {"none", "wait", "get", "reset"}
LooksLate(w) ==
    w \in Awake /\ (pc[w] = "flush" \/ (w \in Running /\ block[w] # "counted"))

\* Who will wake up the workers that are missing.
ChaseInv ==
    DesiredNumAwakeWorkers(queued, count) > NumAwakeWorkers =>
       \/ policyOwed
       \/ \E w \in Workers : Looks(w)
       \/ \E v, w \in Workers : v # w /\ LooksLate(v) /\ LooksLate(w)

\* AdjustMaxTasks is posted by one thread, once.
PostedInv ==
    /\ posted <=> adjusting \/ \E t \in Threads : owes[t].adjust
    /\ adjusting => \A t \in Threads : ~owes[t].adjust
    /\ \A t, u \in Threads : owes[t].adjust /\ owes[u].adjust => t = u

LimitInv ==
    ShouldPeriodicallyAdjustMaxTasks(queued, count) =>
       \/ posted \/ policyOwed
       \/ \E w \in Running : block[w] = "none"
       \/ \E w \in Workers : Looks(w)

-----------------------------------------------------------------------------
(* Sequences.                                                              *)

LEMMA FrontFacts ==
    ASSUME NEW S, NEW s \in Seq(S), s # <<>>
    PROVE  /\ Front(s) \in Seq(S)
           /\ Len(Front(s)) = Len(s) - 1
           /\ \A i \in 1..(Len(s) - 1) : Front(s)[i] = s[i]
           /\ Len(s) \in Nat /\ Len(s) > 0
           /\ Last(s) = s[Len(s)]
           /\ Last(s) \in S
  <1> DEFINE n == Len(s)
  <1>1. n \in Nat /\ n > 0 /\ \A i \in 1..n : s[i] \in S
    BY EmptySeq, LenProperties
  <1>2. Last(s) = s[n] /\ Last(s) \in S
    BY <1>1 DEF Last
  <1>3. Front(s) = SubSeq(s, 1, n - 1)
    BY DEF Front
  <1> HIDE DEF n
  <1>4. n - 1 \in Int /\ \A i \in 1..(n - 1) : s[i] \in S
    BY <1>1
  <1>5. /\ SubSeq(s, 1, n - 1) \in Seq(S)
        /\ Len(SubSeq(s, 1, n - 1))
              = IF 1 <= n - 1 THEN n - 1 - 1 + 1 ELSE 0
        /\ \A i \in 1..(n - 1 - 1 + 1) : SubSeq(s, 1, n - 1)[i] = s[1 + i - 1]
    BY <1>4, SubSeqProperties
  <1>6. (IF 1 <= n - 1 THEN n - 1 - 1 + 1 ELSE 0) = n - 1
    BY <1>1
  <1>7. ASSUME NEW i \in 1..(n - 1)
        PROVE  SubSeq(s, 1, n - 1)[i] = s[i]
    <2>1. i \in 1..(n - 1 - 1 + 1) /\ 1 + i - 1 = i
      BY <1>1
    <2> QED BY <2>1, <1>5
  <1> QED BY <1>1, <1>2, <1>3, <1>5, <1>6, <1>7 DEF n

LEMMA AppendFacts ==
    ASSUME NEW S, NEW s \in Seq(S), NEW e \in S
    PROVE  /\ Append(s, e) \in Seq(S)
           /\ Len(Append(s, e)) = Len(s) + 1
           /\ \A i \in 1..Len(s) : Append(s, e)[i] = s[i]
           /\ Append(s, e)[Len(s) + 1] = e
           /\ Len(s) \in Nat
  OBVIOUS

LEMMA TailFacts ==
    ASSUME NEW S, NEW s \in Seq(S), s # <<>>
    PROVE  /\ Tail(s) \in Seq(S)
           /\ Len(Tail(s)) = Len(s) - 1
           /\ \A i \in 1..(Len(s) - 1) : Tail(s)[i] = s[i + 1]
           /\ Len(s) \in Nat /\ Len(s) > 0
           /\ Head(s) = s[1]
           /\ Head(s) \in S
  OBVIOUS

LEMMA RemoveAtFacts ==
    ASSUME NEW S, NEW s \in Seq(S), NEW i \in 1..Len(s)
    PROVE  /\ RemoveAt(s, i) \in Seq(S)
           /\ Len(RemoveAt(s, i)) = Len(s) - 1
           /\ \A j \in 1..(Len(s) - 1) :
                 RemoveAt(s, i)[j] = IF j < i THEN s[j] ELSE s[j + 1]
           /\ Len(s) \in Nat
  <1> DEFINE a == SubSeq(s, 1, i - 1)
             b == SubSeq(s, i + 1, Len(s))
  <1>1. a \in Seq(S) /\ Len(a) = i - 1 /\ \A j \in 1..(i - 1) : a[j] = s[j]
    OBVIOUS
  <1>2. /\ b \in Seq(S) /\ Len(b) = Len(s) - i
        /\ \A j \in 1..(Len(s) - i) : b[j] = s[i + j]
    OBVIOUS
  <1> HIDE DEF a, b
  <1>3. /\ (a \o b) \in Seq(S) /\ Len(a \o b) = Len(a) + Len(b)
        /\ \A j \in 1..(Len(a) + Len(b)) :
              (a \o b)[j] = IF j <= Len(a) THEN a[j] ELSE b[j - Len(a)]
    BY <1>1, <1>2, ConcatProperties
  <1>4. RemoveAt(s, i) = a \o b
    BY DEF RemoveAt, a, b
  <1>5. Len(s) \in Nat
    OBVIOUS
  <1>6. Len(a \o b) = Len(s) - 1
    BY <1>1, <1>2, <1>3, <1>5
  <1>7. ASSUME NEW j \in 1..(Len(s) - 1)
        PROVE  (a \o b)[j] = IF j < i THEN s[j] ELSE s[j + 1]
    <2>1. CASE j < i
      BY <2>1, <1>1, <1>2, <1>3, <1>5
    <2>2. CASE ~(j < i)
      <3>1. (a \o b)[j] = b[j - (i - 1)]
        BY <2>2, <1>1, <1>2, <1>3, <1>5
      <3>2. j - (i - 1) \in 1..(Len(s) - i) /\ i + (j - (i - 1)) = j + 1
        BY <2>2, <1>5
      <3> QED BY <3>1, <3>2, <1>2, <2>2
    <2> QED BY <2>1, <2>2
  <1> QED BY <1>3, <1>4, <1>5, <1>6, <1>7

LEMMA RangeFacts ==
    ASSUME NEW S, NEW s \in Seq(S)
    PROVE  /\ \A x : x \in Range(s) <=> \E i \in 1..Len(s) : s[i] = x
           /\ Range(s) \subseteq S
           /\ Len(s) \in Nat
  BY DEF Range

\* A sequence without repetitions has as many elements as places.
LEMMA DistinctCount ==
    ASSUME NEW S, NEW s \in Seq(S),
           Distinct(s)
    PROVE  IsFiniteSet(Range(s)) /\ Cardinality(Range(s)) = Len(s)
  <1>1. Len(s) \in Nat /\ s \in [1..Len(s) -> S] /\ DOMAIN s = 1..Len(s)
    BY LenProperties
  <1>2. s \in Injection(1..Len(s), Range(s)) /\ s \in Surjection(1..Len(s), Range(s))
    BY <1>1 DEF Injection, IsInjective, Surjection, Range, Distinct
  <1>3. IsFiniteSet(1..Len(s)) /\ Cardinality(1..Len(s)) = Len(s)
    BY <1>1, FS_Interval
  <1> QED BY <1>2, <1>3, FS_Surjection

LEMMA AppendDistinct ==
    ASSUME NEW S, NEW s \in Seq(S), NEW e \in S
    PROVE  /\ Append(s, e) \in Seq(S)
           /\ Range(Append(s, e)) = Range(s) \cup {e}
           /\ Len(s) \in Nat /\ Len(Append(s, e)) = Len(s) + 1
           /\ Distinct(s) /\ e \notin Range(s) => Distinct(Append(s, e))
  <1> DEFINE n == Len(s)
             a == Append(s, e)
  <1>1. /\ a \in Seq(S) /\ Len(a) = n + 1 /\ n \in Nat
        /\ \A i \in 1..n : a[i] = s[i]
        /\ a[n + 1] = e
    BY AppendFacts
  <1>2. /\ \A x : x \in Range(s) <=> \E i \in 1..n : s[i] = x
        /\ \A x : x \in Range(a) <=> \E i \in 1..(n + 1) : a[i] = x
    <2>1. /\ \A x : x \in Range(s) <=> \E i \in 1..n : s[i] = x
          /\ \A x : x \in Range(a) <=> \E i \in 1..Len(a) : a[i] = x
      BY <1>1, RangeFacts
    <2> HIDE DEF n, a
    <2> QED BY <1>1, <2>1
  <1>3. Distinct(s) => \A i, j \in 1..n : s[i] = s[j] => i = j
    BY DEF Distinct
  <1> HIDE DEF n, a
  <1>4. \A i \in 1..(n + 1) : i \in 1..n \/ i = n + 1
    BY <1>1
  <1>5. 1..n \subseteq 1..(n + 1) /\ n + 1 \in 1..(n + 1)
    BY <1>1
  <1>6. Range(a) = Range(s) \cup {e}
    BY <1>1, <1>2, <1>4, <1>5
  <1>7. ASSUME Distinct(s), e \notin Range(s),
               NEW i \in 1..(n + 1), NEW j \in 1..(n + 1), a[i] = a[j]
        PROVE  i = j
    BY <1>1, <1>2, <1>3, <1>4, <1>7
  <1>8. Distinct(s) /\ e \notin Range(s) => Distinct(a)
    BY <1>1, <1>7 DEF Distinct
  <1> QED BY <1>1, <1>6, <1>8 DEF n, a

LEMMA FrontDistinct ==
    ASSUME NEW S, NEW s \in Seq(S), s # <<>>, Distinct(s)
    PROVE  /\ Front(s) \in Seq(S)
           /\ Range(Front(s)) = Range(s) \ {Last(s)}
           /\ Last(s) \in Range(s)
           /\ Len(s) \in Nat /\ Len(Front(s)) = Len(s) - 1
           /\ Distinct(Front(s))
  <1> DEFINE n == Len(s)
             a == Front(s)
  <1>1. /\ a \in Seq(S) /\ Len(a) = n - 1 /\ n \in Nat /\ n > 0
        /\ \A i \in 1..(n - 1) : a[i] = s[i]
        /\ Last(s) = s[n]
    BY FrontFacts
  <1>2. /\ \A x : x \in Range(s) <=> \E i \in 1..n : s[i] = x
        /\ \A x : x \in Range(a) <=> \E i \in 1..(n - 1) : a[i] = x
    <2>1. /\ \A x : x \in Range(s) <=> \E i \in 1..n : s[i] = x
          /\ \A x : x \in Range(a) <=> \E i \in 1..Len(a) : a[i] = x
      BY <1>1, RangeFacts
    <2> HIDE DEF n, a
    <2> QED BY <1>1, <2>1
  <1>3. \A i, j \in 1..n : s[i] = s[j] => i = j
    BY DEF Distinct
  <1> HIDE DEF n, a
  <1>4. \A i \in 1..n : i \in 1..(n - 1) \/ i = n
    BY <1>1
  <1>5. 1..(n - 1) \subseteq 1..n /\ n \in 1..n /\ n \notin 1..(n - 1)
    BY <1>1
  <1>6. Range(a) = Range(s) \ {Last(s)} /\ Last(s) \in Range(s)
    BY <1>1, <1>2, <1>3, <1>4, <1>5
  <1>7. Distinct(a)
    BY <1>1, <1>3, <1>5 DEF Distinct
  <1> QED BY <1>1, <1>6, <1>7 DEF n, a

LEMMA TailDistinct ==
    ASSUME NEW S, NEW s \in Seq(S), s # <<>>
    PROVE  /\ Tail(s) \in Seq(S)
           /\ Range(s) = Range(Tail(s)) \cup {Head(s)}
           /\ Head(s) \in S
           /\ Distinct(s) => Distinct(Tail(s)) /\ Head(s) \notin Range(Tail(s))
  <1> DEFINE n == Len(s)
             a == Tail(s)
  <1>1. /\ a \in Seq(S) /\ Len(a) = n - 1 /\ n \in Nat /\ n > 0
        /\ \A i \in 1..(n - 1) : a[i] = s[i + 1]
        /\ Head(s) = s[1] /\ Head(s) \in S
    BY TailFacts
  <1>2. /\ \A x : x \in Range(s) <=> \E i \in 1..n : s[i] = x
        /\ \A x : x \in Range(a) <=> \E i \in 1..(n - 1) : a[i] = x
    <2>1. /\ \A x : x \in Range(s) <=> \E i \in 1..n : s[i] = x
          /\ \A x : x \in Range(a) <=> \E i \in 1..Len(a) : a[i] = x
      BY <1>1, RangeFacts
    <2> HIDE DEF n, a
    <2> QED BY <1>1, <2>1
  <1>3. Distinct(s) => \A i, j \in 1..n : s[i] = s[j] => i = j
    BY DEF Distinct
  <1> HIDE DEF n, a
  <1>4. \A i \in 1..n : i = 1 \/ (i - 1 \in 1..(n - 1) /\ i = (i - 1) + 1)
    BY <1>1
  <1>5. /\ 1 \in 1..n
        /\ \A i \in 1..(n - 1) : i + 1 \in 1..n /\ i + 1 # 1
        /\ \A i, j \in 1..(n - 1) : i + 1 = j + 1 => i = j
    BY <1>1
  <1>6. Range(s) = Range(a) \cup {Head(s)}
    <2>1. ASSUME NEW x \in Range(s) PROVE x \in Range(a) \cup {Head(s)}
      <3>1. PICK i \in 1..n : s[i] = x
        BY <1>2, <2>1
      <3>2. CASE i = 1
        BY <1>1, <3>1, <3>2
      <3>3. CASE i - 1 \in 1..(n - 1) /\ i = (i - 1) + 1
        <4>1. a[i - 1] = x
          BY <1>1, <3>1, <3>3
        <4> QED BY <4>1, <3>3, <1>2
      <3> QED BY <3>1, <3>2, <3>3, <1>4
    <2>2. ASSUME NEW x \in Range(a) PROVE x \in Range(s)
      BY <1>1, <1>2, <1>5, <2>2
    <2>3. Head(s) \in Range(s)
      BY <1>1, <1>2, <1>5
    <2> QED BY <2>1, <2>2, <2>3
  <1>7. ASSUME Distinct(s) PROVE Distinct(a) /\ Head(s) \notin Range(a)
    <2>1. Distinct(a)
      BY <1>1, <1>3, <1>5, <1>7 DEF Distinct
    <2>2. Head(s) \notin Range(a)
      BY <1>1, <1>2, <1>3, <1>5, <1>7
    <2> QED BY <2>1, <2>2
  <1> QED BY <1>1, <1>6, <1>7 DEF n, a

LEMMA RemoveAtDistinct ==
    ASSUME NEW S, NEW s \in Seq(S), NEW k \in 1..Len(s), Distinct(s)
    PROVE  /\ RemoveAt(s, k) \in Seq(S)
           /\ Range(RemoveAt(s, k)) = Range(s) \ {s[k]}
           /\ s[k] \in Range(s)
           /\ Len(s) \in Nat /\ Len(RemoveAt(s, k)) = Len(s) - 1
           /\ Distinct(RemoveAt(s, k))
  <1> DEFINE n == Len(s)
             a == RemoveAt(s, k)
  <1>1. /\ a \in Seq(S) /\ Len(a) = n - 1 /\ n \in Nat /\ k \in 1..n
        /\ \A j \in 1..(n - 1) : a[j] = IF j < k THEN s[j] ELSE s[j + 1]
    BY RemoveAtFacts
  <1>2. /\ \A x : x \in Range(s) <=> \E i \in 1..n : s[i] = x
        /\ \A x : x \in Range(a) <=> \E i \in 1..(n - 1) : a[i] = x
    <2>1. /\ \A x : x \in Range(s) <=> \E i \in 1..n : s[i] = x
          /\ \A x : x \in Range(a) <=> \E i \in 1..Len(a) : a[i] = x
      BY <1>1, RangeFacts
    <2> HIDE DEF n, a
    <2> QED BY <1>1, <2>1
  <1>3. \A i, j \in 1..n : s[i] = s[j] => i = j
    BY DEF Distinct
  <1> HIDE DEF n, a
  <1> DEFINE old(j) == IF j < k THEN j ELSE j + 1
  <1>4. /\ \A j \in 1..(n - 1) : old(j) \in 1..n /\ old(j) # k
        /\ \A i, j \in 1..(n - 1) : old(i) = old(j) => i = j
    BY <1>1
  <1>5. \A i \in 1..n : i # k => \E j \in 1..(n - 1) : old(j) = i
    <2> SUFFICES ASSUME NEW i \in 1..n, i # k
                 PROVE  \E j \in 1..(n - 1) : old(j) = i
      OBVIOUS
    <2>1. CASE i < k
      <3>1. i \in 1..(n - 1) /\ old(i) = i
        BY <1>1, <2>1
      <3> QED BY <3>1
    <2>2. CASE i > k
      <3>1. i - 1 \in 1..(n - 1) /\ old(i - 1) = i
        BY <1>1, <2>2
      <3> QED BY <3>1
    <2> QED BY <1>1, <2>1, <2>2
  <1>6. \A j \in 1..(n - 1) : a[j] = s[old(j)]
    BY <1>1
  <1> HIDE DEF old
  <1>7. Range(a) = Range(s) \ {s[k]} /\ s[k] \in Range(s)
    <2>1. ASSUME NEW x \in Range(a) PROVE x \in Range(s) /\ x # s[k]
      <3>1. PICK j \in 1..(n - 1) : a[j] = x
        BY <1>2, <2>1
      <3>2. x = s[old(j)] /\ old(j) \in 1..n /\ old(j) # k
        BY <3>1, <1>4, <1>6
      <3> QED BY <3>2, <1>1, <1>2, <1>3
    <2>2. ASSUME NEW x \in Range(s), x # s[k] PROVE x \in Range(a)
      <3>1. PICK i \in 1..n : s[i] = x
        BY <1>2, <2>2
      <3>2. PICK j \in 1..(n - 1) : old(j) = i
        BY <3>1, <2>2, <1>5
      <3>3. a[j] = x
        BY <3>1, <3>2, <1>6
      <3> QED BY <3>3, <1>2
    <2>3. s[k] \in Range(s)
      BY <1>1, <1>2
    <2> QED BY <2>1, <2>2, <2>3
  <1>8. Distinct(a)
    <2>1. ASSUME NEW i \in 1..(n - 1), NEW j \in 1..(n - 1), a[i] = a[j]
          PROVE  i = j
      <3>1. s[old(i)] = s[old(j)] /\ old(i) \in 1..n /\ old(j) \in 1..n
        BY <2>1, <1>4, <1>6
      <3>2. old(i) = old(j)
        BY <3>1, <1>3
      <3> QED BY <3>2, <1>4
    <2> QED BY <2>1, <1>1 DEF Distinct
  <1> QED BY <1>1, <1>7, <1>8 DEF n, a

-----------------------------------------------------------------------------
(* EnsureEnoughWorkers.                                                    *)

Pools == [workers : SUBSET Workers, idle : Seq(Workers),
          wake : Seq(Workers), start : Seq(Workers)]

\* What EnsureEnoughWorkers makes of the workers: new ones are started, and
\* those that are woken up were idle or are new.
PoolOK(pool) ==
    /\ pool \in Pools
    /\ workers \subseteq pool.workers
    /\ Distinct(pool.idle) /\ Distinct(pool.wake) /\ Distinct(pool.start)
    /\ Range(pool.idle) \cap Range(pool.wake) = {}
    /\ Range(pool.idle) \cup Range(pool.wake)
          = Range(idle) \cup (pool.workers \ workers)
    /\ Range(pool.start) = pool.workers \ workers
    /\ Cardinality(pool.workers) - Len(pool.idle)
          = NumAwakeWorkers + Len(pool.wake)

\* The workers as they are between two critical sections.
GroupOK ==
    /\ workers \subseteq Workers /\ idle \in Seq(Workers)
    /\ Distinct(idle) /\ Range(idle) \subseteq workers
    /\ NamesInv

LEMMA PoolStarts ==
    ASSUME GroupOK
    PROVE  /\ PoolOK(Pool) /\ Pool.wake = <<>> /\ Len(Pool.wake) = 0
           /\ Pool.workers = workers /\ Pool.idle = idle
  <1>1. <<>> \in Seq(Workers) /\ Len(<<>>) = 0
    BY EmptySeq
  <1>2. Range(<<>>) = {} /\ Distinct(<<>>)
    BY DEF Range, Distinct
  <1>3. Pool \in Pools
    BY <1>1 DEF GroupOK, Pool, Pools
  <1>4. /\ Pool.workers = workers /\ Pool.idle = idle
        /\ Pool.wake = <<>> /\ Pool.start = <<>>
    BY DEF Pool
  <1>5. Cardinality(workers) \in Nat /\ Len(idle) \in Nat
    BY FS_Subset, FS_CardinalityType, ThreadsAssumption, LenProperties
       DEF GroupOK
  <1>6. NumAwakeWorkers = NumAwakeWorkers + 0
    BY <1>5 DEF NumAwakeWorkers
  <1> QED BY <1>1, <1>2, <1>3, <1>4, <1>6
          DEF GroupOK, PoolOK, NumAwakeWorkers

LEMMA NewName ==
    ASSUME GroupOK, NEW W \in SUBSET Workers, workers \subseteq W,
           Cardinality(W) < MaxWorkers
    PROVE  \E w \in Workers : w \notin W \cup Held
  <1> DEFINE R == Held \ workers
  <1>1. IsFiniteSet(Workers) /\ IsFiniteSet(W) /\ IsFiniteSet(R)
    BY FS_Subset, ThreadsAssumption DEF Held
  <1>2. Cardinality(R) <= Cardinality(Workers) - MaxWorkers
    BY DEF GroupOK, NamesInv
  <1>3. /\ IsFiniteSet(W \cup R)
        /\ Cardinality(W \cup R)
              = Cardinality(W) + Cardinality(R) - Cardinality(W \cap R)
    BY <1>1, FS_Union
  <1>4. IsFiniteSet(W \cap R)
    BY <1>1, FS_Intersection
  <1>5. /\ Cardinality(Workers) \in Nat /\ Cardinality(W) \in Nat
        /\ Cardinality(R) \in Nat /\ Cardinality(W \cap R) \in Nat
        /\ MaxWorkers \in Nat
    BY <1>1, <1>4, FS_CardinalityType, LimitsAssumption
  <1>6. Cardinality(W \cup R) # Cardinality(Workers)
    BY <1>2, <1>3, <1>5
  <1>7. W \cup R # Workers
    BY <1>6
  <1>8. PICK w \in Workers : w \notin W \cup R
    BY <1>7 DEF Held
  <1> QED BY <1>8

\* A new worker is not awake.
LEMMA CreateKeeps ==
    ASSUME GroupOK, NEW pool, PoolOK(pool),
           Cardinality(pool.workers) < MaxWorkers
    PROVE  LET made == CreateAndRegisterWorker(pool)
           IN  /\ PoolOK(made) /\ made.wake = pool.wake
               /\ made.idle # <<>>
               /\ Cardinality(made.workers) - Len(made.idle)
                     = Cardinality(pool.workers) - Len(pool.idle)
  <1> DEFINE w == CHOOSE w \in Workers \ (pool.workers \cup Held) : TRUE
             made == CreateAndRegisterWorker(pool)
  <1>1. /\ pool \in Pools /\ pool.workers \in SUBSET Workers
        /\ pool.idle \in Seq(Workers) /\ pool.start \in Seq(Workers)
        /\ pool.wake \in Seq(Workers) /\ workers \subseteq pool.workers
    BY DEF PoolOK, Pools
  <1>2. w \in Workers /\ w \notin pool.workers
    BY <1>1, NewName
  <1>3. made = [pool EXCEPT !.workers = @ \cup {w}, !.idle = Append(@, w),
                            !.start = Append(@, w)]
    BY DEF CreateAndRegisterWorker
  <1> HIDE DEF w, made
  <1>4. /\ made \in Pools
        /\ made.workers = pool.workers \cup {w} /\ made.wake = pool.wake
        /\ made.idle = Append(pool.idle, w)
        /\ made.start = Append(pool.start, w)
    <2>1. /\ Append(pool.idle, w) \in Seq(Workers)
          /\ Append(pool.start, w) \in Seq(Workers)
      BY <1>1, <1>2, AppendDistinct
    <2> QED BY <1>1, <1>2, <1>3, <2>1 DEF Pools
  <1>5. /\ Range(pool.idle) \subseteq pool.workers
        /\ Range(pool.wake) \subseteq pool.workers
        /\ Range(pool.start) \subseteq pool.workers
    BY DEF PoolOK, GroupOK
  <1>6. /\ Range(made.idle) = Range(pool.idle) \cup {w}
        /\ Range(made.start) = Range(pool.start) \cup {w}
        /\ Distinct(made.idle) /\ Distinct(made.start)
        /\ Len(made.idle) = Len(pool.idle) + 1 /\ Len(pool.idle) \in Nat
    BY <1>1, <1>2, <1>4, <1>5, AppendDistinct DEF PoolOK
  <1>7. /\ Cardinality(made.workers) = Cardinality(pool.workers) + 1
        /\ Cardinality(pool.workers) \in Nat
    <2>1. IsFiniteSet(pool.workers)
      BY <1>1, FS_Subset, ThreadsAssumption
    <2> QED BY <2>1, <1>2, <1>4, FS_AddElement, FS_CardinalityType
  <1>8. Cardinality(made.workers) - Len(made.idle)
           = Cardinality(pool.workers) - Len(pool.idle)
    BY <1>6, <1>7
  <1>9. made.idle # <<>>
    BY <1>1, <1>2, <1>4, AppendProperties
  <1>10. PoolOK(made)
    <2>1. /\ workers \subseteq made.workers
          /\ Distinct(made.wake)
          /\ Range(made.idle) \cap Range(made.wake) = {}
          /\ Range(made.idle) \cup Range(made.wake)
                = Range(idle) \cup (made.workers \ workers)
          /\ Range(made.start) = made.workers \ workers
      BY <1>1, <1>2, <1>4, <1>5, <1>6 DEF PoolOK
    <2> QED BY <1>4, <1>6, <1>8, <2>1 DEF PoolOK
  <1> QED BY <1>4, <1>8, <1>9, <1>10 DEF made

LEMMA MaintainKeeps ==
    ASSUME GroupOK, NEW pool, PoolOK(pool), NEW max \in Nat
    PROVE  LET kept == MaintainAtLeastOneIdleWorker(pool, max)
           IN  /\ PoolOK(kept) /\ kept.wake = pool.wake
               /\ Cardinality(kept.workers) - Len(kept.idle)
                     = Cardinality(pool.workers) - Len(pool.idle)
               /\ Cardinality(pool.workers) - Len(pool.idle)
                     < Lower(max, MaxWorkers)
                  => kept.idle # <<>>
  <1> DEFINE kept == MaintainAtLeastOneIdleWorker(pool, max)
             limit == Lower(max, MaxWorkers)
  <1>1. limit \in Nat /\ limit <= MaxWorkers /\ MaxWorkers \in Nat
    BY LimitsAssumption DEF Lower
  <1>2. Cardinality(pool.workers) \in Nat
    BY FS_Subset, FS_CardinalityType, ThreadsAssumption DEF PoolOK, Pools
  <1> HIDE DEF limit
  <1>3. CASE pool.idle = <<>> /\ Cardinality(pool.workers) < limit
    <2>1. Cardinality(pool.workers) < MaxWorkers
      BY <1>1, <1>2, <1>3
    <2>2. kept = CreateAndRegisterWorker(pool)
      BY <1>3 DEF MaintainAtLeastOneIdleWorker, limit
    <2> QED BY <2>1, <2>2, CreateKeeps
  <1>4. CASE ~(pool.idle = <<>> /\ Cardinality(pool.workers) < limit)
    <2>1. kept = pool
      BY <1>4 DEF MaintainAtLeastOneIdleWorker, limit
    <2>2. ASSUME pool.idle = <<>>
          PROVE  ~(Cardinality(pool.workers) - Len(pool.idle) < limit)
      <3>1. Len(pool.idle) = 0
        BY <2>2, EmptySeq
      <3>2. Cardinality(pool.workers) - 0 = Cardinality(pool.workers)
        BY <1>2
      <3> QED BY <3>1, <3>2, <1>4, <2>2
    <2> QED BY <2>1, <2>2 DEF limit
  <1> QED BY <1>3, <1>4

LEMMA WakeUpKeeps ==
    ASSUME GroupOK, NEW pool, PoolOK(pool), NEW max \in Nat,
           Cardinality(pool.workers) - Len(pool.idle) < Lower(max, MaxWorkers)
    PROVE  LET woken == WakeUpOneWorker(pool, max)
           IN  /\ PoolOK(woken)
               /\ Len(woken.wake) = Len(pool.wake) + 1
               /\ Cardinality(woken.workers) - Len(woken.idle)
                     = Cardinality(pool.workers) - Len(pool.idle) + 1
  <1> DEFINE kept == MaintainAtLeastOneIdleWorker(pool, max)
             woken == WakeUpOneWorker(pool, max)
             w == Last(kept.idle)
  <1>1. /\ PoolOK(kept) /\ kept.wake = pool.wake
        /\ Cardinality(kept.workers) - Len(kept.idle)
              = Cardinality(pool.workers) - Len(pool.idle)
        /\ kept.idle # <<>>
    BY MaintainKeeps
  <1>2. woken = [kept EXCEPT !.idle = Front(@), !.wake = Append(@, w)]
    BY DEF WakeUpOneWorker
  <1> HIDE DEF kept, woken
  <1>3. /\ kept \in Pools /\ kept.workers \in SUBSET Workers
        /\ kept.idle \in Seq(Workers) /\ kept.start \in Seq(Workers)
        /\ kept.wake \in Seq(Workers) /\ workers \subseteq kept.workers
        /\ Distinct(kept.idle) /\ Distinct(kept.wake) /\ Distinct(kept.start)
    BY <1>1 DEF PoolOK, Pools
  <1>4. /\ Front(kept.idle) \in Seq(Workers) /\ Distinct(Front(kept.idle))
        /\ Range(Front(kept.idle)) = Range(kept.idle) \ {w}
        /\ w \in Range(kept.idle) /\ w \in Workers
        /\ Len(kept.idle) \in Nat
        /\ Len(Front(kept.idle)) = Len(kept.idle) - 1
    BY <1>1, <1>3, FrontDistinct, RangeFacts
  <1>5. w \notin Range(kept.wake)
    BY <1>1, <1>4 DEF PoolOK
  <1> HIDE DEF w
  <1>6. /\ Append(kept.wake, w) \in Seq(Workers)
        /\ Range(Append(kept.wake, w)) = Range(kept.wake) \cup {w}
        /\ Distinct(Append(kept.wake, w))
        /\ Len(kept.wake) \in Nat
        /\ Len(Append(kept.wake, w)) = Len(kept.wake) + 1
    BY <1>3, <1>4, <1>5, AppendDistinct
  <1>7. /\ woken \in Pools
        /\ woken.workers = kept.workers /\ woken.start = kept.start
        /\ woken.idle = Front(kept.idle)
        /\ woken.wake = Append(kept.wake, w)
    BY <1>2, <1>3, <1>4, <1>6 DEF Pools
  <1>8. Cardinality(woken.workers) - Len(woken.idle)
           = Cardinality(kept.workers) - Len(kept.idle) + 1
    <2>1. Cardinality(kept.workers) \in Nat
      BY <1>3, FS_Subset, FS_CardinalityType, ThreadsAssumption
    <2> DEFINE c == Cardinality(kept.workers)
               l == Len(kept.idle)
    <2>2. /\ c \in Nat /\ l \in Nat /\ Len(woken.idle) = l - 1
          /\ Cardinality(woken.workers) = c
      BY <2>1, <1>4, <1>7
    <2> HIDE DEF c, l
    <2>3. c - (l - 1) = c - l + 1
      BY <2>2
    <2> QED BY <2>2, <2>3 DEF c, l
  <1>9. PoolOK(woken)
    <2>1. /\ Range(woken.idle) \cap Range(woken.wake) = {}
          /\ Range(woken.idle) \cup Range(woken.wake)
                = Range(idle) \cup (woken.workers \ workers)
          /\ Range(woken.start) = woken.workers \ workers
      BY <1>1, <1>4, <1>5, <1>6, <1>7 DEF PoolOK
    <2>2. Cardinality(woken.workers) - Len(woken.idle)
             = NumAwakeWorkers + Len(woken.wake)
      <3> DEFINE a == NumAwakeWorkers
                 l == Len(kept.wake)
      <3>1. a \in Int
        BY FS_Subset, FS_CardinalityType, ThreadsAssumption, LenProperties
           DEF GroupOK, NumAwakeWorkers
      <3>2. Cardinality(kept.workers) - Len(kept.idle) = a + l
        BY <1>1 DEF PoolOK
      <3>3. l \in Nat /\ Len(woken.wake) = l + 1
        BY <1>6, <1>7
      <3> HIDE DEF a, l
      <3>4. a + l + 1 = a + (l + 1)
        BY <3>1, <3>3
      <3> QED BY <1>8, <3>2, <3>3, <3>4 DEF a, l
    <2> QED BY <1>3, <1>4, <1>6, <1>7, <2>1, <2>2 DEF PoolOK
  <1> QED BY <1>1, <1>6, <1>7, <1>8, <1>9 DEF woken, kept

LEMMA DesiredFacts ==
    ASSUME NEW q \in [Priorities -> Nat], NEW c \in Counters
    PROVE  /\ DesiredNumAwakeWorkers(q, c) \in Int
           /\ DesiredNumAwakeWorkers(q, c) <= Lower(c.max, MaxWorkers)
           /\ Lower(c.max, MaxWorkers) \in Nat
           /\ Lower(c.max, MaxWorkers) <= c.max
           /\ Lower(c.max, MaxWorkers) <= MaxWorkers
  <1>1. \A p \in Priorities : NumAdditionalWorkers(q, p) \in Nat
    BY DEF NumAdditionalWorkers
  <1>2. BestEffort \in Priorities /\ Foreground \in Priorities
    BY DEF Priorities
  <1>3. /\ c.running \in Nat /\ c.runningBE \in Nat /\ c.max \in Nat
        /\ c.maxBE \in Nat /\ MaxWorkers \in Nat
    BY LimitsAssumption DEF Counters
  <1>4. /\ Lower(c.max, MaxWorkers) \in Nat
        /\ Lower(c.max, MaxWorkers) <= c.max
        /\ Lower(c.max, MaxWorkers) <= MaxWorkers
    BY <1>3 DEF Lower
  <1> DEFINE be == Higher(Lower(c.runningBE + NumAdditionalWorkers(q, BestEffort),
                                c.maxBE), c.runningBE)
             fg == (c.running - c.runningBE)
                      + NumAdditionalWorkers(q, Foreground)
             limit == Lower(c.max, MaxWorkers)
  <1>5. be \in Int /\ fg \in Int
    BY <1>1, <1>2, <1>3 DEF Lower, Higher
  <1>6. DesiredNumAwakeWorkers(q, c) = Lower(be + fg, limit)
    BY DEF DesiredNumAwakeWorkers
  <1> HIDE DEF be, fg, limit
  <1>7. Lower(be + fg, limit) \in Int /\ Lower(be + fg, limit) <= limit
    BY <1>4, <1>5 DEF Lower, limit
  <1> QED BY <1>4, <1>6, <1>7 DEF limit

LEMMA AwakeType ==
    ASSUME GroupOK
    PROVE  NumAwakeWorkers \in Int
  BY FS_Subset, FS_CardinalityType, ThreadsAssumption, LenProperties
     DEF GroupOK, NumAwakeWorkers

\* No worker is missing after EnsureEnoughWorkers, or it woke up two.
LEMMA EnoughWorkersFacts ==
    ASSUME GroupOK, NEW q \in [Priorities -> Nat], NEW c \in Counters
    PROVE  LET pool == EnoughWorkers(q, c)
               desired == DesiredNumAwakeWorkers(q, c)
           IN  /\ PoolOK(pool)
               /\ pool = Pool => ~(desired > NumAwakeWorkers)
               /\ desired > Cardinality(pool.workers) - Len(pool.idle)
                  => \E v, w \in Range(pool.wake) : v # w
  <1> DEFINE desired == DesiredNumAwakeWorkers(q, c)
             limit == Lower(c.max, MaxWorkers)
             awake == NumAwakeWorkers
             pool == EnoughWorkers(q, c)
             once == WakeUpOneWorker(Pool, c.max)
             twice == WakeUpOneWorker(once, c.max)
  <1>1. /\ desired \in Int /\ desired <= limit /\ limit \in Nat
        /\ awake \in Int /\ c.max \in Nat
    BY DesiredFacts, AwakeType DEF Counters
  <1>2. /\ PoolOK(Pool) /\ Len(Pool.wake) = 0
        /\ Cardinality(Pool.workers) - Len(Pool.idle) = awake
    BY PoolStarts DEF NumAwakeWorkers
  <1>3. pool = CASE desired >= awake + 2 -> twice
                 [] desired = awake + 1 -> once
                 [] desired = awake -> MaintainAtLeastOneIdleWorker(Pool, c.max)
                 [] OTHER -> Pool
    BY DEF EnoughWorkers
  <1>4. ASSUME desired > awake
        PROVE  /\ PoolOK(once) /\ Len(once.wake) = 1
               /\ Cardinality(once.workers) - Len(once.idle) = awake + 1
    <2>1. Cardinality(Pool.workers) - Len(Pool.idle) < Lower(c.max, MaxWorkers)
      <3> HIDE DEF desired, awake
      <3>1. awake < limit
        BY <1>1, <1>4
      <3> QED BY <3>1, <1>2
    <2>2. /\ PoolOK(once) /\ Len(once.wake) = Len(Pool.wake) + 1
          /\ Cardinality(once.workers) - Len(once.idle)
                = Cardinality(Pool.workers) - Len(Pool.idle) + 1
      BY <1>1, <1>2, <2>1, WakeUpKeeps
    <2>3. Len(once.wake) = 0 + 1
      BY <1>2, <2>2
    <2> HIDE DEF once, awake
    <2> QED BY <1>2, <2>2, <2>3
  <1>5. ASSUME desired >= awake + 2
        PROVE  /\ PoolOK(twice) /\ Len(twice.wake) = 2
               /\ Cardinality(twice.workers) - Len(twice.idle) = awake + 2
    <2> HIDE DEF desired, awake, once
    <2>1. desired > awake /\ awake + 1 < limit
      BY <1>1, <1>5
    <2>2. /\ PoolOK(once) /\ Len(once.wake) = 1
          /\ Cardinality(once.workers) - Len(once.idle) = awake + 1
      BY <1>4, <2>1
    <2>3. Cardinality(once.workers) - Len(once.idle) < Lower(c.max, MaxWorkers)
      BY <2>1, <2>2
    <2>4. /\ PoolOK(twice) /\ Len(twice.wake) = Len(once.wake) + 1
          /\ Cardinality(twice.workers) - Len(twice.idle)
                = Cardinality(once.workers) - Len(once.idle) + 1
      BY <1>1, <2>2, <2>3, WakeUpKeeps
    <2>5. Len(twice.wake) = 1 + 1
      BY <2>2, <2>4
    <2>6. awake + 1 + 1 = awake + 2
      BY <1>1
    <2> HIDE DEF twice
    <2> QED BY <2>2, <2>4, <2>5, <2>6
  <1> SUFFICES /\ PoolOK(pool)
               /\ pool = Pool => ~(desired > awake)
               /\ desired > Cardinality(pool.workers) - Len(pool.idle)
                  => \E v, w \in Range(pool.wake) : v # w
    OBVIOUS
  <1>6. CASE desired >= awake + 2
    <2>1. pool = twice
      <3> HIDE DEF desired, awake, twice, once, pool
      <3> QED BY <1>1, <1>3, <1>6
    <2>2. PoolOK(pool) /\ Len(pool.wake) = 2
      BY <1>5, <1>6, <2>1
    <2>3. pool # Pool
      <3>1. Len(Pool.wake) # Len(pool.wake)
        <4> HIDE DEF pool
        <4>1. 0 # 2
          OBVIOUS
        <4> QED BY <4>1, <2>2, <1>2
      <3> QED BY <3>1
    <2>4. \E v, w \in Range(pool.wake) : v # w
      <3> HIDE DEF pool
      <3>1. pool.wake \in Seq(Workers) /\ Distinct(pool.wake)
        BY <2>2 DEF PoolOK, Pools
      <3>2. \A x : x \in Range(pool.wake) <=> \E i \in 1..2 : pool.wake[i] = x
        BY <3>1, <2>2, RangeFacts
      <3>3. \A i, j \in 1..2 : pool.wake[i] = pool.wake[j] => i = j
        BY <3>1, <2>2 DEF Distinct
      <3>4. pool.wake[1] # pool.wake[2]
        BY <3>3
      <3> QED BY <3>2, <3>4
    <2> QED BY <2>2, <2>3, <2>4
  <1>7. CASE desired = awake + 1
    <2>1. pool = once
      <3> HIDE DEF desired, awake, twice, once, pool
      <3> QED BY <1>1, <1>3, <1>7
    <2>2. desired > awake
      BY <1>1, <1>7
    <2>3. /\ PoolOK(pool) /\ Len(pool.wake) = 1
          /\ Cardinality(pool.workers) - Len(pool.idle) = awake + 1
      BY <1>4, <2>1, <2>2
    <2>4. pool # Pool
      <3>1. Len(Pool.wake) # Len(pool.wake)
        <4> HIDE DEF pool
        <4>1. 0 # 1
          OBVIOUS
        <4> QED BY <4>1, <2>3, <1>2
      <3> QED BY <3>1
    <2>5. ~(desired > Cardinality(pool.workers) - Len(pool.idle))
      <3> HIDE DEF pool, desired, awake
      <3> QED BY <1>1, <1>7, <2>3
    <2> QED BY <2>3, <2>4, <2>5
  <1>8. CASE desired = awake
    <2> DEFINE kept == MaintainAtLeastOneIdleWorker(Pool, c.max)
    <2>1. pool = kept
      <3> HIDE DEF desired, awake, twice, once, pool, kept
      <3>1. ~(desired >= awake + 2) /\ desired # awake + 1
        BY <1>1, <1>8
      <3> QED BY <1>3, <1>8, <3>1 DEF kept
    <2>2. /\ PoolOK(pool)
          /\ Cardinality(pool.workers) - Len(pool.idle) = awake
      BY <1>1, <1>2, <2>1, MaintainKeeps
    <2>3. ~(desired > Cardinality(pool.workers) - Len(pool.idle))
          /\ ~(desired > awake)
      <3> HIDE DEF pool, desired, awake
      <3> QED BY <1>1, <1>8, <2>2
    <2> QED BY <2>2, <2>3
  <1>9. CASE desired < awake
    <2>1. pool = Pool
      <3> HIDE DEF desired, awake, twice, once, pool
      <3>1. ~(desired >= awake + 2) /\ desired # awake + 1 /\ desired # awake
        BY <1>1, <1>9
      <3> QED BY <1>3, <3>1
    <2>2. ~(desired > awake)
      <3> HIDE DEF desired, awake
      <3> QED BY <1>1, <1>9
    <2> QED BY <1>2, <2>1, <2>2
  <1>10. desired >= awake + 2 \/ desired = awake + 1 \/ desired = awake
            \/ desired < awake
    <2> HIDE DEF desired, awake
    <2> QED BY <1>1
  <1> QED BY <1>6, <1>7, <1>8, <1>9, <1>10

-----------------------------------------------------------------------------
(* The invariant of the workers and the counters.                          *)

StaffInv ==
    /\ TypeOK /\ QueueInv /\ StartedInv /\ CountsExact
    /\ IdleInv /\ StartInv /\ NamesInv /\ AwakeInv

Works == [wake : Seq(Workers), start : Seq(Workers), adjust : BOOLEAN]

LEMMA NothingFacts ==
    /\ Nothing \in Works
    /\ Nothing.wake = <<>> /\ Nothing.start = <<>> /\ Nothing.adjust = FALSE
    /\ Range(<<>>) = {} /\ Distinct(<<>>)
  <1>1. <<>> \in Seq(Workers)
    BY EmptySeq
  <1> QED BY <1>1 DEF Nothing, Works, Range, Distinct

LEMMA GroupIsOK ==
    ASSUME TypeOK, IdleInv, NamesInv
    PROVE  GroupOK
  BY DEF TypeOK, IdleInv, GroupOK

\* What counts as awake is a set of workers.
LEMMA AwakeCount ==
    ASSUME GroupOK
    PROVE  /\ IsFiniteSet(Awake) /\ Cardinality(Awake) \in Nat
           /\ NumAwakeWorkers = Cardinality(Awake)
  <1>1. IsFiniteSet(workers)
    BY FS_Subset, ThreadsAssumption DEF GroupOK
  <1>2. IsFiniteSet(Range(idle)) /\ Cardinality(Range(idle)) = Len(idle)
    BY DistinctCount DEF GroupOK
  <1>3. /\ IsFiniteSet(workers \ Range(idle))
        /\ Cardinality(workers \ Range(idle))
              = Cardinality(workers) - Cardinality(workers \cap Range(idle))
    BY <1>1, FS_Difference
  <1>4. workers \cap Range(idle) = Range(idle)
    BY DEF GroupOK
  <1> QED BY <1>2, <1>3, <1>4, FS_CardinalityType DEF Awake, NumAwakeWorkers

LEMMA StaffIsOK ==
    ASSUME StaffInv
    PROVE  GroupOK /\ NumAwakeWorkers = Cardinality(Awake)
           /\ IsFiniteSet(Awake) /\ Cardinality(Awake) \in Nat
  BY GroupIsOK, AwakeCount DEF StaffInv

\* A critical section of t that ends with EnsureEnoughWorkers for the queue q
\* and the counters c.
Ensured(t, pool, q, c, alreadyPosted) ==
    LET must == ~alreadyPosted /\ ShouldPeriodicallyAdjustMaxTasks(q, c)
    IN /\ PoolOK(pool)
       /\ workers' = pool.workers /\ idle' = pool.idle
       /\ minAllowed' \in Priorities
       /\ owes' = [owes EXCEPT ![t] = [wake |-> pool.wake,
                                       start |-> pool.start,
                                       adjust |-> must]]
       /\ posted' = (alreadyPosted \/ must)
       /\ DesiredNumAwakeWorkers(q, c) > NumAwakeWorkers'
          => \E v, w \in Range(pool.wake) : v # w

LEMMA MinAllowedType ==
    ASSUME NEW q, NEW c
    PROVE  MinAllowedPriority(q, c) \in Priorities
  BY DEF MinAllowedPriority, Top, Priorities, BestEffort, Foreground

\* Before the start there is nothing to ensure.
LEMMA EnsureIsEnsured ==
    ASSUME StaffInv, NEW t \in Threads, owes[t] = Nothing,
           NEW q \in [Priorities -> Nat], NEW c \in Counters,
           c.max = 0 => workers = {} /\ c.unresolved = 0 /\ c.unresolvedBE = 0,
           NEW alreadyPosted \in BOOLEAN, c.max = 0 => alreadyPosted = posted,
           EnsureEnoughWorkers(t, q, c, alreadyPosted)
    PROVE  \E pool : Ensured(t, pool, q, c, alreadyPosted)
  <1>1. GroupOK /\ NumAwakeWorkers \in Nat
    BY StaffIsOK
  <1>2. CASE c.max = 0
    <2>1. PoolOK(Pool) /\ Pool.wake = <<>> /\ Pool.workers = workers
          /\ Pool.idle = idle
      BY <1>1, PoolStarts
    <2>2. UNCHANGED <<workers, idle, minAllowed, owes, posted>>
      BY <1>2 DEF EnsureEnoughWorkers
    <2>3. ~ShouldPeriodicallyAdjustMaxTasks(q, c)
      BY <1>2 DEF ShouldPeriodicallyAdjustMaxTasks
    <2>4. owes' = [owes EXCEPT ![t] = [wake |-> Pool.wake, start |-> Pool.start,
                                       adjust |-> FALSE]]
      <3>1. [wake |-> Pool.wake, start |-> Pool.start, adjust |-> FALSE] = Nothing
        BY DEF Pool, Nothing
      <3>2. owes = [owes EXCEPT ![t] = Nothing]
        BY DEF StaffInv, TypeOK
      <3> QED BY <3>1, <3>2, <2>2
    <2>5. ~(DesiredNumAwakeWorkers(q, c) > NumAwakeWorkers')
      <3>1. DesiredNumAwakeWorkers(q, c) \in Int
            /\ DesiredNumAwakeWorkers(q, c) <= Lower(c.max, MaxWorkers)
            /\ Lower(c.max, MaxWorkers) <= c.max
            /\ Lower(c.max, MaxWorkers) \in Nat
        BY DesiredFacts
      <3>2. NumAwakeWorkers' = NumAwakeWorkers
        BY <2>2 DEF NumAwakeWorkers
      <3> QED BY <1>1, <1>2, <3>1, <3>2
    <2>6. minAllowed' \in Priorities
      BY <2>2 DEF StaffInv, TypeOK
    <2> QED BY <1>2, <2>1, <2>2, <2>3, <2>4, <2>5, <2>6 DEF Ensured
  <1>3. CASE c.max # 0
    <2> DEFINE pool == EnoughWorkers(q, c)
    <2>1. /\ workers' = pool.workers /\ idle' = pool.idle
          /\ minAllowed' = MinAllowedPriority(q, c)
          /\ Schedule(t, pool, q, c, alreadyPosted)
      BY <1>3 DEF EnsureEnoughWorkers
    <2>2. /\ PoolOK(pool)
          /\ DesiredNumAwakeWorkers(q, c)
                > Cardinality(pool.workers) - Len(pool.idle)
             => \E v, w \in Range(pool.wake) : v # w
      BY <1>1, EnoughWorkersFacts
    <2> HIDE DEF pool
    <2>3. NumAwakeWorkers' = Cardinality(pool.workers) - Len(pool.idle)
      BY <2>1 DEF NumAwakeWorkers
    <2> QED BY <2>1, <2>2, <2>3, MinAllowedType DEF Ensured, Schedule
  <1> QED BY <1>2, <1>3

\* The places of the workers after a critical section of t.
PlacesKept(t) ==
    /\ pc' \in [Workers -> PCs]
    /\ \A w \in Workers :
          \/ pc'[w] = pc[w]
          \/ /\ w = t /\ pc[w] \in {"run", "upgrade"}
             /\ pc'[w] \in {"run", "reset"}
          \/ w = t /\ pc[w] = "get" /\ pc'[w] = "flush"

LEMMA OwesTyped ==
    ASSUME TypeOK, NEW t \in Threads
    PROVE  /\ owes[t] \in Works
           /\ owes[t].wake \in Seq(Workers) /\ owes[t].start \in Seq(Workers)
           /\ owes[t].adjust \in BOOLEAN
  BY DEF TypeOK, Works

LEMMA SetsKept ==
    ASSUME Held' \ workers' \subseteq Held \ workers, NamesInv
    PROVE  NamesInv'
  <1>1. IsFiniteSet(Held \ workers)
    BY FS_Subset, ThreadsAssumption DEF Held
  <1>2. /\ IsFiniteSet(Held' \ workers')
        /\ Cardinality(Held' \ workers') <= Cardinality(Held \ workers)
    BY <1>1, FS_Subset
  <1>3. /\ Cardinality(Held \ workers) \in Nat
        /\ Cardinality(Held' \ workers') \in Nat
        /\ Cardinality(Workers) \in Nat /\ MaxWorkers \in Nat
    BY <1>1, <1>2, FS_CardinalityType, ThreadsAssumption, LimitsAssumption
  <1> DEFINE h1 == Cardinality(Held' \ workers')
             h0 == Cardinality(Held \ workers)
             all == Cardinality(Workers)
  <1>4. h0 <= all - MaxWorkers
    BY DEF NamesInv
  <1> HIDE DEF h1, h0, all
  <1>5. h1 <= all - MaxWorkers
    BY <1>2, <1>3, <1>4 DEF h1, h0, all
  <1> QED BY <1>5 DEF NamesInv, h1, all

LEMMA EnsuredStaff ==
    ASSUME StaffInv, NEW t \in Threads, owes[t] = Nothing,
           t \in Workers => pc[t] # "none",
           NEW pool, NEW q, NEW c, NEW alreadyPosted \in BOOLEAN,
           Ensured(t, pool, q, c, alreadyPosted),
           PlacesKept(t), event' = event
    PROVE  /\ workers' \in SUBSET Workers /\ idle' \in Seq(Workers)
           /\ owes' \in [Threads -> Works]
           /\ posted' \in BOOLEAN /\ minAllowed' \in Priorities
           /\ workers \subseteq workers'
           /\ IdleInv' /\ StartInv' /\ NamesInv' /\ AwakeInv'
  <1> DEFINE must == ~alreadyPosted /\ ShouldPeriodicallyAdjustMaxTasks(q, c)
             work == [wake |-> pool.wake, start |-> pool.start, adjust |-> must]
  <1>1. /\ workers \subseteq Workers /\ idle \in Seq(Workers)
        /\ owes \in [Threads -> Works] /\ pc \in [Workers -> PCs]
        /\ event \subseteq workers
    BY DEF StaffInv, TypeOK, Works
  <1>2. /\ PoolOK(pool) /\ workers' = pool.workers /\ idle' = pool.idle
        /\ owes' = [owes EXCEPT ![t] = work]
        /\ posted' = (alreadyPosted \/ must) /\ minAllowed' \in Priorities
    BY DEF Ensured
  <1>3. must \in BOOLEAN
    BY DEF ShouldPeriodicallyAdjustMaxTasks
  <1> HIDE DEF must
  <1>4. /\ pool.workers \in SUBSET Workers /\ pool.idle \in Seq(Workers)
        /\ pool.wake \in Seq(Workers) /\ pool.start \in Seq(Workers)
        /\ workers \subseteq pool.workers
        /\ Distinct(pool.idle) /\ Distinct(pool.start)
        /\ Range(pool.idle) \cap Range(pool.wake) = {}
        /\ Range(pool.idle) \cup Range(pool.wake)
              = Range(idle) \cup (pool.workers \ workers)
        /\ Range(pool.start) = pool.workers \ workers
    BY <1>2 DEF PoolOK, Pools
  <1>5. work \in Works /\ work.wake = pool.wake /\ work.start = pool.start
    BY <1>3, <1>4 DEF Works
  <1> HIDE DEF work
  <1>6. /\ owes' \in [Threads -> Works] /\ owes'[t] = work
        /\ \A u \in Threads : u # t => owes'[u] = owes[u]
    BY <1>1, <1>2, <1>5
  <1>7. /\ pc' \in [Workers -> PCs]
        /\ \A w \in Workers : \/ pc'[w] = pc[w]
                              \/ /\ w = t /\ pc[w] \in {"run", "upgrade"}
                                 /\ pc'[w] \in {"run", "reset"}
                              \/ w = t /\ pc[w] = "get" /\ pc'[w] = "flush"
    BY DEF PlacesKept
  <1>8. \A w \in Workers : pc'[w] = "none" <=> pc[w] = "none"
    BY <1>7
  <1>9. /\ \A w \in Workers : pc[w] # "none" => w \in workers
        /\ \A w \in workers : pc[w] = "none" => StartOwed(w)
        /\ \A u \in Threads :
              /\ Distinct(owes[u].start)
              /\ \A w \in Range(owes[u].start) : w \in workers /\ pc[w] = "none"
        /\ \A u, v \in Threads :
              u # v => Range(owes[u].start) \cap Range(owes[v].start) = {}
    BY DEF StaffInv, StartInv
  <1>10. \A w \in Range(idle) :
            w \in workers /\ pc[w] \in {"none", "wait", "get", "flush"}
    BY DEF StaffInv, IdleInv
  <1>11. Range(owes[t].wake) = {} /\ Range(owes[t].start) = {}
    BY NothingFacts
  <1>12. IdleInv'
    <2>1. ASSUME NEW w \in Range(pool.idle)
          PROVE  w \in pool.workers /\ pc'[w] \in {"none", "wait", "get", "flush"}
      <3>1. w \in Range(idle) \/ w \in pool.workers \ workers
        BY <1>4, <2>1
      <3>2. w \in Workers /\ w \in pool.workers
        BY <3>1, <1>1, <1>4, <1>10
      <3>3. pc[w] \in {"none", "wait", "get", "flush"}
        BY <3>1, <3>2, <1>9, <1>10
      <3> QED BY <3>2, <3>3, <1>7
    <2> QED BY <2>1, <1>2, <1>4 DEF IdleInv
  <1>13. StartInv'
    <2>1. \A w \in Workers : pc'[w] # "none" => w \in workers'
      BY <1>2, <1>4, <1>8, <1>9
    <2>2. ASSUME NEW w \in workers', pc'[w] = "none"
          PROVE  \E u \in Threads : w \in Range(owes'[u].start)
      <3>1. w \in Workers /\ pc[w] = "none"
        BY <2>2, <1>2, <1>4, <1>8
      <3>2. CASE w \in workers
        <4>1. PICK u \in Threads : w \in Range(owes[u].start)
          BY <3>1, <3>2, <1>9 DEF StartOwed
        <4>2. u # t
          BY <4>1, <1>11
        <4> QED BY <4>1, <4>2, <1>6
      <3>3. CASE w \notin workers
        BY <3>3, <2>2, <1>2, <1>4, <1>5, <1>6
      <3> QED BY <3>2, <3>3
    <2>3. ASSUME NEW u \in Threads
          PROVE  /\ Distinct(owes'[u].start)
                 /\ \A w \in Range(owes'[u].start) :
                       w \in workers' /\ pc'[w] = "none"
      <3>1. CASE u = t
        <4>1. \A w \in pool.workers \ workers : w \in Workers /\ pc[w] = "none"
          BY <1>4, <1>9
        <4> QED BY <3>1, <4>1, <1>2, <1>4, <1>5, <1>6, <1>8
      <3>2. CASE u # t
        BY <3>2, <1>1, <1>2, <1>4, <1>6, <1>8, <1>9
      <3> QED BY <3>1, <3>2
    <2>4. ASSUME NEW u \in Threads, NEW v \in Threads, u # v
          PROVE  Range(owes'[u].start) \cap Range(owes'[v].start) = {}
      <3>1. \A r \in Threads : Range(owes[r].start) \subseteq workers
        BY <1>9
      <3>2. CASE u = t
        BY <3>1, <3>2, <2>4, <1>4, <1>5, <1>6
      <3>3. CASE v = t
        BY <3>1, <3>3, <2>4, <1>4, <1>5, <1>6
      <3>4. CASE u # t /\ v # t
        BY <3>4, <2>4, <1>6, <1>9
      <3> QED BY <3>2, <3>3, <3>4
    <2> QED BY <2>1, <2>2, <2>3, <2>4 DEF StartInv, StartOwed
  <1>14. NamesInv'
    <2>1. ASSUME NEW w \in Held', w \notin workers'
          PROVE  w \in Held /\ w \notin workers
      <3>1. w \in Workers /\ w \notin workers /\ w \notin pool.workers
        BY <2>1, <1>2, <1>4 DEF Held
      <3>2. w # t
        BY <3>1, <1>9
      <3>3. CASE owes'[w] # Nothing
        <4>1. owes[w] # Nothing
          BY <3>1, <3>2, <3>3, <1>6 DEF Threads
        <4> QED BY <3>1, <4>1 DEF Held
      <3>4. CASE \E u \in Threads : w \in Range(owes'[u].wake)
        <4>1. PICK u \in Threads : w \in Range(owes'[u].wake)
          BY <3>4
        <4>2. Range(pool.wake) \subseteq pool.workers
          BY <1>4, <1>10
        <4>3. u # t
          BY <3>1, <4>1, <4>2, <1>5, <1>6
        <4>4. w \in Range(owes[u].wake)
          BY <4>1, <4>3, <1>6
        <4> QED BY <3>1, <4>4 DEF Held
      <3> QED BY <2>1, <3>3, <3>4 DEF Held
    <2>2. Held' \ workers' \subseteq Held \ workers
      BY <2>1
    <2> QED BY <2>2, SetsKept DEF StaffInv
  <1>15. AwakeInv'
    <2> SUFFICES ASSUME NEW w \in workers', w \notin Range(idle')
                 PROVE  w \in Running' \/ OnTheWay(w)'
      BY DEF AwakeInv, Awake
    <2>1. w \in Workers /\ w \in pool.workers /\ w \notin Range(pool.idle)
      BY <1>2, <1>4
    <2>2. CASE w \in Range(pool.wake)
      <3>1. w \in Range(owes'[t].wake)
        BY <2>2, <1>5, <1>6
      <3>2. (WokenUp(w))'
        BY <3>1 DEF WokenUp
      <3>3. w \in Range(idle) \/ w \in pool.workers \ workers
        BY <2>2, <1>4
      <3>4. pc[w] \in {"none", "wait", "get", "flush"}
        BY <2>1, <3>3, <1>9, <1>10
      <3>5. pc'[w] \in {"none", "wait", "get", "flush"}
        BY <3>4, <2>1, <1>7
      <3>6. pc'[w] = "none" => (StartOwed(w))'
        BY <1>13 DEF StartInv
      <3> QED BY <3>2, <3>5, <3>6 DEF OnTheWay
    <2>3. CASE w \notin Range(pool.wake)
      <3>1. w \in workers /\ w \notin Range(idle)
        BY <2>1, <2>3, <1>4
      <3>2. w \in Running \/ OnTheWay(w)
        BY <3>1 DEF StaffInv, AwakeInv, Awake
      <3>3. WokenUp(w) => (WokenUp(w))'
        <4>1. ASSUME NEW u \in Threads, w \in Range(owes[u].wake)
              PROVE  w \in Range(owes'[u].wake)
          BY <4>1, <1>6, <1>11
        <4> QED BY <4>1 DEF WokenUp
      <3>4. pc'[w] = "none" => (StartOwed(w))'
        BY <1>13 DEF StartInv
      <3>5. CASE pc'[w] = pc[w]
        BY <3>2, <3>3, <3>4, <3>5, <2>1 DEF OnTheWay, Running
      <3>6. CASE pc'[w] # pc[w]
        <4>1. pc'[w] \in {"run", "reset", "flush"}
          BY <3>6, <2>1, <1>7
        <4> QED BY <4>1, <2>1 DEF OnTheWay, Running
      <3> QED BY <3>5, <3>6
    <2> QED BY <2>2, <2>3
  <1>16. posted' \in BOOLEAN
    BY <1>2, <1>3
  <1> QED BY <1>2, <1>4, <1>6, <1>12, <1>13, <1>14, <1>15, <1>16

-----------------------------------------------------------------------------
(* The other steps, on the workers.                                        *)

StaffKept ==
    /\ workers' \in SUBSET Workers /\ idle' \in Seq(Workers)
    /\ owes' \in [Threads -> Works] /\ pc' \in [Workers -> PCs]
    /\ event' \subseteq workers'
    /\ IdleInv' /\ StartInv' /\ NamesInv' /\ AwakeInv'

LEMMA StaffTypes ==
    ASSUME StaffInv
    PROVE  /\ workers \subseteq Workers /\ idle \in Seq(Workers)
           /\ owes \in [Threads -> Works] /\ pc \in [Workers -> PCs]
           /\ event \subseteq workers
           /\ IdleInv /\ StartInv /\ NamesInv /\ AwakeInv
           /\ Range(idle) \subseteq workers
  BY DEF StaffInv, TypeOK, Works, IdleInv

LEMMA EnsuredStaffKept ==
    ASSUME StaffInv, NEW t \in Threads, owes[t] = Nothing,
           t \in Workers => pc[t] # "none",
           NEW pool, NEW q, NEW c, NEW alreadyPosted \in BOOLEAN,
           Ensured(t, pool, q, c, alreadyPosted),
           PlacesKept(t), event' = event
    PROVE  /\ StaffKept /\ workers \subseteq workers'
           /\ posted' \in BOOLEAN /\ minAllowed' \in Priorities
  BY EnsuredStaff, StaffTypes DEF StaffKept, PlacesKept

\* The executor of w has at most AdjustMaxTasks to post.
OwesLittle(w) ==
    /\ owes' \in [Threads -> Works]
    /\ \A t \in Threads : t # w => owes'[t] = owes[t]
    /\ owes'[w].wake = owes[w].wake /\ owes'[w].start = owes[w].start

\* A step of a worker that stays where it is in the group.
Moved(w, label) ==
    /\ workers' = workers /\ idle' = idle
    /\ pc' = [pc EXCEPT ![w] = label]
    /\ event \ {w} \subseteq event' /\ event' \subseteq event

LEMMA LittleFacts ==
    ASSUME NEW w \in Workers, OwesLittle(w)
    PROVE  /\ \A t \in Threads : /\ owes'[t].wake = owes[t].wake
                                 /\ owes'[t].start = owes[t].start
           /\ \A v \in Workers : v # w /\ v \in Held' => v \in Held
           /\ \A v : (StartOwed(v))' <=> StartOwed(v)
  <1>1. \A t \in Threads : /\ owes'[t].wake = owes[t].wake
                           /\ owes'[t].start = owes[t].start
    BY DEF OwesLittle
  <1>2. ASSUME NEW v \in Workers, v # w, v \in Held'
        PROVE  v \in Held
    <2>1. owes'[v] = owes[v]
      BY <1>2 DEF OwesLittle, Threads
    <2> QED BY <1>1, <1>2, <2>1 DEF Held
  <1>3. \A v : (StartOwed(v))' <=> StartOwed(v)
    BY <1>1 DEF StartOwed
  <1> QED BY <1>1, <1>2, <1>3

LEMMA MovedStaff ==
    ASSUME StaffInv, NEW w \in Workers, pc[w] # "none",
           NEW label \in PCs \ {"none"}, Moved(w, label), OwesLittle(w),
           w \in Range(idle) => label \in {"wait", "get", "flush"},
           label = "wait" => w \in Range(idle)
    PROVE  StaffKept
  <1>1. /\ workers \subseteq Workers /\ idle \in Seq(Workers)
        /\ pc \in [Workers -> PCs] /\ event \subseteq workers
        /\ Distinct(idle)
        /\ \A v \in Range(idle) :
              v \in workers /\ pc[v] \in {"none", "wait", "get", "flush"}
    BY StaffTypes DEF IdleInv
  <1>2. /\ workers' = workers /\ idle' = idle
        /\ pc' \in [Workers -> PCs] /\ pc'[w] = label
        /\ \A v \in Workers : v # w => pc'[v] = pc[v]
        /\ event \ {w} \subseteq event' /\ event' \subseteq event
        /\ w \in workers /\ owes' \in [Threads -> Works]
    BY <1>1 DEF Moved, OwesLittle, StaffInv, StartInv
  <1>3. /\ \A t \in Threads : /\ owes'[t].wake = owes[t].wake
                              /\ owes'[t].start = owes[t].start
        /\ \A v \in Workers : v # w /\ v \in Held' => v \in Held
        /\ \A v : (StartOwed(v))' <=> StartOwed(v)
    BY LittleFacts
  <1>4. \A v \in Workers : pc'[v] = "none" <=> pc[v] = "none"
    BY <1>2
  <1>5. IdleInv'
    BY <1>1, <1>2 DEF IdleInv
  <1>6. StartInv'
    BY <1>1, <1>2, <1>3, <1>4 DEF StaffInv, StartInv
  <1>7. NamesInv'
    <2>1. Held' \ workers' \subseteq Held \ workers
      BY <1>2, <1>3 DEF Held
    <2> QED BY <2>1, SetsKept DEF StaffInv
  <1>8. AwakeInv'
    <2> SUFFICES ASSUME NEW v \in workers', v \notin Range(idle')
                 PROVE  v \in Running' \/ OnTheWay(v)'
      BY DEF AwakeInv, Awake
    <2>1. v \in Workers /\ v \in workers /\ v \notin Range(idle)
      BY <1>1, <1>2
    <2>2. CASE v = w
      <3>1. pc'[v] \in {"get", "flush", "run", "upgrade", "reset"}
        BY <2>1, <2>2, <1>2 DEF PCs
      <3> QED BY <3>1, <2>1 DEF OnTheWay, Running
    <2>3. CASE v # w
      <3>1. v \in Running \/ OnTheWay(v)
        BY <2>1 DEF StaffInv, AwakeInv, Awake
      <3>2. pc'[v] = pc[v]
        BY <2>1, <2>3, <1>2
      <3>3. WokenUp(v) => (WokenUp(v))'
        BY <2>3, <1>2, <1>3 DEF WokenUp
      <3> QED BY <3>1, <3>2, <3>3, <2>1, <1>3 DEF OnTheWay, Running
    <2> QED BY <2>2, <2>3
  <1> QED BY <1>1, <1>2, <1>5, <1>6, <1>7, <1>8 DEF StaffKept

LEMMA CleanupStaff ==
    ASSUME StaffInv, NEW w \in Workers, pc[w] # "none", Cleanup(w),
           OwesLittle(w)
    PROVE  /\ StaffKept /\ w \in Range(idle)
           /\ \A v : v \in Range(idle') <=> v \in Range(idle) /\ v # w
           /\ NumAwakeWorkers' = NumAwakeWorkers
  <1>1. /\ workers \subseteq Workers /\ idle \in Seq(Workers)
        /\ pc \in [Workers -> PCs] /\ event \subseteq workers
        /\ Distinct(idle)
        /\ \A v \in Range(idle) :
              v \in workers /\ pc[v] \in {"none", "wait", "get", "flush"}
    BY StaffTypes DEF IdleInv
  <1>2. /\ workers' = workers \ {w} /\ event' = event \ {w}
        /\ pc' \in [Workers -> PCs] /\ pc'[w] = "none"
        /\ \A v \in Workers : v # w => pc'[v] = pc[v]
        /\ owes' \in [Threads -> Works]
    BY <1>1 DEF Cleanup, Goto, PCs, OwesLittle
  <1>3. PICK i \in 1..(Len(idle) - 1) : idle[i] = w /\ idle' = RemoveAt(idle, i)
    BY DEF Cleanup
  <1>4. i \in 1..Len(idle)
    <2>1. Len(idle) \in Nat
      BY <1>1, LenProperties
    <2> QED BY <2>1
  <1>5. /\ idle' \in Seq(Workers) /\ Distinct(idle')
        /\ Range(idle') = Range(idle) \ {w} /\ w \in Range(idle)
        /\ Len(idle) \in Nat /\ Len(idle') = Len(idle) - 1
    BY <1>1, <1>3, <1>4, RemoveAtDistinct
  <1>6. /\ \A t \in Threads : /\ owes'[t].wake = owes[t].wake
                              /\ owes'[t].start = owes[t].start
        /\ \A v : (StartOwed(v))' <=> StartOwed(v)
    BY LittleFacts
  <1>7. IdleInv'
    BY <1>1, <1>2, <1>5 DEF IdleInv
  <1>8. StartInv'
    <2>1. \A t \in Threads : \A v \in Range(owes[t].start) :
             v \in workers /\ pc[v] = "none"
      BY DEF StaffInv, StartInv
    <2>2. \A t \in Threads : w \notin Range(owes[t].start)
      BY <2>1
    <2>3. \A t \in Threads : \A v \in Range(owes'[t].start) :
             v \in workers' /\ pc'[v] = "none"
      BY <2>1, <2>2, <1>1, <1>2, <1>6
    <2>4. \A v \in Workers : pc'[v] # "none" => v \in workers'
      BY <1>2 DEF StaffInv, StartInv
    <2>5. \A v \in workers' : pc'[v] = "none" => (StartOwed(v))'
      BY <1>1, <1>2, <1>6 DEF StaffInv, StartInv
    <2> QED BY <2>3, <2>4, <2>5, <1>6 DEF StaffInv, StartInv
  <1>9. NamesInv'
    BY DEF Cleanup, NamesInv
  <1>10. AwakeInv'
    <2> SUFFICES ASSUME NEW v \in workers', v \notin Range(idle')
                 PROVE  v \in Running' \/ OnTheWay(v)'
      BY DEF AwakeInv, Awake
    <2>1. v \in Workers /\ v \in workers /\ v \notin Range(idle) /\ v # w
      BY <1>1, <1>2, <1>5
    <2>2. v \in Running \/ OnTheWay(v)
      BY <2>1 DEF StaffInv, AwakeInv, Awake
    <2>3. pc'[v] = pc[v] /\ (WokenUp(v) => (WokenUp(v))')
      BY <2>1, <1>2, <1>6 DEF WokenUp
    <2> QED BY <2>1, <2>2, <2>3, <1>6 DEF OnTheWay, Running
  <1>11. NumAwakeWorkers' = NumAwakeWorkers
    <2>1. IsFiniteSet(workers) /\ w \in workers
      BY <1>1, <1>5, FS_Subset, ThreadsAssumption
    <2> DEFINE m == Cardinality(workers)
               l == Len(idle)
    <2>2. /\ Cardinality(workers') = m - 1 /\ m \in Nat
          /\ l \in Nat /\ Len(idle') = l - 1
      BY <2>1, <1>2, <1>5, FS_RemoveElement, FS_CardinalityType
    <2> HIDE DEF m, l
    <2>3. (m - 1) - (l - 1) = m - l
      BY <2>2
    <2> QED BY <2>2, <2>3 DEF NumAwakeWorkers, m, l
  <1> QED BY <1>1, <1>2, <1>5, <1>7, <1>8, <1>9, <1>10, <1>11 DEF StaffKept

LEMMA BecomeIdleStaff ==
    ASSUME StaffInv, NEW w \in Workers, pc[w] \in {"get", "flush"},
           BecomeIdle(w), OwesLittle(w)
    PROVE  /\ StaffKept /\ w \notin Range(idle) /\ w \in workers
           /\ Range(idle') = Range(idle) \cup {w}
           /\ NumAwakeWorkers' = NumAwakeWorkers - 1
  <1>1. /\ workers \subseteq Workers /\ idle \in Seq(Workers)
        /\ pc \in [Workers -> PCs] /\ event \subseteq workers
        /\ Distinct(idle)
        /\ \A v \in Range(idle) :
              v \in workers /\ pc[v] \in {"none", "wait", "get", "flush"}
    BY StaffTypes DEF IdleInv
  <1>2. /\ workers' = workers /\ event' = event /\ w \notin Range(idle)
        /\ pc' \in [Workers -> PCs] /\ pc'[w] = "wait"
        /\ \A v \in Workers : v # w => pc'[v] = pc[v]
        /\ owes' \in [Threads -> Works] /\ idle' = Append(idle, w)
        /\ w \in workers
    BY <1>1 DEF BecomeIdle, Goto, PCs, OwesLittle, StaffInv, StartInv
  <1>3. /\ idle' \in Seq(Workers) /\ Distinct(idle')
        /\ Range(idle') = Range(idle) \cup {w}
        /\ Len(idle) \in Nat /\ Len(idle') = Len(idle) + 1
    BY <1>1, <1>2, AppendDistinct
  <1>4. /\ \A t \in Threads : /\ owes'[t].wake = owes[t].wake
                              /\ owes'[t].start = owes[t].start
        /\ \A v \in Workers : v # w /\ v \in Held' => v \in Held
        /\ \A v : (StartOwed(v))' <=> StartOwed(v)
    BY LittleFacts
  <1>5. \A v \in Workers : pc'[v] = "none" <=> pc[v] = "none"
    BY <1>2
  <1>6. IdleInv'
    BY <1>1, <1>2, <1>3 DEF IdleInv
  <1>7. StartInv'
    BY <1>1, <1>2, <1>4, <1>5 DEF StaffInv, StartInv
  <1>8. NamesInv'
    <2>1. Held' \ workers' \subseteq Held \ workers
      BY <1>2, <1>4 DEF Held
    <2> QED BY <2>1, SetsKept DEF StaffInv
  <1>9. AwakeInv'
    <2> SUFFICES ASSUME NEW v \in workers', v \notin Range(idle')
                 PROVE  v \in Running' \/ OnTheWay(v)'
      BY DEF AwakeInv, Awake
    <2>1. v \in Workers /\ v \in workers /\ v \notin Range(idle) /\ v # w
      BY <1>1, <1>2, <1>3
    <2>2. v \in Running \/ OnTheWay(v)
      BY <2>1 DEF StaffInv, AwakeInv, Awake
    <2>3. pc'[v] = pc[v] /\ (WokenUp(v) => (WokenUp(v))')
      BY <2>1, <1>2, <1>4 DEF WokenUp
    <2> QED BY <2>1, <2>2, <2>3, <1>4 DEF OnTheWay, Running
  <1>10. NumAwakeWorkers' = NumAwakeWorkers - 1
    <2>1. Cardinality(workers) \in Nat
      BY <1>1, FS_Subset, FS_CardinalityType, ThreadsAssumption
    <2> DEFINE m == Cardinality(workers)
               l == Len(idle)
    <2>2. Cardinality(workers') = m /\ m \in Nat /\ l \in Nat /\ Len(idle') = l + 1
      BY <2>1, <1>2, <1>3
    <2> HIDE DEF m, l
    <2>3. m - (l + 1) = m - l - 1
      BY <2>2
    <2> QED BY <2>2, <2>3 DEF NumAwakeWorkers, m, l
  <1> QED BY <1>1, <1>2, <1>3, <1>6, <1>7, <1>8, <1>9, <1>10 DEF StaffKept

LEMMA FlushWakeUpStaff ==
    ASSUME StaffInv, NEW t \in Threads, FlushWakeUp(t)
    PROVE  StaffKept /\ NumAwakeWorkers' = NumAwakeWorkers
  <1>1. /\ workers \subseteq Workers /\ idle \in Seq(Workers)
        /\ owes \in [Threads -> Works]
        /\ pc \in [Workers -> PCs] /\ event \subseteq workers
    BY StaffTypes
  <1> DEFINE h == Head(owes[t].wake)
  <1>2. /\ workers' = workers /\ idle' = idle /\ pc' = pc
        /\ owes[t].wake # <<>> /\ event' = event \cup ({h} \cap workers)
        /\ owes' = [owes EXCEPT ![t].wake = Tail(@)]
    BY DEF FlushWakeUp, group
  <1>3. /\ owes[t] \in Works /\ owes[t].wake \in Seq(Workers)
        /\ owes[t].start \in Seq(Workers) /\ owes[t].adjust \in BOOLEAN
    BY OwesTyped DEF StaffInv
  <1>4. /\ Tail(owes[t].wake) \in Seq(Workers)
        /\ Range(owes[t].wake) = Range(Tail(owes[t].wake)) \cup {h}
    BY <1>2, <1>3, TailDistinct
  <1> HIDE DEF h
  <1>5. /\ owes' \in [Threads -> Works]
        /\ owes'[t].wake = Tail(owes[t].wake)
        /\ \A u \in Threads : /\ owes'[u].start = owes[u].start
                              /\ u # t => owes'[u] = owes[u]
    BY <1>1, <1>2, <1>3, <1>4 DEF Works
  <1>6. \A u \in Threads : Range(owes'[u].wake) \subseteq Range(owes[u].wake)
    BY <1>4, <1>5
  <1>7. \A v : (StartOwed(v))' <=> StartOwed(v)
    BY <1>5 DEF StartOwed
  <1>8. IdleInv' /\ StartInv'
    BY <1>2, <1>5, <1>7 DEF StaffInv, IdleInv, StartInv
  <1>9. NamesInv'
    <2>1. ASSUME NEW v \in Held' PROVE v \in Held
      <3>1. v \in Workers /\ v \in Threads
        BY <2>1 DEF Held, Threads
      <3>2. CASE owes'[v] # Nothing
        <4>1. owes[v] # Nothing
          BY <3>1, <3>2, <1>2, <1>5, NothingFacts
        <4> QED BY <3>1, <4>1 DEF Held
      <3>3. CASE \E u \in Threads : v \in Range(owes'[u].wake)
        BY <3>1, <3>3, <1>6 DEF Held
      <3> QED BY <2>1, <3>2, <3>3 DEF Held
    <2>2. Held' \ workers' \subseteq Held \ workers
      BY <2>1, <1>2
    <2> QED BY <2>2, SetsKept DEF StaffInv
  <1>10. AwakeInv'
    <2> SUFFICES ASSUME NEW v \in workers', v \notin Range(idle')
                 PROVE  v \in Running' \/ OnTheWay(v)'
      BY DEF AwakeInv, Awake
    <2>1. v \in Workers /\ v \in workers /\ v \notin Range(idle)
      BY <1>1, <1>2
    <2>2. v \in Running \/ OnTheWay(v)
      BY <2>1 DEF StaffInv, AwakeInv, Awake
    <2>3. WokenUp(v) => (WokenUp(v))'
      <3>1. ASSUME NEW u \in Threads, v \in Range(owes[u].wake)
            PROVE  v \in Range(owes'[u].wake) \/ v \in event'
        BY <3>1, <2>1, <1>2, <1>4, <1>5
      <3> QED BY <3>1, <1>2 DEF WokenUp
    <2> QED BY <2>1, <2>2, <2>3, <1>2, <1>7 DEF OnTheWay, Running
  <1> QED BY <1>1, <1>2, <1>5, <1>8, <1>9, <1>10 DEF StaffKept, NumAwakeWorkers

LEMMA FlushStartStaff ==
    ASSUME StaffInv, NEW t \in Threads, FlushStart(t)
    PROVE  /\ StaffKept /\ NumAwakeWorkers' = NumAwakeWorkers
           /\ Head(owes[t].start) \in workers
           /\ pc[Head(owes[t].start)] = "none"
  <1>1. /\ workers \subseteq Workers /\ idle \in Seq(Workers)
        /\ owes \in [Threads -> Works]
        /\ pc \in [Workers -> PCs] /\ event \subseteq workers
    BY StaffTypes
  <1> DEFINE h == Head(owes[t].start)
  <1>2. /\ workers' = workers /\ idle' = idle /\ pc' = [pc EXCEPT ![h] = "wait"]
        /\ owes[t].start # <<>> /\ event' = event
        /\ owes' = [owes EXCEPT ![t].start = Tail(@)]
    BY DEF FlushStart, group
  <1>3. /\ owes[t] \in Works /\ owes[t].wake \in Seq(Workers)
        /\ owes[t].start \in Seq(Workers) /\ owes[t].adjust \in BOOLEAN
    BY OwesTyped DEF StaffInv
  <1>4. /\ Tail(owes[t].start) \in Seq(Workers)
        /\ Range(owes[t].start) = Range(Tail(owes[t].start)) \cup {h}
        /\ Distinct(Tail(owes[t].start)) /\ h \notin Range(Tail(owes[t].start))
    BY <1>2, <1>3, TailDistinct DEF StaffInv, StartInv
  <1> HIDE DEF h
  <1>5. /\ owes' \in [Threads -> Works]
        /\ owes'[t].start = Tail(owes[t].start)
        /\ \A u \in Threads : /\ owes'[u].wake = owes[u].wake
                              /\ u # t => owes'[u] = owes[u]
    BY <1>1, <1>2, <1>3, <1>4 DEF Works
  <1>6. /\ \A u \in Threads :
              /\ Distinct(owes[u].start)
              /\ \A w \in Range(owes[u].start) : w \in workers /\ pc[w] = "none"
        /\ \A u, v \in Threads :
              u # v => Range(owes[u].start) \cap Range(owes[v].start) = {}
    BY DEF StaffInv, StartInv
  <1>7. h \in workers /\ h \in Workers /\ pc[h] = "none"
    BY <1>1, <1>4, <1>6
  <1>8. /\ pc' \in [Workers -> PCs] /\ pc'[h] = "wait"
        /\ \A v \in Workers : v # h => pc'[v] = pc[v]
    BY <1>1, <1>2, <1>7 DEF PCs
  <1>9. \A u \in Threads : /\ Range(owes'[u].start) \subseteq Range(owes[u].start)
                           /\ h \notin Range(owes'[u].start)
                           /\ Distinct(owes'[u].start)
    BY <1>4, <1>5, <1>6
  <1>10. \A v : v # h /\ StartOwed(v) => (StartOwed(v))'
    <2>1. ASSUME NEW v, v # h, NEW u \in Threads, v \in Range(owes[u].start)
          PROVE  v \in Range(owes'[u].start)
      BY <2>1, <1>4, <1>5
    <2> QED BY <2>1 DEF StartOwed
  <1>11. IdleInv'
    BY <1>1, <1>2, <1>8 DEF StaffInv, IdleInv
  <1>12. StartInv'
    <2>1. \A w \in Workers : pc'[w] # "none" => w \in workers'
      BY <1>2, <1>7, <1>8 DEF StaffInv, StartInv
    <2>2. \A w \in workers' : pc'[w] = "none" => (StartOwed(w))'
      BY <1>1, <1>2, <1>8, <1>10 DEF StaffInv, StartInv
    <2>3. ASSUME NEW u \in Threads, NEW w \in Range(owes'[u].start)
          PROVE  w \in workers' /\ pc'[w] = "none"
      <3>1. w \in Range(owes[u].start) /\ w # h
        BY <2>3, <1>9
      <3>2. w \in workers /\ pc[w] = "none"
        BY <3>1, <1>6
      <3> QED BY <3>1, <3>2, <1>1, <1>2, <1>8
    <2>4. \A u, v \in Threads :
             u # v => Range(owes'[u].start) \cap Range(owes'[v].start) = {}
      BY <1>6, <1>9
    <2> QED BY <2>1, <2>2, <2>3, <2>4, <1>9 DEF StartInv
  <1>13. NamesInv'
    <2>1. ASSUME NEW v \in Held' PROVE v \in Held
      <3>1. v \in Workers /\ v \in Threads
        BY <2>1 DEF Held, Threads
      <3>2. CASE owes'[v] # Nothing
        <4>1. owes[v] # Nothing
          BY <3>1, <3>2, <1>2, <1>5, NothingFacts
        <4> QED BY <3>1, <4>1 DEF Held
      <3>3. CASE \E u \in Threads : v \in Range(owes'[u].wake)
        BY <3>1, <3>3, <1>5 DEF Held
      <3> QED BY <2>1, <3>2, <3>3 DEF Held
    <2>2. Held' \ workers' \subseteq Held \ workers
      BY <2>1, <1>2
    <2> QED BY <2>2, SetsKept DEF StaffInv
  <1>14. AwakeInv'
    <2> SUFFICES ASSUME NEW v \in workers', v \notin Range(idle')
                 PROVE  v \in Running' \/ OnTheWay(v)'
      BY DEF AwakeInv, Awake
    <2>1. v \in Workers /\ v \in workers /\ v \notin Range(idle)
      BY <1>1, <1>2
    <2>2. v \in Running \/ OnTheWay(v)
      BY <2>1 DEF StaffInv, AwakeInv, Awake
    <2>3. WokenUp(v) => (WokenUp(v))'
      BY <1>2, <1>5 DEF WokenUp
    <2>4. CASE v = h
      <3>1. WokenUp(v)
        BY <2>2, <2>4, <1>7 DEF OnTheWay, Running
      <3> QED BY <3>1, <2>3, <2>4, <1>8 DEF OnTheWay
    <2>5. CASE v # h
      BY <2>1, <2>2, <2>3, <2>5, <1>2, <1>8, <1>10 DEF OnTheWay, Running
    <2> QED BY <2>4, <2>5
  <1> QED BY <1>1, <1>2, <1>5, <1>7, <1>8, <1>11, <1>12, <1>13, <1>14
          DEF StaffKept, NumAwakeWorkers, h

LEMMA ScheduleAdjustStaff ==
    ASSUME StaffInv, NEW t \in Threads, ScheduleAdjustMaxTasks(t)
    PROVE  StaffKept /\ NumAwakeWorkers' = NumAwakeWorkers
  <1>1. /\ workers \subseteq Workers /\ idle \in Seq(Workers)
        /\ owes \in [Threads -> Works]
        /\ pc \in [Workers -> PCs] /\ event \subseteq workers
    BY StaffTypes
  <1>2. /\ workers' = workers /\ idle' = idle /\ pc' = pc /\ event' = event
        /\ owes[t].wake = <<>> /\ owes[t].start = <<>> /\ owes[t].adjust
        /\ owes' = [owes EXCEPT ![t] = Nothing]
    BY DEF ScheduleAdjustMaxTasks, group
  <1>3. /\ owes' \in [Threads -> Works]
        /\ \A u \in Threads : /\ owes'[u].start = owes[u].start
                              /\ owes'[u].wake = owes[u].wake
                              /\ u # t => owes'[u] = owes[u]
    BY <1>1, <1>2, NothingFacts
  <1>4. \A v : (StartOwed(v))' <=> StartOwed(v)
    BY <1>3 DEF StartOwed
  <1>5. IdleInv' /\ StartInv'
    BY <1>2, <1>3, <1>4 DEF StaffInv, IdleInv, StartInv
  <1>6. NamesInv'
    <2>1. ASSUME NEW v \in Held' PROVE v \in Held
      <3>1. v \in Workers /\ v \in Threads
        BY <2>1 DEF Held, Threads
      <3>2. owes'[v] # Nothing => owes[v] # Nothing
        BY <3>1, <1>1, <1>2, <1>3
      <3> QED BY <2>1, <3>1, <3>2, <1>3 DEF Held
    <2>2. Held' \ workers' \subseteq Held \ workers
      BY <2>1, <1>2
    <2> QED BY <2>2, SetsKept DEF StaffInv
  <1>7. AwakeInv'
    <2>1. \A v : WokenUp(v) => (WokenUp(v))'
      BY <1>2, <1>3 DEF WokenUp
    <2> QED BY <2>1, <1>2, <1>4
            DEF StaffInv, AwakeInv, Awake, OnTheWay, Running
  <1> QED BY <1>1, <1>2, <1>3, <1>5, <1>6, <1>7 DEF StaffKept, NumAwakeWorkers

LEMMA UnchangedStaff ==
    ASSUME StaffInv, UNCHANGED <<workers, idle, owes, pc, event>>
    PROVE  StaffKept /\ NumAwakeWorkers' = NumAwakeWorkers
  <1>1. \A v : /\ (StartOwed(v))' <=> StartOwed(v)
               /\ (WokenUp(v))' <=> WokenUp(v)
    BY DEF StartOwed, WokenUp
  <1>2. IdleInv' /\ StartInv'
    BY <1>1 DEF StaffInv, IdleInv, StartInv
  <1>3. Held' = Held
    BY DEF Held
  <1>4. NamesInv'
    BY <1>3 DEF StaffInv, NamesInv
  <1>5. AwakeInv'
    BY <1>1 DEF StaffInv, AwakeInv, Awake, OnTheWay, Running
  <1> QED BY <1>2, <1>4, <1>5, StaffTypes DEF StaffKept, NumAwakeWorkers

-----------------------------------------------------------------------------
(* The counters.                                                           *)

\* One worker comes into a set or leaves it.
LEMMA OneChanges ==
    ASSUME NEW w \in Workers, NEW A \in SUBSET Workers, NEW B \in SUBSET Workers,
           \A v \in Workers : v # w => (v \in A <=> v \in B)
    PROVE  /\ Cardinality(A) \in Nat /\ Cardinality(B) \in Nat
           /\ Cardinality(B) = Cardinality(A) + One(w \in B) - One(w \in A)
           /\ w \in A => Cardinality(A) > 0
  <1>1. IsFiniteSet(A) /\ IsFiniteSet(B)
    BY FS_Subset, ThreadsAssumption
  <1>2. Cardinality(A) \in Nat /\ Cardinality(B) \in Nat
    BY <1>1, FS_CardinalityType
  <1>3. CASE w \in A /\ w \in B
    <2>1. A = B
      BY <1>3
    <2> QED BY <2>1, <1>2, <1>3, <1>1, FS_EmptySet DEF One
  <1>4. CASE w \notin A /\ w \notin B
    <2>1. A = B
      BY <1>4
    <2> QED BY <2>1, <1>2, <1>4 DEF One
  <1>5. CASE w \in A /\ w \notin B
    <2>1. B = A \ {w}
      BY <1>5
    <2>2. Cardinality(B) = Cardinality(A) - 1
      BY <2>1, <1>1, <1>5, FS_RemoveElement
    <2> QED BY <2>2, <1>2, <1>5 DEF One
  <1>6. CASE w \notin A /\ w \in B
    <2>1. B = A \cup {w}
      BY <1>6
    <2>2. Cardinality(B) = Cardinality(A) + 1
      BY <2>1, <1>1, <1>6, FS_AddElement
    <2> QED BY <2>2, <1>2, <1>6 DEF One
  <1> QED BY <1>3, <1>4, <1>5, <1>6

Blocked == In(Blocks \ {"none"})
Counted == In({"counted"})

LEMMA SetTypes ==
    /\ Running \in SUBSET Workers /\ OfBestEffort(Running) \in SUBSET Workers
    /\ In(Unresolved) \in SUBSET Workers
    /\ OfBestEffort(In(Unresolved)) \in SUBSET Workers
    /\ Counted \in SUBSET Workers /\ OfBestEffort(Counted) \in SUBSET Workers
  BY DEF Running, OfBestEffort, In, Counted

\* The sets that are counted, after a step of w.
OnlyOf(w) ==
    \A v \in Workers :
       v # w => /\ pc'[v] = pc[v] \/ {pc[v], pc'[v]} \cap {"run", "upgrade"} = {}
                /\ task'[v] = task[v] /\ block'[v] = block[v]

LEMMA SetsChange ==
    ASSUME NEW w \in Workers, OnlyOf(w)
    PROVE  /\ Cardinality(Running)' = Cardinality(Running)
                 + One(w \in Running') - One(w \in Running)
           /\ Cardinality(OfBestEffort(Running))'
                 = Cardinality(OfBestEffort(Running))
                      + One(w \in OfBestEffort(Running)')
                      - One(w \in OfBestEffort(Running))
           /\ Cardinality(In(Unresolved))' = Cardinality(In(Unresolved))
                 + One(w \in In(Unresolved)') - One(w \in In(Unresolved))
           /\ Cardinality(OfBestEffort(In(Unresolved)))'
                 = Cardinality(OfBestEffort(In(Unresolved)))
                      + One(w \in OfBestEffort(In(Unresolved))')
                      - One(w \in OfBestEffort(In(Unresolved)))
           /\ Cardinality(Counted)' = Cardinality(Counted)
                 + One(w \in Counted') - One(w \in Counted)
           /\ Cardinality(OfBestEffort(Counted))'
                 = Cardinality(OfBestEffort(Counted))
                      + One(w \in OfBestEffort(Counted)')
                      - One(w \in OfBestEffort(Counted))
  <1>1. /\ Running' \in SUBSET Workers /\ OfBestEffort(Running)' \in SUBSET Workers
        /\ In(Unresolved)' \in SUBSET Workers
        /\ OfBestEffort(In(Unresolved))' \in SUBSET Workers
        /\ Counted' \in SUBSET Workers /\ OfBestEffort(Counted)' \in SUBSET Workers
    BY DEF Running, OfBestEffort, In, Counted
  <1>2. \A v \in Workers :
           v # w => /\ v \in Running <=> v \in Running'
                    /\ v \in OfBestEffort(Running)
                          <=> v \in OfBestEffort(Running)'
                    /\ v \in In(Unresolved) <=> v \in In(Unresolved)'
                    /\ v \in OfBestEffort(In(Unresolved))
                          <=> v \in OfBestEffort(In(Unresolved))'
                    /\ v \in Counted <=> v \in Counted'
                    /\ v \in OfBestEffort(Counted)
                          <=> v \in OfBestEffort(Counted)'
    BY DEF OnlyOf, Running, OfBestEffort, In, Counted
  <1>3. /\ \A v \in Workers : v # w => (v \in Running <=> v \in Running')
        /\ \A v \in Workers : v # w => (v \in OfBestEffort(Running)
                                          <=> v \in OfBestEffort(Running)')
        /\ \A v \in Workers : v # w => (v \in In(Unresolved)
                                          <=> v \in In(Unresolved)')
        /\ \A v \in Workers : v # w => (v \in OfBestEffort(In(Unresolved))
                                          <=> v \in OfBestEffort(In(Unresolved))')
        /\ \A v \in Workers : v # w => (v \in Counted <=> v \in Counted')
        /\ \A v \in Workers : v # w => (v \in OfBestEffort(Counted)
                                          <=> v \in OfBestEffort(Counted)')
    BY <1>2
  <1>4. Cardinality(Running)' = Cardinality(Running)
           + One(w \in Running') - One(w \in Running)
    BY <1>1, <1>3, SetTypes, OneChanges
  <1>5. Cardinality(OfBestEffort(Running))'
           = Cardinality(OfBestEffort(Running))
                + One(w \in OfBestEffort(Running)')
                - One(w \in OfBestEffort(Running))
    BY <1>1, <1>3, SetTypes, OneChanges
  <1>6. Cardinality(In(Unresolved))' = Cardinality(In(Unresolved))
           + One(w \in In(Unresolved)') - One(w \in In(Unresolved))
    BY <1>1, <1>3, SetTypes, OneChanges
  <1>7. Cardinality(OfBestEffort(In(Unresolved)))'
           = Cardinality(OfBestEffort(In(Unresolved)))
                + One(w \in OfBestEffort(In(Unresolved))')
                - One(w \in OfBestEffort(In(Unresolved)))
    BY <1>1, <1>3, SetTypes, OneChanges
  <1>8. Cardinality(Counted)' = Cardinality(Counted)
           + One(w \in Counted') - One(w \in Counted)
    BY <1>1, <1>3, SetTypes, OneChanges
  <1>9. Cardinality(OfBestEffort(Counted))'
           = Cardinality(OfBestEffort(Counted))
                + One(w \in OfBestEffort(Counted)')
                - One(w \in OfBestEffort(Counted))
    BY <1>1, <1>3, SetTypes, OneChanges
  <1> QED BY <1>4, <1>5, <1>6, <1>7, <1>8, <1>9

CountsKept == count' \in Counters /\ CountsExact' /\ (count.max # 0 => count'.max # 0)

LEMMA InitialLimits ==
    /\ InitialMaxTasks \in Nat /\ InitialMaxTasks > 0
    /\ InitialMaxBestEffort \in Nat /\ InitialMaxBestEffort > 0
    /\ MaxWorkers \in Nat
  <1>1. MaxWorkers \in Nat /\ InitialMaxTasks \in 1..MaxWorkers
    BY LimitsAssumption
  <1>2. InitialMaxTasks \in Nat /\ InitialMaxTasks > 0
    BY <1>1
  <1>3. InitialMaxBestEffort \in 1..InitialMaxTasks
    BY LimitsAssumption
  <1> QED BY <1>1, <1>2, <1>3

LEMMA CountsStay ==
    ASSUME StaffInv, count' = count, task' = task, block' = block,
           \A v \in Workers :
              pc'[v] = pc[v] \/ {pc[v], pc'[v]} \cap {"run", "upgrade"} = {}
    PROVE  CountsKept
  <1>1. Running' = Running
    BY DEF Running
  <1>2. /\ OfBestEffort(Running)' = OfBestEffort(Running)
        /\ OfBestEffort(In(Unresolved))' = OfBestEffort(In(Unresolved))
        /\ OfBestEffort(In({"counted"}))' = OfBestEffort(In({"counted"}))
        /\ In(Unresolved)' = In(Unresolved)
        /\ In({"counted"})' = In({"counted"})
        /\ In(Blocks \ {"none"})' = In(Blocks \ {"none"})
    BY <1>1 DEF OfBestEffort, In
  <1> QED BY <1>1, <1>2 DEF CountsKept, CountsExact, StaffInv, TypeOK

\* What the counters do with a worker in Running, Unresolved and Counted.
Follows(w) ==
    /\ count'.running = count.running
          + One(w \in Running') - One(w \in Running)
    /\ count'.runningBE = count.runningBE
          + One(w \in OfBestEffort(Running)')
          - One(w \in OfBestEffort(Running))
    /\ count'.unresolved = count.unresolved
          + One(w \in In(Unresolved)') - One(w \in In(Unresolved))
    /\ count'.unresolvedBE = count.unresolvedBE
          + One(w \in OfBestEffort(In(Unresolved))')
          - One(w \in OfBestEffort(In(Unresolved)))
    /\ count'.max = count.max + One(w \in Counted') - One(w \in Counted)
    /\ count'.maxBE = count.maxBE
          + One(w \in OfBestEffort(Counted)') - One(w \in OfBestEffort(Counted))

AnyCounters == [running : Int, runningBE : Int, max : Int, maxBE : Int,
                unresolved : Int, unresolvedBE : Int]

LEMMA CountsFollow ==
    ASSUME StaffInv, NEW w \in Workers, pc[w] # "none", OnlyOf(w), Follows(w),
           count' \in AnyCounters,
           block'[w] \in Blocks, block'[w] # "none" => pc'[w] \in {"run", "upgrade"}
    PROVE  CountsKept /\ count.max # 0 /\ count'.max # 0
  <1>1. count.max # 0
    BY DEF StaffInv, StartInv, StartedInv
  <1>2. /\ count.running = Cardinality(Running)
        /\ count.runningBE = Cardinality(OfBestEffort(Running))
        /\ count.unresolved = Cardinality(In(Unresolved))
        /\ count.unresolvedBE = Cardinality(OfBestEffort(In(Unresolved)))
        /\ count.max = InitialMaxTasks + Cardinality(Counted)
        /\ count.maxBE = InitialMaxBestEffort
                            + Cardinality(OfBestEffort(Counted))
        /\ In(Blocks \ {"none"}) \subseteq Running
    BY <1>1 DEF StaffInv, CountsExact, Counted
  <1>3. /\ Cardinality(Running) \in Nat
        /\ Cardinality(OfBestEffort(Running)) \in Nat
        /\ Cardinality(In(Unresolved)) \in Nat
        /\ Cardinality(OfBestEffort(In(Unresolved))) \in Nat
        /\ Cardinality(Counted) \in Nat
        /\ Cardinality(OfBestEffort(Counted)) \in Nat
    BY SetTypes, FS_Subset, FS_CardinalityType, ThreadsAssumption
  <1>4. /\ Cardinality(Running') \in Nat
        /\ Cardinality(OfBestEffort(Running)') \in Nat
        /\ Cardinality(In(Unresolved)') \in Nat
        /\ Cardinality(OfBestEffort(In(Unresolved))') \in Nat
        /\ Cardinality(Counted') \in Nat
        /\ Cardinality(OfBestEffort(Counted)') \in Nat
    <2>1. /\ Running' \in SUBSET Workers /\ OfBestEffort(Running)' \in SUBSET Workers
          /\ In(Unresolved)' \in SUBSET Workers
          /\ OfBestEffort(In(Unresolved))' \in SUBSET Workers
          /\ Counted' \in SUBSET Workers
          /\ OfBestEffort(Counted)' \in SUBSET Workers
      BY DEF Running, OfBestEffort, In, Counted
    <2> QED BY <2>1, FS_Subset, FS_CardinalityType, ThreadsAssumption
  <1>5. \A b \in BOOLEAN : One(b) \in {0, 1}
    BY DEF One
  <1>6. count'.running = Cardinality(Running') /\ count'.running \in Nat
    BY <1>2, <1>3, <1>4, <1>5, SetsChange DEF Follows
  <1>7. /\ count'.runningBE = Cardinality(OfBestEffort(Running)')
        /\ count'.runningBE \in Nat
    BY <1>2, <1>3, <1>4, <1>5, SetsChange DEF Follows
  <1>8. /\ count'.unresolved = Cardinality(In(Unresolved)')
        /\ count'.unresolved \in Nat
    BY <1>2, <1>3, <1>4, <1>5, SetsChange DEF Follows
  <1>9. /\ count'.unresolvedBE = Cardinality(OfBestEffort(In(Unresolved))')
        /\ count'.unresolvedBE \in Nat
    BY <1>2, <1>3, <1>4, <1>5, SetsChange DEF Follows
  <1>10. /\ count'.max = InitialMaxTasks + Cardinality(Counted')
         /\ count'.max \in Nat /\ count'.max # 0
    <2> DEFINE a == Cardinality(Counted)
               b == Cardinality(Counted')
               x == One(w \in Counted')
               y == One(w \in Counted)
    <2>1. a \in Nat /\ b \in Nat /\ x \in {0, 1} /\ y \in {0, 1}
      BY <1>3, <1>4 DEF One
    <2>2. b = a + x - y
      BY SetsChange
    <2>3. count'.max = InitialMaxTasks + a + x - y
      BY <1>2 DEF Follows
    <2> HIDE DEF a, b, x, y
    <2>4. count'.max = InitialMaxTasks + b
      BY <2>1, <2>2, <2>3, InitialLimits
    <2> QED BY <2>1, <2>4, InitialLimits DEF b
  <1>11. /\ count'.maxBE = InitialMaxBestEffort
                              + Cardinality(OfBestEffort(Counted)')
         /\ count'.maxBE \in Nat
    <2> DEFINE a == Cardinality(OfBestEffort(Counted))
               b == Cardinality(OfBestEffort(Counted)')
               x == One(w \in OfBestEffort(Counted)')
               y == One(w \in OfBestEffort(Counted))
    <2>1. a \in Nat /\ b \in Nat /\ x \in {0, 1} /\ y \in {0, 1}
      BY <1>3, <1>4 DEF One
    <2>2. b = a + x - y
      BY SetsChange
    <2>3. count'.maxBE = InitialMaxBestEffort + a + x - y
      BY <1>2 DEF Follows
    <2> HIDE DEF a, b, x, y
    <2>4. count'.maxBE = InitialMaxBestEffort + b
      BY <2>1, <2>2, <2>3, InitialLimits
    <2> QED BY <2>1, <2>4, InitialLimits DEF b
  <1>12. count' \in Counters
    BY <1>6, <1>7, <1>8, <1>9, <1>10, <1>11 DEF AnyCounters, Counters
  <1>13. In(Blocks \ {"none"})' \subseteq Running'
    <2> SUFFICES ASSUME NEW v \in Workers, block'[v] \in Blocks \ {"none"}
                 PROVE  pc'[v] \in {"run", "upgrade"}
      BY DEF In, Running
    <2>1. CASE v = w
      BY <2>1
    <2>2. CASE v # w
      <3>1. block'[v] = block[v]
            /\ (pc'[v] = pc[v] \/ pc[v] \notin {"run", "upgrade"})
        BY <2>2 DEF OnlyOf
      <3>2. pc[v] \in {"run", "upgrade"}
        BY <3>1, <1>2 DEF In, Running
      <3> QED BY <3>1, <3>2
    <2> QED BY <2>1, <2>2
  <1> QED BY <1>1, <1>6, <1>7, <1>8, <1>9, <1>10, <1>11, <1>12, <1>13
          DEF CountsKept, CountsExact, Counted

\* The counters change by one at a time.
LEMMA CountersChange ==
    ASSUME NEW c \in Counters, NEW p
    PROVE  /\ IncrementTasksRunning(c, p) \in AnyCounters
           /\ DecrementTasksRunning(c, p) \in AnyCounters
           /\ IncrementMaxTasks(c, p) \in AnyCounters
           /\ DecrementMaxTasks(c, p) \in AnyCounters
           /\ AddUnresolved(c, p) \in AnyCounters
           /\ DropUnresolved(c, p) \in AnyCounters
  <1>1. /\ c \in AnyCounters
        /\ c.running \in Nat /\ c.runningBE \in Nat /\ c.max \in Nat
        /\ c.maxBE \in Nat /\ c.unresolved \in Nat /\ c.unresolvedBE \in Nat
    BY DEF Counters, AnyCounters
  <1>2. One(p = BestEffort) \in {0, 1}
    BY DEF One
  <1> DEFINE one == One(p = BestEffort)
  <1> HIDE DEF one
  <1>3. /\ c.running + 1 \in Int /\ c.running - 1 \in Int
        /\ c.max + 1 \in Int /\ c.max - 1 \in Int
        /\ c.unresolved + 1 \in Int /\ c.unresolved - 1 \in Int
        /\ c.runningBE + one \in Int /\ c.runningBE - one \in Int
        /\ c.maxBE + one \in Int /\ c.maxBE - one \in Int
        /\ c.unresolvedBE + one \in Int /\ c.unresolvedBE - one \in Int
    BY <1>1, <1>2 DEF one
  <1>4. IncrementTasksRunning(c, p) \in AnyCounters
    BY <1>1, <1>3 DEF IncrementTasksRunning, AnyCounters, one
  <1>5. DecrementTasksRunning(c, p) \in AnyCounters
    BY <1>1, <1>3 DEF DecrementTasksRunning, AnyCounters, one
  <1>6. IncrementMaxTasks(c, p) \in AnyCounters
    BY <1>1, <1>3 DEF IncrementMaxTasks, AnyCounters, one
  <1>7. DecrementMaxTasks(c, p) \in AnyCounters
    BY <1>1, <1>3 DEF DecrementMaxTasks, AnyCounters, one
  <1>8. AddUnresolved(c, p) \in AnyCounters
    BY <1>1, <1>3 DEF AddUnresolved, AnyCounters, one
  <1>9. DropUnresolved(c, p) \in AnyCounters
    BY <1>1, <1>3 DEF DropUnresolved, AnyCounters, one
  <1> QED BY <1>4, <1>5, <1>6, <1>7, <1>8, <1>9

-----------------------------------------------------------------------------
(* The parts put together.                                                 *)

RestKept ==
    /\ queued' \in [Priorities -> 0..MaxCalls] /\ QueueInv'
    /\ task' \in [Workers -> Priorities] /\ block' \in [Workers -> Blocks]
    /\ adjusting' \in BOOLEAN /\ canRun' \in Policies
    /\ policyOwed' \in BOOLEAN /\ calls' \in 0..MaxCalls
    /\ blocks' \in 0..MaxBlocks /\ policies' \in 0..MaxPolicies

LEMMA RestTypes ==
    ASSUME StaffInv
    PROVE  /\ queued \in [Priorities -> 0..MaxCalls] /\ QueueInv
           /\ queued \in [Priorities -> Nat] /\ count \in Counters
           /\ task \in [Workers -> Priorities] /\ block \in [Workers -> Blocks]
           /\ adjusting \in BOOLEAN /\ canRun \in Policies
           /\ policyOwed \in BOOLEAN /\ calls \in 0..MaxCalls
           /\ blocks \in 0..MaxBlocks /\ policies \in 0..MaxPolicies
           /\ minAllowed \in Priorities /\ posted \in BOOLEAN
           /\ MaxCalls \in Nat /\ MaxBlocks \in Nat /\ MaxPolicies \in Nat
  <1>1. MaxCalls \in Nat /\ MaxBlocks \in Nat /\ MaxPolicies \in Nat
    BY LimitsAssumption
  <1>2. queued \in [Priorities -> 0..MaxCalls]
    BY DEF StaffInv, TypeOK
  <1>3. queued \in [Priorities -> Nat]
    BY <1>1, <1>2
  <1> QED BY <1>1, <1>2, <1>3 DEF StaffInv, TypeOK

LEMMA Assembled ==
    ASSUME StaffInv, StaffKept, CountsKept, RestKept,
           minAllowed' \in Priorities, posted' \in BOOLEAN,
           count.max # 0 \/ count'.max # 0
              \/ (workers' = workers /\ posted' = posted)
    PROVE  StaffInv'
  <1>1. StartedInv'
    BY DEF StaffInv, StartedInv, CountsKept
  <1>2. TypeOK'
    BY DEF StaffKept, CountsKept, RestKept, TypeOK, Works
  <1> QED BY <1>1, <1>2 DEF StaffInv, StaffKept, CountsKept, RestKept

\* A worker with a thread is a worker of a group that was started.
LEMMA ThreadFacts ==
    ASSUME StaffInv, NEW w \in Workers, pc[w] # "none"
    PROVE  /\ w \in workers /\ count.max # 0 /\ w \in Threads
           /\ pc[w] \in {"run", "upgrade", "reset"} => w \notin Range(idle)
           /\ pc[w] \notin {"run", "upgrade"} => block[w] = "none"
  <1>1. w \in workers /\ w \in Threads
    BY DEF StaffInv, StartInv, Threads
  <1>2. count.max # 0
    BY <1>1 DEF StaffInv, StartedInv
  <1>3. pc[w] \in {"run", "upgrade", "reset"} => w \notin Range(idle)
    BY DEF StaffInv, IdleInv
  <1>4. pc[w] \notin {"run", "upgrade"} => block[w] = "none"
    <2>1. In(Blocks \ {"none"}) \subseteq Running
      BY DEF StaffInv, CountsExact
    <2>2. block[w] \in Blocks
      BY DEF StaffInv, TypeOK
    <2> QED BY <2>1, <2>2 DEF In, Running
  <1> QED BY <1>1, <1>2, <1>3, <1>4

\* Before the start nobody is blocked.
LEMMA NotStarted ==
    ASSUME StaffInv, count.max = 0
    PROVE  workers = {} /\ count.unresolved = 0 /\ count.unresolvedBE = 0
           /\ posted = FALSE /\ In(Blocks \ {"none"}) = {} /\ Running = {}
  <1>1. workers = {} /\ posted = FALSE
    BY DEF StaffInv, StartedInv, TypeOK
  <1>2. Running = {}
    BY <1>1 DEF StaffInv, StartInv, Running
  <1>3. In(Blocks \ {"none"}) = {}
    BY <1>2 DEF StaffInv, CountsExact
  <1>4. In(Unresolved) = {} /\ OfBestEffort(In(Unresolved)) = {}
    BY <1>3 DEF In, Unresolved, Blocks, OfBestEffort
  <1>5. count.unresolved = 0 /\ count.unresolvedBE = 0
    BY <1>4, FS_EmptySet DEF StaffInv, CountsExact
  <1> QED BY <1>1, <1>2, <1>3, <1>5

-----------------------------------------------------------------------------
(* The inductive invariant: the workers and the counters, and that what is *)
(* missing is somebody's to see to.                                        *)

GroupInv == StaffInv /\ PostedInv /\ ChaseInv /\ LimitInv

Deficit == DesiredNumAwakeWorkers(queued, count) > NumAwakeWorkers

LEMMA ChaseStays ==
    ASSUME ChaseInv, Deficit' => Deficit, policyOwed' = policyOwed,
           \A w \in Workers : Looks(w) => Looks(w)',
           \A w \in Workers : LooksLate(w) => LooksLate(w)'
    PROVE  ChaseInv'
  BY DEF ChaseInv, Deficit

LEMMA LimitStays ==
    ASSUME LimitInv, posted' = posted, policyOwed' = policyOwed,
           ShouldPeriodicallyAdjustMaxTasks(queued, count)'
              => ShouldPeriodicallyAdjustMaxTasks(queued, count),
           \A w \in Workers : Looks(w) => Looks(w)',
           \A w \in Running : block[w] = "none" =>
              w \in Running' /\ block'[w] = "none"
    PROVE  LimitInv'
  BY DEF LimitInv

LEMMA PostedStays ==
    ASSUME PostedInv, posted' = posted, adjusting' = adjusting,
           \A t \in Threads : owes'[t].adjust = owes[t].adjust
    PROVE  PostedInv'
  BY DEF PostedInv

\* AdjustMaxTasks is scheduled at the end of a critical section of t, in
\* which it may have been the service thread's to run.
LEMMA PostedScheduled ==
    ASSUME StaffInv, PostedInv, NEW t \in Threads, owes[t] = Nothing,
           NEW must \in BOOLEAN, NEW alreadyPosted \in BOOLEAN,
           \/ alreadyPosted = posted /\ adjusting' = adjusting
           \/ adjusting /\ ~alreadyPosted /\ adjusting' = FALSE,
           must => ~alreadyPosted,
           owes'[t].adjust = must,
           \A u \in Threads : u # t => owes'[u] = owes[u],
           posted' = (alreadyPosted \/ must)
    PROVE  PostedInv'
  <1>1. owes[t].adjust = FALSE /\ posted \in BOOLEAN
    BY NothingFacts DEF StaffInv, TypeOK
  <1> QED BY <1>1 DEF PostedInv

LEMMA EnsuredInv ==
    ASSUME GroupInv, NEW t \in Threads, owes[t] = Nothing,
           t \in Workers => pc[t] # "none",
           NEW pool, NEW alreadyPosted \in BOOLEAN,
           Ensured(t, pool, queued', count', alreadyPosted),
           PlacesKept(t), event' = event, canRun' = canRun,
           CountsKept, RestKept,
           count'.max = 0 => workers' = workers /\ posted' = posted,
           \/ alreadyPosted = posted /\ adjusting' = adjusting
           \/ adjusting /\ ~alreadyPosted /\ adjusting' = FALSE
    PROVE  GroupInv'
  <1>1. /\ StaffKept /\ workers \subseteq workers'
        /\ posted' \in BOOLEAN /\ minAllowed' \in Priorities
    BY EnsuredStaffKept DEF GroupInv
  <1>2. StaffInv'
    BY <1>1, Assembled DEF GroupInv
  <1> DEFINE must == ~alreadyPosted
                       /\ ShouldPeriodicallyAdjustMaxTasks(queued', count')
  <1>3. /\ PoolOK(pool)
        /\ workers' = pool.workers /\ idle' = pool.idle
        /\ owes' = [owes EXCEPT ![t] = [wake |-> pool.wake,
                                        start |-> pool.start,
                                        adjust |-> must]]
        /\ posted' = (alreadyPosted \/ must)
        /\ DesiredNumAwakeWorkers(queued', count') > NumAwakeWorkers'
              => \E v, w \in Range(pool.wake) : v # w
    BY DEF Ensured
  <1>4. must \in BOOLEAN
    BY DEF ShouldPeriodicallyAdjustMaxTasks
  <1>5. /\ (DesiredNumAwakeWorkers(queued, count))'
              = DesiredNumAwakeWorkers(queued', count')
        /\ (ShouldPeriodicallyAdjustMaxTasks(queued, count))'
              = ShouldPeriodicallyAdjustMaxTasks(queued', count')
    BY DEF DesiredNumAwakeWorkers, ShouldPeriodicallyAdjustMaxTasks,
           NumAdditionalWorkers
  <1>6. LimitInv'
    BY <1>3, <1>5 DEF LimitInv
  <1> HIDE DEF must
  <1>7. PostedInv'
    <2>1. /\ owes'[t].adjust = must
          /\ \A u \in Threads : u # t => owes'[u] = owes[u]
      BY <1>3, StaffTypes DEF GroupInv
    <2>2. must => ~alreadyPosted
      BY DEF must
    <2> QED BY <1>3, <1>4, <2>1, <2>2, PostedScheduled DEF GroupInv
  <1>8. ChaseInv'
    <2>1. ASSUME NEW v \in Range(pool.wake)
          PROVE  v \in Workers /\ (Looks(v)' \/ LooksLate(v)')
      <3>1. /\ v \in Range(idle) \/ v \in pool.workers \ workers
            /\ v \notin Range(pool.idle)
            /\ pool.workers \subseteq Workers /\ workers \subseteq pool.workers
        BY <1>3, <2>1 DEF PoolOK, Pools
      <3>2. \A x \in Range(idle) :
               x \in workers /\ pc[x] \in {"none", "wait", "get", "flush"}
        BY DEF GroupInv, StaffInv, IdleInv
      <3>3. \A x \in Workers : pc[x] # "none" => x \in workers
        BY DEF GroupInv, StaffInv, StartInv
      <3>4. v \in pool.workers /\ v \in Workers
            /\ pc[v] \in {"none", "wait", "get", "flush"}
        BY <3>1, <3>2, <3>3
      <3>5. pc'[v] \in {"none", "wait", "get", "flush"}
        BY <3>4 DEF PlacesKept
      <3>6. v \in Awake'
        BY <3>1, <3>4, <1>3 DEF Awake
      <3> QED BY <3>4, <3>5, <3>6 DEF Looks, LooksLate
    <2>2. ASSUME DesiredNumAwakeWorkers(queued, count)' > NumAwakeWorkers'
          PROVE  \/ \E w \in Workers : Looks(w)'
                 \/ \E v, w \in Workers :
                       v # w /\ LooksLate(v)' /\ LooksLate(w)'
      <3>1. PICK v \in Range(pool.wake), w \in Range(pool.wake) : v # w
        BY <2>2, <1>3, <1>5
      <3> QED BY <3>1, <2>1
    <2> QED BY <2>2 DEF ChaseInv
  <1> QED BY <1>2, <1>6, <1>7, <1>8 DEF GroupInv

-----------------------------------------------------------------------------
(* Steps that leave the queue and the counters alone.                      *)

\* What a step that changes neither leaves as it was.
LEMMA SameDemand ==
    ASSUME queued' = queued, count' = count, canRun' = canRun
    PROVE  /\ DesiredNumAwakeWorkers(queued, count)'
                 = DesiredNumAwakeWorkers(queued, count)
           /\ ShouldPeriodicallyAdjustMaxTasks(queued, count)'
                 = ShouldPeriodicallyAdjustMaxTasks(queued, count)
  BY DEF DesiredNumAwakeWorkers, ShouldPeriodicallyAdjustMaxTasks,
         NumAdditionalWorkers

LEMMA RestStays ==
    ASSUME StaffInv, queued' = queued, task' = task, block' = block,
           adjusting' \in BOOLEAN, canRun' = canRun, policyOwed' = policyOwed,
           bounds' = bounds
    PROVE  RestKept
  BY RestTypes DEF RestKept, QueueInv, bounds

\* Steps after which the same workers are awake and nothing else is missing.
LEMMA QuietInv ==
    ASSUME GroupInv, StaffKept, NumAwakeWorkers' = NumAwakeWorkers,
           queued' = queued, count' = count, task' = task, block' = block,
           minAllowed' \in Priorities,
           canRun' = canRun, policyOwed' = policyOwed, bounds' = bounds,
           adjusting' \in BOOLEAN, posted' = posted, PostedInv',
           workers' = workers \/ count.max # 0,
           \A v \in Workers :
              pc'[v] = pc[v] \/ {pc[v], pc'[v]} \cap {"run", "upgrade"} = {},
           \A v \in Workers : Looks(v) => Looks(v)',
           \A v \in Workers : LooksLate(v) => LooksLate(v)'
    PROVE  GroupInv'
  <1>1. CountsKept
    BY CountsStay DEF GroupInv
  <1>2. RestKept /\ minAllowed' \in Priorities /\ posted' \in BOOLEAN
    BY RestStays, RestTypes DEF GroupInv
  <1>3. StaffInv'
    BY <1>1, <1>2, Assembled DEF GroupInv
  <1>4. ChaseInv'
    BY SameDemand, ChaseStays DEF GroupInv, Deficit
  <1>5. LimitInv'
    <2>1. \A v \in Running : v \in Running'
      BY DEF Running
    <2> QED BY <2>1, SameDemand, LimitStays DEF GroupInv
  <1> QED BY <1>3, <1>4, <1>5 DEF GroupInv

LEMMA FlushInv ==
    ASSUME GroupInv, NEW t \in Threads, Flush(t)
    PROVE  GroupInv'
  <1>1. /\ owes \in [Threads -> Works] /\ minAllowed \in Priorities
        /\ adjusting \in BOOLEAN /\ pc \in [Workers -> PCs]
        /\ posted \in BOOLEAN
    BY StaffTypes, RestTypes DEF GroupInv
  <1>2. CASE FlushWakeUp(t)
    <2>1. StaffKept /\ NumAwakeWorkers' = NumAwakeWorkers
      BY <1>2, FlushWakeUpStaff DEF GroupInv
    <2>2. /\ UNCHANGED <<group, pc, task, block, posted, adjusting, canRun,
                         policyOwed, bounds>>
          /\ owes' = [owes EXCEPT ![t].wake = Tail(@)]
      BY <1>2 DEF FlushWakeUp
    <2>3. \A u \in Threads : owes'[u].adjust = owes[u].adjust
      BY <1>1, <2>2 DEF Works
    <2>4. PostedInv'
      BY <2>2, <2>3, PostedStays DEF GroupInv
    <2>5. \A v \in Workers : /\ Looks(v) => Looks(v)'
                             /\ LooksLate(v) => LooksLate(v)'
      BY <2>2 DEF Looks, LooksLate, Awake, Running, group
    <2> QED BY <1>1, <2>1, <2>2, <2>4, <2>5, QuietInv DEF group
  <1>3. CASE FlushStart(t)
    <2>1. /\ StaffKept /\ NumAwakeWorkers' = NumAwakeWorkers
          /\ Head(owes[t].start) \in workers
          /\ pc[Head(owes[t].start)] = "none"
      BY <1>3, FlushStartStaff DEF GroupInv
    <2>2. /\ UNCHANGED <<group, event, task, block, posted, adjusting, canRun,
                         policyOwed, bounds>>
          /\ pc' = [pc EXCEPT ![Head(owes[t].start)] = "wait"]
          /\ owes' = [owes EXCEPT ![t].start = Tail(@)]
      BY <1>3 DEF FlushStart
    <2>3. \A u \in Threads : owes'[u].adjust = owes[u].adjust
      BY <1>1, <2>2 DEF Works
    <2>4. PostedInv'
      BY <2>2, <2>3, PostedStays DEF GroupInv
    <2> DEFINE h == Head(owes[t].start)
    <2> HIDE DEF h
    <2>5. \A v \in Workers : /\ v # h => pc'[v] = pc[v]
                             /\ v = h => pc[v] = "none" /\ pc'[v] = "wait"
      BY <1>1, <2>1, <2>2 DEF h
    <2>6. \A v \in Workers :
             pc'[v] = pc[v] \/ {pc[v], pc'[v]} \cap {"run", "upgrade"} = {}
      BY <2>5
    <2>7. \A v \in Workers : /\ Looks(v) => Looks(v)'
                             /\ LooksLate(v) => LooksLate(v)'
      BY <2>2, <2>5 DEF Looks, LooksLate, Awake, Running, group
    <2> QED BY <1>1, <2>1, <2>2, <2>4, <2>6, <2>7, QuietInv DEF group
  <1>4. CASE ScheduleAdjustMaxTasks(t)
    <2>1. StaffKept /\ NumAwakeWorkers' = NumAwakeWorkers
      BY <1>4, ScheduleAdjustStaff DEF GroupInv
    <2>2. /\ UNCHANGED <<group, pc, event, task, block, posted, canRun,
                         policyOwed, bounds>>
          /\ adjusting' = TRUE /\ owes[t].adjust
          /\ owes' = [owes EXCEPT ![t] = Nothing]
      BY <1>4 DEF ScheduleAdjustMaxTasks
    <2>3. /\ owes'[t].adjust = FALSE
          /\ \A u \in Threads : u # t => owes'[u] = owes[u]
      BY <1>1, <2>2, NothingFacts
    <2>4. PostedInv'
      BY <2>2, <2>3 DEF GroupInv, PostedInv
    <2>5. \A v \in Workers : /\ Looks(v) => Looks(v)'
                             /\ LooksLate(v) => LooksLate(v)'
      BY <2>2 DEF Looks, LooksLate, Awake, Running, group
    <2> QED BY <1>1, <2>1, <2>2, <2>4, <2>5, QuietInv DEF group
  <1> QED BY <1>2, <1>3, <1>4 DEF Flush

\* A worker's executor that has nothing to do.
LEMMA OwesStays ==
    ASSUME StaffInv, NEW w \in Workers, owes' = owes
    PROVE  OwesLittle(w)
  BY StaffTypes DEF OwesLittle

\* WakeUp, SleepTimeout and ResetEvent: on to GetWork.
LEMMA OnToGetWork ==
    ASSUME GroupInv, NEW w \in Workers, pc[w] \in {"wait", "reset"},
           pc' = [pc EXCEPT ![w] = "get"],
           event \ {w} \subseteq event', event' \subseteq event,
           UNCHANGED <<group, task, block, owes, posted, adjusting, canRun,
                       policyOwed, bounds>>
    PROVE  GroupInv'
  <1>1. /\ minAllowed \in Priorities
        /\ adjusting \in BOOLEAN /\ pc \in [Workers -> PCs]
    BY StaffTypes, RestTypes DEF GroupInv
  <1>2. Moved(w, "get") /\ OwesLittle(w) /\ "get" \in PCs \ {"none"}
    BY OwesStays DEF Moved, group, PCs, GroupInv
  <1>3. StaffKept
    BY <1>2, MovedStaff DEF GroupInv
  <1>4. NumAwakeWorkers' = NumAwakeWorkers
    BY DEF group, NumAwakeWorkers
  <1>5. PostedInv'
    BY PostedStays DEF GroupInv
  <1>6. \A v \in Workers : /\ v # w => pc'[v] = pc[v]
                           /\ v = w => pc'[v] = "get"
    BY <1>1
  <1>7. \A v \in Workers :
           pc'[v] = pc[v] \/ {pc[v], pc'[v]} \cap {"run", "upgrade"} = {}
    BY <1>6
  <1>8. \A v \in Workers : /\ Looks(v) => Looks(v)'
                           /\ LooksLate(v) => LooksLate(v)'
    BY <1>6 DEF Looks, LooksLate, Awake, Running, group
  <1> QED BY <1>1, <1>3, <1>4, <1>5, <1>7, <1>8, QuietInv DEF group

LEMMA WakeUpInv ==
    ASSUME GroupInv, NEW w \in Workers,
           WakeUp(w) \/ SleepTimeout(w) \/ ResetEvent(w)
    PROVE  GroupInv'
  <1>1. /\ pc[w] \in {"wait", "reset"}
        /\ pc' = [pc EXCEPT ![w] = "get"]
        /\ event \ {w} \subseteq event' /\ event' \subseteq event
        /\ UNCHANGED <<group, task, block, owes, posted, adjusting, canRun,
                       policyOwed, bounds>>
    BY DEF WakeUp, SleepTimeout, ResetEvent, At, Goto
  <1> QED BY <1>1, OnToGetWork

LEMMA MayBlockOverdueInv ==
    ASSUME GroupInv, NEW w \in Workers, MayBlockOverdue(w)
    PROVE  GroupInv'
  <1>1. /\ block[w] = "may" /\ block' = [block EXCEPT ![w] = "overdue"]
        /\ UNCHANGED <<group, pc, event, task, owes, posted, adjusting, canRun,
                       policyOwed, bounds>>
    BY DEF MayBlockOverdue
  <1>2. block \in [Workers -> Blocks]
    BY RestTypes DEF GroupInv
  <1>3. StaffKept /\ NumAwakeWorkers' = NumAwakeWorkers
    BY <1>1, UnchangedStaff DEF GroupInv, group
  <1>4. \A v \in Workers : /\ v # w => block'[v] = block[v]
                           /\ v = w => block'[v] = "overdue"
    BY <1>1, <1>2
  <1>5. /\ Running' = Running
        /\ OfBestEffort(Running)' = OfBestEffort(Running)
        /\ OfBestEffort(In(Unresolved))' = OfBestEffort(In(Unresolved))
        /\ OfBestEffort(In({"counted"}))' = OfBestEffort(In({"counted"}))
        /\ In(Unresolved)' = In(Unresolved)
        /\ In({"counted"})' = In({"counted"})
        /\ In(Blocks \ {"none"})' = In(Blocks \ {"none"})
    <2>1. Running' = Running
      BY <1>1 DEF Running
    <2>2. In(Unresolved)' = In(Unresolved)
          /\ In({"counted"})' = In({"counted"})
          /\ In(Blocks \ {"none"})' = In(Blocks \ {"none"})
      BY <1>1, <1>4 DEF In, Unresolved, Blocks
    <2> QED BY <1>1, <2>1, <2>2 DEF OfBestEffort
  <1>6. CountsKept
    BY <1>1, <1>5 DEF CountsKept, CountsExact, GroupInv, StaffInv, TypeOK, group
  <1>7. RestKept /\ minAllowed' \in Priorities /\ posted' \in BOOLEAN
    <2>1. block' \in [Workers -> Blocks]
      BY <1>1, <1>2 DEF Blocks
    <2> QED BY <1>1, <2>1, RestTypes
            DEF GroupInv, RestKept, QueueInv, group, bounds
  <1>8. StaffInv'
    BY <1>1, <1>3, <1>6, <1>7, Assembled DEF GroupInv, group
  <1>9. PostedInv'
    BY <1>1, PostedStays DEF GroupInv
  <1>10. \A v \in Workers : /\ Looks(v) => Looks(v)'
                            /\ LooksLate(v) => LooksLate(v)'
    BY <1>1, <1>4 DEF Looks, LooksLate, Awake, Running, group
  <1>11. queued' = queued /\ count' = count
    BY <1>1 DEF group
  <1>12. ChaseInv'
    BY <1>1, <1>3, <1>10, <1>11, SameDemand, ChaseStays DEF GroupInv, Deficit
  <1>13. LimitInv'
    <2>1. \A v \in Running : block[v] = "none"
             => v \in Running' /\ block'[v] = "none"
      BY <1>1, <1>4, <1>5 DEF Running
    <2> QED BY <1>1, <1>10, <1>11, <2>1, SameDemand, LimitStays DEF GroupInv
  <1> QED BY <1>8, <1>9, <1>12, <1>13 DEF GroupInv

-----------------------------------------------------------------------------
(* How the demand changes.                                                 *)

LEMMA AdditionalType ==
    ASSUME NEW q \in [Priorities -> Nat], NEW p \in Priorities
    PROVE  NumAdditionalWorkers(q, p) \in Nat /\ NumAdditionalWorkers(q, p) <= q[p]
  BY DEF NumAdditionalWorkers

LEMMA BothPriorities ==
    BestEffort \in Priorities /\ Foreground \in Priorities
       /\ BestEffort # Foreground
       /\ \A p \in Priorities : p = BestEffort \/ p = Foreground
  BY DEF Priorities, BestEffort, Foreground

\* With fewer sources, or lower limits, the group wants no more workers.
LEMMA LessDemand ==
    ASSUME NEW q \in [Priorities -> Nat], NEW r \in [Priorities -> Nat],
           r[BestEffort] <= q[BestEffort], r[Foreground] <= q[Foreground],
           NEW c \in Counters, NEW d \in Counters,
           d.running = c.running, d.runningBE = c.runningBE,
           d.max <= c.max, d.maxBE <= c.maxBE
    PROVE  DesiredNumAwakeWorkers(r, d) <= DesiredNumAwakeWorkers(q, c)
  <1>1. /\ c.running \in Nat /\ c.runningBE \in Nat /\ c.max \in Nat
        /\ c.maxBE \in Nat /\ d.max \in Nat /\ d.maxBE \in Nat
        /\ MaxWorkers \in Nat
    BY LimitsAssumption DEF Counters
  <1> DEFINE qb == NumAdditionalWorkers(q, BestEffort)
             qf == NumAdditionalWorkers(q, Foreground)
             rb == NumAdditionalWorkers(r, BestEffort)
             rf == NumAdditionalWorkers(r, Foreground)
  <1>2. /\ qb \in Nat /\ qf \in Nat /\ rb \in Nat /\ rf \in Nat
        /\ rb <= qb /\ rf <= qf
    <2>1. q[BestEffort] \in Nat /\ q[Foreground] \in Nat
          /\ r[BestEffort] \in Nat /\ r[Foreground] \in Nat
      BY BothPriorities
    <2> QED BY <2>1 DEF NumAdditionalWorkers
  <1> HIDE DEF qb, qf, rb, rf
  <1> DEFINE qs == Higher(Lower(c.runningBE + qb, c.maxBE), c.runningBE)
             rs == Higher(Lower(c.runningBE + rb, d.maxBE), c.runningBE)
  <1>3. qs \in Nat /\ rs \in Nat /\ rs <= qs
    BY <1>1, <1>2 DEF Lower, Higher
  <1>4. /\ DesiredNumAwakeWorkers(q, c)
              = Lower(qs + ((c.running - c.runningBE) + qf),
                      Lower(c.max, MaxWorkers))
        /\ DesiredNumAwakeWorkers(r, d)
              = Lower(rs + ((c.running - c.runningBE) + rf),
                      Lower(d.max, MaxWorkers))
    BY DEF DesiredNumAwakeWorkers, qb, qf, rb, rf
  <1> HIDE DEF qs, rs
  <1>5. Lower(rs + ((c.running - c.runningBE) + rf), Lower(d.max, MaxWorkers))
          <= Lower(qs + ((c.running - c.runningBE) + qf),
                   Lower(c.max, MaxWorkers))
    BY <1>1, <1>2, <1>3 DEF Lower
  <1> QED BY <1>4, <1>5

\* With fewer sources the limits are not more often too low.
LEMMA LessAdjustment ==
    ASSUME NEW q \in [Priorities -> Nat], NEW r \in [Priorities -> Nat],
           r[BestEffort] <= q[BestEffort], r[Foreground] <= q[Foreground],
           NEW c \in Counters, ShouldPeriodicallyAdjustMaxTasks(r, c)
    PROVE  ShouldPeriodicallyAdjustMaxTasks(q, c)
  <1>1. /\ c.running \in Nat /\ c.runningBE \in Nat /\ c.max \in Nat
        /\ c.maxBE \in Nat
    BY DEF Counters
  <1> DEFINE qb == NumAdditionalWorkers(q, BestEffort)
             qf == NumAdditionalWorkers(q, Foreground)
             rb == NumAdditionalWorkers(r, BestEffort)
             rf == NumAdditionalWorkers(r, Foreground)
  <1>2. /\ qb \in Nat /\ qf \in Nat /\ rb \in Nat /\ rf \in Nat
        /\ rb <= qb /\ rf <= qf
    <2>1. q[BestEffort] \in Nat /\ q[Foreground] \in Nat
          /\ r[BestEffort] \in Nat /\ r[Foreground] \in Nat
      BY BothPriorities
    <2> QED BY <2>1 DEF NumAdditionalWorkers
  <1>3. /\ c.runningBE + rb > c.maxBE => c.runningBE + qb > c.maxBE
        /\ c.running + rb + rf + 1 > c.max => c.running + qb + qf + 1 > c.max
    <2> HIDE DEF qb, qf, rb, rf
    <2> QED BY <1>1, <1>2
  <1> QED BY <1>3 DEF ShouldPeriodicallyAdjustMaxTasks

\* A source that is taken was wanted: the demand stays.
LEMMA TakenDemand ==
    ASSUME NEW q \in [Priorities -> Nat], NEW c \in Counters,
           ~IsEmpty(q), Top(q) \in canRun,
           Top(q) = BestEffort => c.runningBE < c.maxBE
    PROVE  DesiredNumAwakeWorkers([q EXCEPT ![Top(q)] = @ - 1],
                                  IncrementTasksRunning(c, Top(q)))
              = DesiredNumAwakeWorkers(q, c)
  <1> DEFINE p == Top(q)
             r == [q EXCEPT ![p] = @ - 1]
             d == IncrementTasksRunning(c, p)
  <1>1. /\ c.running \in Nat /\ c.runningBE \in Nat /\ c.max \in Nat
        /\ c.maxBE \in Nat /\ MaxWorkers \in Nat
        /\ q[BestEffort] \in Nat /\ q[Foreground] \in Nat
    BY LimitsAssumption, BothPriorities DEF Counters
  <1>2. CASE p = Foreground
    <2>1. q[Foreground] > 0
      BY <1>1, <1>2, BothPriorities DEF IsEmpty, Top
    <2>2. r[Foreground] = q[Foreground] - 1 /\ r[BestEffort] = q[BestEffort]
      BY <1>2, BothPriorities
    <2>3. /\ d.running = c.running + 1 /\ d.runningBE = c.runningBE + 0
          /\ d.max = c.max /\ d.maxBE = c.maxBE
      BY <1>2, BothPriorities DEF IncrementTasksRunning, One, Counters
    <2>4. /\ NumAdditionalWorkers(r, BestEffort)
                = NumAdditionalWorkers(q, BestEffort)
          /\ NumAdditionalWorkers(r, Foreground)
                = NumAdditionalWorkers(q, Foreground) - 1
          /\ NumAdditionalWorkers(q, Foreground) \in Nat
      BY <1>2, <2>2, <1>1 DEF NumAdditionalWorkers
    <2> HIDE DEF r, d
    <2>5. (d.running - d.runningBE) + NumAdditionalWorkers(r, Foreground)
             = (c.running - c.runningBE) + NumAdditionalWorkers(q, Foreground)
      BY <1>1, <2>3, <2>4
    <2>6. d.runningBE = c.runningBE
      BY <1>1, <2>3
    <2>7. DesiredNumAwakeWorkers(r, d) = DesiredNumAwakeWorkers(q, c)
      BY <2>3, <2>4, <2>5, <2>6 DEF DesiredNumAwakeWorkers
    <2> QED BY <2>7 DEF r, d
  <1>3. CASE p = BestEffort
    <2>1. q[Foreground] = 0 /\ q[BestEffort] > 0 /\ c.runningBE < c.maxBE
      BY <1>1, <1>3, BothPriorities DEF IsEmpty, Top
    <2>2. r[Foreground] = 0 /\ r[BestEffort] = q[BestEffort] - 1
      BY <1>3, <2>1, BothPriorities
    <2>3. /\ d.running = c.running + 1 /\ d.runningBE = c.runningBE + 1
          /\ d.max = c.max /\ d.maxBE = c.maxBE
      BY <1>3 DEF IncrementTasksRunning, One, Counters
    <2>4. /\ NumAdditionalWorkers(r, BestEffort) = q[BestEffort] - 1
          /\ NumAdditionalWorkers(q, BestEffort) = q[BestEffort]
          /\ NumAdditionalWorkers(r, Foreground) = 0
          /\ NumAdditionalWorkers(q, Foreground) = 0
      BY <1>3, <2>1, <2>2 DEF NumAdditionalWorkers
    <2> HIDE DEF r, d
    <2> DEFINE qs == Higher(Lower(c.runningBE + q[BestEffort], c.maxBE),
                            c.runningBE)
               rs == Higher(Lower((c.runningBE + 1) + (q[BestEffort] - 1),
                                  c.maxBE), c.runningBE + 1)
    <2>5. qs = rs
      BY <1>1, <2>1 DEF Lower, Higher
    <2>6. /\ DesiredNumAwakeWorkers(q, c)
                = Lower(qs + ((c.running - c.runningBE) + 0),
                        Lower(c.max, MaxWorkers))
          /\ DesiredNumAwakeWorkers(r, d)
                = Lower(rs + (((c.running + 1) - (c.runningBE + 1)) + 0),
                        Lower(c.max, MaxWorkers))
      BY <2>3, <2>4 DEF DesiredNumAwakeWorkers
    <2>7. (c.running + 1) - (c.runningBE + 1) = c.running - c.runningBE
      BY <1>1
    <2>8. DesiredNumAwakeWorkers(r, d) = DesiredNumAwakeWorkers(q, c)
      BY <2>5, <2>6, <2>7
    <2> QED BY <2>8 DEF r, d
  <1> QED BY <1>2, <1>3 DEF Top

\* If no source may be taken, only the running tasks want workers.
LEMMA NothingWanted ==
    ASSUME NEW q \in [Priorities -> Nat], NEW c \in Counters,
           canRun \in Policies,
           ~(/\ ~IsEmpty(q)
             /\ Top(q) \in canRun
             /\ Top(q) = BestEffort => c.runningBE < c.maxBE)
    PROVE  DesiredNumAwakeWorkers(q, c) <= c.running
  <1>1. /\ c.running \in Nat /\ c.runningBE \in Nat /\ c.max \in Nat
        /\ c.maxBE \in Nat /\ MaxWorkers \in Nat
        /\ q[BestEffort] \in Nat /\ q[Foreground] \in Nat
    BY LimitsAssumption, BothPriorities DEF Counters
  <1> DEFINE qb == NumAdditionalWorkers(q, BestEffort)
             qf == NumAdditionalWorkers(q, Foreground)
             bes == Higher(Lower(c.runningBE + qb, c.maxBE), c.runningBE)
  <1>2. qb \in Nat /\ qf \in Nat
    BY AdditionalType, BothPriorities
  <1>3. qf = 0
    <2>1. CASE q[Foreground] = 0
      BY <2>1 DEF NumAdditionalWorkers
    <2>2. CASE q[Foreground] > 0
      <3>1. Foreground \notin canRun
        BY <2>2, BothPriorities DEF IsEmpty, Top
      <3> QED BY <3>1 DEF NumAdditionalWorkers
    <2> QED BY <1>1, <2>1, <2>2
  <1>4. qb = 0 \/ c.maxBE <= c.runningBE
    <2>1. CASE q[Foreground] > 0
      <3>1. Foreground \notin canRun
        BY <2>1, BothPriorities DEF IsEmpty, Top
      <3>2. canRun = {}
        BY <3>1, BothPriorities DEF Policies
      <3> QED BY <3>2 DEF NumAdditionalWorkers
    <2>2. CASE q[Foreground] = 0
      <3>1. Top(q) = BestEffort
        BY <2>2 DEF Top
      <3>2. q[BestEffort] = 0 \/ BestEffort \notin canRun
               \/ ~(c.runningBE < c.maxBE)
        BY <2>2, <3>1 DEF IsEmpty
      <3> QED BY <1>1, <3>2 DEF NumAdditionalWorkers
    <2> QED BY <1>1, <2>1, <2>2
  <1>5. DesiredNumAwakeWorkers(q, c)
           = Lower(bes + ((c.running - c.runningBE) + qf),
                   Lower(c.max, MaxWorkers))
    BY DEF DesiredNumAwakeWorkers
  <1>6. bes = c.runningBE
    <2> HIDE DEF qb
    <2> QED BY <1>1, <1>2, <1>4 DEF Lower, Higher
  <1>7. Lower(c.runningBE + ((c.running - c.runningBE) + 0),
              Lower(c.max, MaxWorkers)) <= c.running
    BY <1>1 DEF Lower
  <1> QED BY <1>3, <1>5, <1>6, <1>7

-----------------------------------------------------------------------------
(* GetWork.                                                                *)

\* What GetWork keeps on its way to TakeWork.
InGetWork(w) ==
    /\ pc[w] \in {"get", "flush"}
    /\ pc[w] = "get" => /\ ~Deficit
                        /\ ShouldPeriodicallyAdjustMaxTasks(queued, count)
                              => posted'
    /\ OwesLittle(w) /\ PostedInv' /\ posted' \in BOOLEAN /\ (posted => posted')
    /\ UNCHANGED <<block, adjusting, canRun, policyOwed, bounds>>

LEMMA NothingTaken ==
    ASSUME GroupInv, NEW w \in Workers, InGetWork(w), StaffKept,
           UNCHANGED <<queued, count, task>>, minAllowed' \in Priorities,
           \A v \in Workers : v # w => pc'[v] = pc[v],
           pc'[w] \in {"none", "wait"},
           \A v \in Workers : v # w /\ v \in Awake => v \in Awake',
           ~Deficit' \/ (w \in Range(idle) /\ NumAwakeWorkers' = NumAwakeWorkers)
    PROVE  GroupInv'
  <1>1. \A v \in Workers :
           pc'[v] = pc[v] \/ {pc[v], pc'[v]} \cap {"run", "upgrade"} = {}
    BY DEF InGetWork
  <1>2. CountsKept
    BY <1>1, CountsStay DEF GroupInv, InGetWork
  <1>3. RestKept
    BY RestStays, RestTypes DEF GroupInv, InGetWork
  <1>4. StaffInv'
    BY <1>2, <1>3, Assembled, ThreadFacts DEF GroupInv, InGetWork
  <1>5. \A v \in Workers : v # w => /\ Looks(v) => Looks(v)'
                                    /\ LooksLate(v) => LooksLate(v)'
    BY DEF Looks, LooksLate, Running, InGetWork
  <1>6. /\ Deficit' => DesiredNumAwakeWorkers(queued, count) > NumAwakeWorkers'
        /\ ShouldPeriodicallyAdjustMaxTasks(queued, count)'
              = ShouldPeriodicallyAdjustMaxTasks(queued, count)
    BY SameDemand DEF Deficit, InGetWork
  <1>7. ChaseInv'
    <2>1. ASSUME Deficit'
          PROVE  \/ policyOwed
                 \/ \E v \in Workers : Looks(v)'
                 \/ \E u, v \in Workers :
                       u # v /\ LooksLate(u)' /\ LooksLate(v)'
      <3>1. Deficit /\ w \in Range(idle)
        BY <2>1, <1>6 DEF Deficit
      <3>2. ~Looks(w) /\ ~LooksLate(w)
        BY <3>1 DEF Looks, LooksLate, Awake
      <3> QED BY <3>1, <3>2, <1>5 DEF GroupInv, ChaseInv, Deficit
    <2> QED BY <2>1 DEF ChaseInv, Deficit, InGetWork
  <1>8. LimitInv'
    <2>1. ASSUME ShouldPeriodicallyAdjustMaxTasks(queued, count)
          PROVE  \/ posted' \/ policyOwed
                 \/ \E v \in Running : block[v] = "none"
                 \/ \E v \in Workers : Looks(v)'
      <3>1. CASE pc[w] = "get"
        BY <2>1, <3>1 DEF InGetWork
      <3>2. CASE pc[w] = "flush"
        <4>1. ~Looks(w)
          BY <3>2 DEF Looks
        <4> QED BY <2>1, <4>1, <1>5 DEF GroupInv, LimitInv, InGetWork
      <3> QED BY <3>1, <3>2 DEF InGetWork
    <2>2. Running' = Running
      BY <1>1 DEF Running
    <2> QED BY <1>6, <2>1, <2>2 DEF LimitInv, InGetWork
  <1> QED BY <1>4, <1>7, <1>8 DEF GroupInv, InGetWork

LEMMA StayIdleInv ==
    ASSUME GroupInv, NEW w \in Workers, InGetWork(w), StayIdle(w),
           UNCHANGED <<queued, count, task>>, minAllowed' \in Priorities
    PROVE  GroupInv'
  <1>1. Moved(w, "wait") /\ "wait" \in PCs \ {"none"} /\ w \in Range(idle)
    BY DEF StayIdle, Goto, Moved, PCs
  <1>2. StaffKept
    BY <1>1, MovedStaff DEF GroupInv, InGetWork
  <1>3. /\ \A v \in Workers : v # w => pc'[v] = pc[v]
        /\ pc'[w] = "wait"
        /\ Awake' = Awake /\ NumAwakeWorkers' = NumAwakeWorkers
    BY <1>1, StaffTypes DEF GroupInv, Moved, Awake, NumAwakeWorkers
  <1> QED BY <1>1, <1>2, <1>3, NothingTaken

LEMMA CleanupInv ==
    ASSUME GroupInv, NEW w \in Workers, InGetWork(w), Cleanup(w),
           UNCHANGED <<queued, count, task>>, minAllowed' \in Priorities
    PROVE  GroupInv'
  <1>1. /\ StaffKept /\ w \in Range(idle)
        /\ \A v : v \in Range(idle') <=> v \in Range(idle) /\ v # w
        /\ NumAwakeWorkers' = NumAwakeWorkers
    BY CleanupStaff DEF GroupInv, InGetWork
  <1>2. /\ \A v \in Workers : v # w => pc'[v] = pc[v]
        /\ pc'[w] = "none" /\ workers' = workers \ {w}
    BY StaffTypes DEF GroupInv, Cleanup, Goto
  <1>3. \A v \in Workers : v # w /\ v \in Awake => v \in Awake'
    BY <1>1, <1>2 DEF Awake
  <1> QED BY <1>1, <1>2, <1>3, NothingTaken

\* A worker becomes idle only if no worker is missing without it.
LEMMA BecomeIdleInv ==
    ASSUME GroupInv, NEW w \in Workers, InGetWork(w), BecomeIdle(w),
           UNCHANGED <<queued, count, task>>, minAllowed' \in Priorities
    PROVE  GroupInv'
  <1>1. /\ StaffKept /\ w \notin Range(idle) /\ w \in workers
        /\ Range(idle') = Range(idle) \cup {w}
        /\ NumAwakeWorkers' = NumAwakeWorkers - 1
    BY BecomeIdleStaff DEF GroupInv, InGetWork
  <1>2. /\ \A v \in Workers : v # w => pc'[v] = pc[v]
        /\ pc'[w] = "wait" /\ workers' = workers
    BY StaffTypes DEF GroupInv, BecomeIdle, Goto
  <1>3. \A v \in Workers : v # w /\ v \in Awake => v \in Awake'
    BY <1>1, <1>2 DEF Awake
  <1>4. ~Deficit'
    <2> DEFINE desired == DesiredNumAwakeWorkers(queued, count)
               awake == NumAwakeWorkers
               running == count.running
    <2>1. /\ queued \in [Priorities -> Nat] /\ count \in Counters
          /\ canRun \in Policies
      BY RestTypes DEF GroupInv
    <2>2. desired \in Int
      BY <2>1, DesiredFacts
    <2>3. /\ awake = Cardinality(Awake) /\ IsFiniteSet(Awake)
          /\ Cardinality(Awake) \in Nat /\ awake \in Nat
      BY StaffIsOK DEF GroupInv
    <2>4. running \in Nat /\ running = Cardinality(Running)
      BY <2>1 DEF GroupInv, StaffInv, CountsExact, Counters
    <2>5. running + 1 <= awake
      <3>1. Running \subseteq Awake \ {w}
        BY ThreadFacts DEF GroupInv, Running, Awake, InGetWork
      <3>2. /\ IsFiniteSet(Awake \ {w})
            /\ Cardinality(Awake \ {w}) = Cardinality(Awake) - 1
        BY <1>1, <2>3, FS_RemoveElement DEF Awake
      <3>3. Cardinality(Running) <= Cardinality(Awake \ {w})
        BY <3>1, <3>2, FS_Subset
      <3> DEFINE a == Cardinality(Awake)
                 r == Cardinality(Running)
                 l == Cardinality(Awake \ {w})
      <3>4. l = a - 1 /\ r <= l /\ a \in Nat /\ r \in Nat
        BY <2>3, <2>4, <3>2, <3>3
      <3> HIDE DEF a, r, l
      <3>5. r + 1 <= a
        BY <3>4
      <3> QED BY <3>5, <2>3, <2>4 DEF a, r
    <2>6. desired < awake \/ desired <= running
      <3>1. CASE ~CanGetWork
        <4>1. ~(awake <= desired)
          BY <3>1 DEF CanGetWork
        <4> HIDE DEF awake, desired
        <4> QED BY <4>1, <2>2, <2>3
      <3>2. CASE ~CanTakeTop
        BY <3>2, <2>1, NothingWanted DEF CanTakeTop
      <3> QED BY <3>1, <3>2 DEF BecomeIdle
    <2>7. ~(desired > awake - 1)
      <3> HIDE DEF awake, desired, running
      <3> QED BY <2>2, <2>3, <2>4, <2>5, <2>6
    <2>8. (DesiredNumAwakeWorkers(queued, count))' = desired
      BY SameDemand DEF InGetWork
    <2> QED BY <2>7, <2>8, <1>1 DEF Deficit
  <1> QED BY <1>1, <1>2, <1>3, <1>4, NothingTaken

LEMMA TakeTopInv ==
    ASSUME GroupInv, NEW w \in Workers, InGetWork(w), TakeTop(w)
    PROVE  GroupInv'
  <1> DEFINE p == Top(queued)
  <1>1. /\ queued \in [Priorities -> 0..MaxCalls] /\ queued \in [Priorities -> Nat]
        /\ count \in Counters /\ task \in [Workers -> Priorities]
        /\ block \in [Workers -> Blocks] /\ MaxCalls \in Nat
        /\ pc \in [Workers -> PCs] /\ calls \in 0..MaxCalls
        /\ QueueInv /\ adjusting \in BOOLEAN /\ posted \in BOOLEAN
    BY RestTypes, StaffTypes DEF GroupInv
  <1>2. /\ w \notin Range(idle) /\ CanTakeTop
        /\ queued' = [queued EXCEPT ![p] = @ - 1]
        /\ count' = IncrementTasksRunning(count, p)
        /\ task' = [task EXCEPT ![w] = p]
        /\ minAllowed' = MinAllowedPriority(queued', count')
        /\ pc' = [pc EXCEPT ![w] = "run"]
        /\ workers' = workers /\ idle' = idle /\ event' = event
    BY DEF TakeTop, Goto
  <1>3. /\ w \in workers /\ count.max # 0 /\ block[w] = "none" /\ pc[w] # "none"
        /\ w \notin Running
    BY ThreadFacts DEF GroupInv, InGetWork, Running
  <1>4. p \in Priorities /\ queued[p] > 0
    BY <1>1, <1>2, BothPriorities DEF CanTakeTop, IsEmpty, Top
  <1> HIDE DEF p
  <1>5. /\ block' = block /\ canRun' = canRun /\ policyOwed' = policyOwed
        /\ bounds' = bounds /\ adjusting' = adjusting
    BY DEF InGetWork
  <1>6. StaffKept
    <2>1. Moved(w, "run") /\ "run" \in PCs \ {"none"}
      BY <1>2 DEF Moved, PCs
    <2> QED BY <2>1, <1>2, <1>3, MovedStaff DEF GroupInv, InGetWork
  <1>7. /\ \A v \in Workers : v # w => pc'[v] = pc[v] /\ task'[v] = task[v]
        /\ pc'[w] = "run" /\ task'[w] = p
    BY <1>1, <1>2
  <1>8. w \in Running' /\ block'[w] = "none"
    BY <1>3, <1>5, <1>7 DEF Running
  <1>9. CountsKept
    <2>1. OnlyOf(w)
      BY <1>5, <1>7 DEF OnlyOf
    <2>2. Follows(w)
      <3>1. /\ w \notin In(Unresolved) /\ w \notin In(Unresolved)'
            /\ w \notin Counted /\ w \notin Counted'
        BY <1>3, <1>5 DEF In, Unresolved, Counted
      <3>2. /\ w \notin OfBestEffort(In(Unresolved))
            /\ w \notin OfBestEffort(In(Unresolved))'
            /\ w \notin OfBestEffort(Counted) /\ w \notin OfBestEffort(Counted)'
            /\ w \notin OfBestEffort(Running)
            /\ w \in OfBestEffort(Running)' <=> p = BestEffort
        BY <3>1, <1>3, <1>7, <1>8 DEF OfBestEffort
      <3>3. count' = [count EXCEPT !.running = @ + 1,
                                   !.runningBE = @ + One(p = BestEffort)]
        BY <1>2 DEF IncrementTasksRunning
      <3> QED BY <1>1, <1>3, <1>8, <3>1, <3>2, <3>3
              DEF Follows, One, Counters
    <2>3. count' \in AnyCounters
      BY <1>1, <1>2, CountersChange
    <2> QED BY <1>3, <1>7, <1>8, <2>1, <2>2, <2>3, CountsFollow
            DEF GroupInv, Blocks
  <1>10. /\ queued' \in [Priorities -> 0..MaxCalls] /\ QueueInv'
         /\ queued' \in [Priorities -> Nat]
    <2>1. queued[p] \in 0..MaxCalls /\ queued[p] - 1 \in 0..MaxCalls
      BY <1>1, <1>4
    <2>2. queued' \in [Priorities -> 0..MaxCalls]
      BY <1>1, <1>2, <2>1
    <2>3. queued'[BestEffort] + queued'[Foreground]
             <= queued[BestEffort] + queued[Foreground]
      <3>1. CASE p = BestEffort
        BY <3>1, <1>1, <1>2, <1>4, BothPriorities
      <3>2. CASE p = Foreground
        BY <3>2, <1>1, <1>2, <1>4, BothPriorities
      <3> QED BY <3>1, <3>2, <1>4, BothPriorities
    <2>4. QueueInv'
      <3>1. calls' = calls
        BY <1>5 DEF bounds
      <3>2. /\ queued[BestEffort] \in Nat /\ queued[Foreground] \in Nat
            /\ queued'[BestEffort] \in Nat /\ queued'[Foreground] \in Nat
        BY <1>1, <2>2, BothPriorities
      <3> QED BY <3>1, <3>2, <2>3, <1>1 DEF QueueInv
    <2>5. queued' \in [Priorities -> Nat]
      BY <2>2, <1>1
    <2> QED BY <2>2, <2>4, <2>5
  <1>11. RestKept
    <2>1. task' \in [Workers -> Priorities]
      BY <1>1, <1>2, <1>4
    <2> QED BY <2>1, <1>5, <1>10, RestTypes DEF RestKept, GroupInv, bounds
  <1>12. StaffInv'
    <2>1. minAllowed' \in Priorities /\ posted' \in BOOLEAN
      BY <1>2, MinAllowedType DEF InGetWork
    <2> QED BY <2>1, <1>3, <1>6, <1>9, <1>11, Assembled DEF GroupInv
  <1>13. ChaseInv'
    <2>1. (DesiredNumAwakeWorkers(queued, count))'
             = DesiredNumAwakeWorkers(queued, count)
      <3>1. (DesiredNumAwakeWorkers(queued, count))'
               = DesiredNumAwakeWorkers(queued', count')
        BY <1>5 DEF DesiredNumAwakeWorkers, NumAdditionalWorkers
      <3> QED BY <3>1, <1>1, <1>2, TakenDemand DEF CanTakeTop, p
    <2>2. NumAwakeWorkers' = NumAwakeWorkers
      BY <1>2 DEF NumAwakeWorkers
    <2>3. CASE pc[w] = "get"
      BY <2>1, <2>2, <2>3 DEF InGetWork, Deficit, ChaseInv
    <2>4. CASE pc[w] = "flush"
      <3>1. \A v \in Workers : v # w => /\ Looks(v) => Looks(v)'
                                        /\ LooksLate(v) => LooksLate(v)'
        BY <1>2, <1>5, <1>7 DEF Looks, LooksLate, Running, Awake
      <3>2. LooksLate(w)' /\ ~Looks(w)
        BY <2>4, <1>2, <1>3, <1>8 DEF Looks, LooksLate, Awake
      <3>3. \A v \in Workers : /\ Looks(v) => Looks(v)'
                               /\ LooksLate(v) => LooksLate(v)'
        BY <3>1, <3>2
      <3> QED BY <2>1, <2>2, <3>3, <1>5, ChaseStays DEF Deficit, GroupInv
    <2> QED BY <2>3, <2>4 DEF InGetWork
  <1>14. LimitInv'
    BY <1>8 DEF LimitInv
  <1> QED BY <1>12, <1>13, <1>14 DEF GroupInv, InGetWork

LEMMA TakeWorkInv ==
    ASSUME GroupInv, NEW w \in Workers, InGetWork(w),
           NEW least \in Priorities, TakeWork(w, least)
    PROVE  GroupInv'
  <1>1. CASE TakeTop(w)
    BY <1>1, TakeTopInv
  <1>2. CASE /\ StayIdle(w) \/ Cleanup(w) \/ BecomeIdle(w)
             /\ minAllowed' = least
             /\ UNCHANGED <<queued, count, task>>
    BY <1>2, StayIdleInv, CleanupInv, BecomeIdleInv
  <1> QED BY <1>1, <1>2 DEF TakeWork

\* A critical section of w that schedules no more than AdjustMaxTasks.
LEMMA ScheduleLittle ==
    ASSUME GroupInv, NEW w \in Workers, owes[w] = Nothing,
           NEW q, NEW c, Schedule(w, Pool, q, c, posted), adjusting' = adjusting
    PROVE  /\ OwesLittle(w) /\ PostedInv' /\ posted' \in BOOLEAN
           /\ posted => posted'
           /\ ShouldPeriodicallyAdjustMaxTasks(q, c) => posted'
  <1> DEFINE must == ~posted /\ ShouldPeriodicallyAdjustMaxTasks(q, c)
             work == [wake |-> Pool.wake, start |-> Pool.start, adjust |-> must]
  <1>1. /\ owes \in [Threads -> Works] /\ posted \in BOOLEAN /\ w \in Threads
    BY StaffTypes, RestTypes DEF GroupInv, Threads
  <1>2. owes' = [owes EXCEPT ![w] = work] /\ posted' = (posted \/ must)
    BY DEF Schedule
  <1>3. must \in BOOLEAN /\ (must => ~posted)
        /\ (ShouldPeriodicallyAdjustMaxTasks(q, c) => posted \/ must)
    BY <1>1 DEF ShouldPeriodicallyAdjustMaxTasks
  <1> HIDE DEF must
  <1>4. /\ work \in Works /\ work.wake = <<>> /\ work.start = <<>>
        /\ work.adjust = must
    BY <1>3, NothingFacts DEF Pool, Works
  <1> HIDE DEF work
  <1>5. /\ owes'[w] = work /\ owes' \in [Threads -> Works]
        /\ \A t \in Threads : t # w => owes'[t] = owes[t]
    BY <1>1, <1>2, <1>4
  <1>6. OwesLittle(w)
    BY <1>4, <1>5, NothingFacts DEF OwesLittle
  <1>7. PostedInv'
    BY <1>1, <1>2, <1>3, <1>4, <1>5, PostedScheduled DEF GroupInv
  <1> QED BY <1>1, <1>2, <1>3, <1>6, <1>7

LEMMA GetWorkInv ==
    ASSUME GroupInv, NEW w \in Workers, GetWork(w)
    PROVE  GroupInv'
  <1> DEFINE pool == EnoughWorkers(queued, count)
             least == MinAllowedPriority(queued, count)
  <1>1. /\ pc[w] = "get" /\ owes[w] = Nothing
        /\ Schedule(w, pool, queued, count, posted)
        /\ UNCHANGED <<block, adjusting, canRun, policyOwed, bounds>>
    BY DEF GetWork, At, IsFree
  <1>2. /\ GroupOK /\ queued \in [Priorities -> Nat] /\ count \in Counters
        /\ posted \in BOOLEAN /\ pc \in [Workers -> PCs]
    BY StaffIsOK, RestTypes, StaffTypes DEF GroupInv
  <1>3. /\ PoolOK(pool) /\ (pool = Pool => ~Deficit)
        /\ DesiredNumAwakeWorkers(queued, count)
              > Cardinality(pool.workers) - Len(pool.idle)
           => \E u, v \in Range(pool.wake) : u # v
    BY <1>2, EnoughWorkersFacts DEF Deficit
  <1>4. least \in Priorities
    BY MinAllowedType
  <1>5. CASE pool = Pool
    <2>1. TakeWork(w, least)
      BY <1>5 DEF GetWork
    <2>2. Schedule(w, Pool, queued, count, posted)
      BY <1>1, <1>5
    <2> HIDE DEF least, pool
    <2>3. /\ OwesLittle(w) /\ PostedInv' /\ posted' \in BOOLEAN
          /\ posted => posted'
          /\ ShouldPeriodicallyAdjustMaxTasks(queued, count) => posted'
      BY <1>1, <2>2, ScheduleLittle
    <2>4. InGetWork(w)
      BY <1>1, <1>3, <1>5, <2>3 DEF InGetWork
    <2> QED BY <1>4, <2>1, <2>4, TakeWorkInv
  <1>6. CASE pool # Pool
    <2>1. /\ workers' = pool.workers /\ idle' = pool.idle
          /\ minAllowed' = least /\ pc' = [pc EXCEPT ![w] = "flush"]
          /\ UNCHANGED <<queued, count, event, task>>
      BY <1>6 DEF GetWork, Goto
    <2> HIDE DEF least, pool
    <2>2. NumAwakeWorkers' = Cardinality(pool.workers) - Len(pool.idle)
      BY <2>1 DEF NumAwakeWorkers
    <2>3. Ensured(w, pool, queued, count, posted)
      BY <1>1, <1>3, <1>4, <2>1, <2>2 DEF Ensured, Schedule
    <2>4. Ensured(w, pool, queued', count', posted)
      BY <2>1, <2>3
    <2>5. PlacesKept(w)
      BY <1>1, <1>2, <2>1 DEF PlacesKept, PCs
    <2>6. \A v \in Workers :
             pc'[v] = pc[v] \/ {pc[v], pc'[v]} \cap {"run", "upgrade"} = {}
      BY <1>1, <1>2, <2>1
    <2>7. CountsKept
      BY <1>1, <2>1, <2>6, CountsStay DEF GroupInv
    <2>8. RestKept
      BY <1>1, <2>1, RestStays, RestTypes DEF GroupInv
    <2>9. w \in Threads /\ count'.max # 0
      BY <1>1, <2>1, ThreadFacts DEF GroupInv
    <2> QED BY <1>1, <1>2, <2>1, <2>4, <2>5, <2>7, <2>8, <2>9, EnsuredInv
  <1> QED BY <1>5, <1>6

LEMMA GetWorkAfterFlushInv ==
    ASSUME GroupInv, NEW w \in Workers, GetWorkAfterFlush(w)
    PROVE  GroupInv'
  <1>1. /\ pc[w] = "flush" /\ owes' = owes /\ posted' = posted
        /\ UNCHANGED <<block, adjusting, canRun, policyOwed, bounds>>
        /\ TakeWork(w, minAllowed)
    BY DEF GetWorkAfterFlush, At
  <1>2. minAllowed \in Priorities /\ posted \in BOOLEAN
    BY RestTypes DEF GroupInv
  <1>3. OwesLittle(w) /\ PostedInv'
    BY <1>1, OwesStays, PostedStays DEF GroupInv
  <1>4. InGetWork(w)
    BY <1>1, <1>2, <1>3 DEF InGetWork
  <1> QED BY <1>1, <1>2, <1>4, TakeWorkInv

-----------------------------------------------------------------------------
(* Steps of a worker in its task.                                          *)

\* The counters of a worker in its task, and what its end leaves of them.
LEMMA EndFollows ==
    ASSUME StaffInv, NEW w \in Workers, pc[w] = "run", block[w] = "none",
           count' = DecrementTasksRunning(count, task[w]),
           pc' = [pc EXCEPT ![w] = "reset"], task' = task, block' = block
    PROVE  CountsKept /\ count.max # 0 /\ count'.max = count.max
              /\ count'.max # 0
  <1>1. /\ count \in Counters /\ task \in [Workers -> Priorities]
        /\ pc \in [Workers -> PCs]
    BY RestTypes, StaffTypes
  <1>2. \A v \in Workers : /\ v # w => pc'[v] = pc[v]
                           /\ v = w => pc'[v] = "reset"
    BY <1>1
  <1>3. OnlyOf(w)
    BY <1>2 DEF OnlyOf
  <1>4. count' = [count EXCEPT !.running = @ - 1,
                               !.runningBE = @ - One(task[w] = BestEffort)]
    BY DEF DecrementTasksRunning
  <1>5. Follows(w)
    <2>1. /\ w \notin In(Unresolved) /\ w \notin In(Unresolved)'
          /\ w \notin Counted /\ w \notin Counted'
          /\ w \in Running /\ w \notin Running'
      BY <1>2 DEF In, Unresolved, Counted, Running
    <2>2. /\ w \notin OfBestEffort(In(Unresolved))
          /\ w \notin OfBestEffort(In(Unresolved))'
          /\ w \notin OfBestEffort(Counted) /\ w \notin OfBestEffort(Counted)'
          /\ w \notin OfBestEffort(Running)'
          /\ w \in OfBestEffort(Running) <=> task[w] = BestEffort
      BY <2>1 DEF OfBestEffort
    <2> QED BY <1>1, <1>4, <2>1, <2>2 DEF Follows, One, Counters
  <1>6. count' \in AnyCounters
    BY <1>1, CountersChange
  <1>7. CountsKept /\ count.max # 0 /\ count'.max # 0
    <2>1. block'[w] \in Blocks /\ block'[w] = "none" /\ pc[w] # "none"
      BY DEF Blocks
    <2> QED BY <2>1, <1>3, <1>5, <1>6, CountsFollow
  <1> QED BY <1>1, <1>4, <1>7 DEF Counters

LEMMA DidProcessTaskInv ==
    ASSUME GroupInv, NEW w \in Workers, DidProcessTask(w)
    PROVE  GroupInv'
  <1>1. /\ pc[w] = "run" /\ block[w] = "none"
        /\ count' = DecrementTasksRunning(count, task[w])
        /\ minAllowed' = MinAllowedPriority(queued, count')
        /\ pc' = [pc EXCEPT ![w] = "reset"]
        /\ UNCHANGED <<queued, workers, idle, event, task, block, owes, posted,
                       adjusting, canRun, policyOwed, bounds>>
    BY DEF DidProcessTask, At, Goto
  <1>2. CountsKept /\ count.max # 0
    BY <1>1, EndFollows DEF GroupInv
  <1>3. w \in workers /\ w \notin Range(idle) /\ pc \in [Workers -> PCs]
    BY <1>1, ThreadFacts, StaffTypes DEF GroupInv
  <1>4. StaffKept
    <2>1. Moved(w, "reset") /\ OwesLittle(w) /\ "reset" \in PCs \ {"none"}
      BY <1>1, OwesStays DEF Moved, PCs, GroupInv
    <2> QED BY <2>1, <1>1, <1>3, MovedStaff DEF GroupInv
  <1>5. RestKept /\ minAllowed' \in Priorities /\ posted' \in BOOLEAN
    BY <1>1, RestStays, RestTypes, MinAllowedType DEF GroupInv
  <1>6. StaffInv'
    BY <1>2, <1>4, <1>5, Assembled DEF GroupInv
  <1>7. PostedInv'
    BY <1>1, PostedStays DEF GroupInv
  <1>8. Looks(w)'
    BY <1>1, <1>3 DEF Looks, Awake
  <1> QED BY <1>6, <1>7, <1>8 DEF GroupInv, ChaseInv, LimitInv

\* The queue after a call that changes one priority.
LEMMA QueueUp ==
    ASSUME StaffInv, NEW p \in Priorities, calls < MaxCalls,
           calls' = calls + 1, queued' = [queued EXCEPT ![p] = @ + 1]
    PROVE  /\ queued' \in [Priorities -> 0..MaxCalls] /\ QueueInv'
           /\ queued' \in [Priorities -> Nat] /\ calls' \in 0..MaxCalls
  <1>1. /\ queued \in [Priorities -> 0..MaxCalls] /\ calls \in 0..MaxCalls
        /\ MaxCalls \in Nat /\ QueueInv /\ queued \in [Priorities -> Nat]
    BY RestTypes
  <1>2. queued[BestEffort] \in Nat /\ queued[Foreground] \in Nat
    BY <1>1, BothPriorities
  <1>3. queued[BestEffort] + queued[Foreground] <= calls
    BY <1>1 DEF QueueInv
  <1>4. /\ queued'[BestEffort] + queued'[Foreground]
              = queued[BestEffort] + queued[Foreground] + 1
        /\ queued'[p] = queued[p] + 1
        /\ \A r \in Priorities : r # p => queued'[r] = queued[r]
    <2>1. CASE p = BestEffort
      BY <2>1, <1>1, <1>2, BothPriorities
    <2>2. CASE p = Foreground
      BY <2>2, <1>1, <1>2, BothPriorities
    <2> QED BY <2>1, <2>2, BothPriorities
  <1>5. QueueInv'
    BY <1>1, <1>2, <1>3, <1>4 DEF QueueInv
  <1>6. queued[p] + 1 \in 0..MaxCalls
    <2>1. CASE p = BestEffort
      BY <2>1, <1>1, <1>2, <1>3
    <2>2. CASE p = Foreground
      BY <2>2, <1>1, <1>2, <1>3
    <2> QED BY <2>1, <2>2, BothPriorities
  <1>7. queued' \in [Priorities -> 0..MaxCalls]
    BY <1>1, <1>6
  <1>8. queued' \in [Priorities -> Nat]
    BY <1>1, <1>7
  <1> QED BY <1>1, <1>5, <1>7, <1>8

LEMMA ReEnqueueInv ==
    ASSUME GroupInv, NEW w \in Workers, NEW p \in Priorities,
           ReEnqueueTaskSource(w, p)
    PROVE  GroupInv'
  <1>1. /\ pc[w] = "run" /\ block[w] = "none" /\ owes[w] = Nothing
        /\ calls < MaxCalls /\ calls' = calls + 1
        /\ queued' = [queued EXCEPT ![p] = @ + 1]
        /\ count' = DecrementTasksRunning(count, task[w])
        /\ EnsureEnoughWorkers(w, queued', count', posted)
        /\ pc' = [pc EXCEPT ![w] = "reset"]
        /\ UNCHANGED <<event, task, block, adjusting, canRun, policyOwed,
                       blocks, policies>>
    BY DEF ReEnqueueTaskSource, At, Goto, IsFree
  <1>2. CountsKept /\ count'.max # 0
    BY <1>1, EndFollows DEF GroupInv
  <1>3. /\ queued' \in [Priorities -> 0..MaxCalls] /\ QueueInv'
        /\ queued' \in [Priorities -> Nat] /\ calls' \in 0..MaxCalls
    BY <1>1, QueueUp DEF GroupInv
  <1>4. RestKept
    BY <1>1, <1>3, RestTypes DEF RestKept, GroupInv
  <1>5. PlacesKept(w)
    BY <1>1, StaffTypes DEF PlacesKept, PCs, GroupInv
  <1>6. w \in Threads /\ posted \in BOOLEAN /\ count' \in Counters
    BY <1>2, RestTypes DEF Threads, GroupInv, CountsKept
  <1>7. PICK pool : Ensured(w, pool, queued', count', posted)
    BY <1>1, <1>2, <1>3, <1>6, EnsureIsEnsured DEF GroupInv
  <1> QED BY <1>1, <1>2, <1>4, <1>5, <1>6, <1>7, EnsuredInv

\* What the sets of a worker in its task are, before and after a step.
LEMMA MembersOf ==
    ASSUME NEW w \in Workers
    PROVE  /\ w \in Running <=> pc[w] \in {"run", "upgrade"}
           /\ w \in OfBestEffort(Running)
                 <=> w \in Running /\ task[w] = BestEffort
           /\ w \in In(Unresolved) <=> block[w] \in {"may", "overdue"}
           /\ w \in OfBestEffort(In(Unresolved))
                 <=> w \in In(Unresolved) /\ task[w] = BestEffort
           /\ w \in Counted <=> block[w] = "counted"
           /\ w \in OfBestEffort(Counted)
                 <=> w \in Counted /\ task[w] = BestEffort
           /\ w \in Running' <=> pc'[w] \in {"run", "upgrade"}
           /\ w \in OfBestEffort(Running)'
                 <=> w \in Running' /\ task'[w] = BestEffort
           /\ w \in In(Unresolved)' <=> block'[w] \in {"may", "overdue"}
           /\ w \in OfBestEffort(In(Unresolved))'
                 <=> w \in In(Unresolved)' /\ task'[w] = BestEffort
           /\ w \in Counted' <=> block'[w] = "counted"
           /\ w \in OfBestEffort(Counted)'
                 <=> w \in Counted' /\ task'[w] = BestEffort
  BY DEF Running, OfBestEffort, In, Unresolved, Counted

LEMMA MayBlockEnteredInv ==
    ASSUME GroupInv, NEW w \in Workers, MayBlockEntered(w)
    PROVE  GroupInv'
  <1>1. /\ pc[w] = "run" /\ block[w] = "none" /\ owes[w] = Nothing
        /\ blocks < MaxBlocks /\ blocks' = blocks + 1
        /\ block' = [block EXCEPT ![w] = "may"]
        /\ count' = AddUnresolved(count, task[w])
        /\ Schedule(w, Pool, queued, count', posted)
        /\ UNCHANGED <<queued, workers, idle, minAllowed, pc, event, task,
                       adjusting, canRun, policyOwed, calls, policies>>
    BY DEF MayBlockEntered, At, IsFree
  <1>2. /\ count \in Counters /\ block \in [Workers -> Blocks]
        /\ pc \in [Workers -> PCs] /\ blocks \in 0..MaxBlocks /\ MaxBlocks \in Nat
        /\ queued \in [Priorities -> Nat] /\ minAllowed \in Priorities
    BY RestTypes, StaffTypes DEF GroupInv
  <1>3. /\ OwesLittle(w) /\ PostedInv' /\ posted' \in BOOLEAN
        /\ posted => posted'
        /\ ShouldPeriodicallyAdjustMaxTasks(queued, count') => posted'
    BY <1>1, ScheduleLittle DEF GroupInv
  <1>4. /\ w \in workers /\ count.max # 0 /\ w \notin Range(idle)
    BY <1>1, ThreadFacts DEF GroupInv
  <1>5. StaffKept
    <2>1. Moved(w, "run") /\ "run" \in PCs \ {"none"}
      BY <1>1, <1>2 DEF Moved, PCs
    <2> QED BY <2>1, <1>1, <1>3, <1>4, MovedStaff DEF GroupInv
  <1>6. \A v \in Workers : /\ v # w => block'[v] = block[v]
                           /\ v = w => block'[v] = "may"
    BY <1>1, <1>2
  <1>7. count' = [count EXCEPT !.unresolved = @ + 1,
                               !.unresolvedBE = @ + One(task[w] = BestEffort)]
    BY <1>1 DEF AddUnresolved
  <1>8. CountsKept
    <2>1. OnlyOf(w)
      BY <1>1, <1>6 DEF OnlyOf
    <2>2. Follows(w)
      <3>1. /\ w \in Running /\ w \in Running'
            /\ w \notin In(Unresolved) /\ w \in In(Unresolved)'
            /\ w \notin Counted /\ w \notin Counted'
        BY <1>1, <1>6, MembersOf
      <3> QED BY <3>1, <1>1, <1>2, <1>7, MembersOf DEF Follows, One, Counters
    <2>3. count' \in AnyCounters
      BY <1>1, <1>2, CountersChange
    <2>4. block'[w] \in Blocks /\ pc[w] # "none"
             /\ pc'[w] \in {"run", "upgrade"}
      BY <1>1, <1>6 DEF Blocks
    <2> QED BY <2>1, <2>2, <2>3, <2>4, CountsFollow DEF GroupInv
  <1>9. RestKept
    <2>1. block' \in [Workers -> Blocks]
      BY <1>1, <1>2 DEF Blocks
    <2>2. blocks' \in 0..MaxBlocks
      BY <1>1, <1>2
    <2> QED BY <2>1, <2>2, <1>1, RestTypes DEF RestKept, QueueInv, GroupInv
  <1>10. StaffInv'
    BY <1>1, <1>2, <1>3, <1>4, <1>5, <1>8, <1>9, Assembled DEF GroupInv
  <1>11. ChaseInv'
    <2>1. /\ count'.running = count.running /\ count'.runningBE = count.runningBE
          /\ count'.max = count.max /\ count'.maxBE = count.maxBE
      BY <1>2, <1>7 DEF Counters
    <2>2. (DesiredNumAwakeWorkers(queued, count))'
             = DesiredNumAwakeWorkers(queued, count)
      BY <2>1, <1>1 DEF DesiredNumAwakeWorkers, NumAdditionalWorkers
    <2>3. NumAwakeWorkers' = NumAwakeWorkers
      BY <1>1 DEF NumAwakeWorkers
    <2>4. \A v \in Workers : /\ Looks(v) => Looks(v)'
                             /\ LooksLate(v) => LooksLate(v)'
      BY <1>1, <1>6 DEF Looks, LooksLate, Running, Awake
    <2> QED BY <2>2, <2>3, <2>4, <1>1, ChaseStays DEF GroupInv, Deficit
  <1>12. LimitInv'
    <2>1. (ShouldPeriodicallyAdjustMaxTasks(queued, count))'
             = ShouldPeriodicallyAdjustMaxTasks(queued, count')
      BY <1>1 DEF ShouldPeriodicallyAdjustMaxTasks, NumAdditionalWorkers
    <2> QED BY <2>1, <1>3 DEF LimitInv
  <1> QED BY <1>3, <1>10, <1>11, <1>12 DEF GroupInv

\* BlockingTypeUpgraded and BlockingEnded: a task outside of blocking calls
\* wants no more workers than before, and looks at its next call or its end.
LEMMA UnblockedInv ==
    ASSUME GroupInv, NEW w \in Workers,
           pc[w] = "run", block[w] # "none",
           pc' = [pc EXCEPT ![w] = "run"] \/ pc' = [pc EXCEPT ![w] = "upgrade"],
           block' = [block EXCEPT ![w] = "none"],
           IF block[w] = "counted"
              THEN count' = DecrementMaxTasks(count, task[w])
              ELSE count' = DropUnresolved(count, task[w]),
           minAllowed' \in Priorities,
           UNCHANGED <<queued, workers, idle, event, task, owes, posted,
                       adjusting, canRun, policyOwed, bounds>>
    PROVE  GroupInv'
  <1>1. /\ count \in Counters /\ block \in [Workers -> Blocks]
        /\ pc \in [Workers -> PCs] /\ posted \in BOOLEAN
        /\ queued \in [Priorities -> Nat]
    BY RestTypes, StaffTypes DEF GroupInv
  <1>2. /\ w \in workers /\ count.max # 0 /\ w \notin Range(idle)
    BY ThreadFacts DEF GroupInv
  <1>3. \A v \in Workers : /\ v # w => block'[v] = block[v] /\ pc'[v] = pc[v]
                           /\ v = w => block'[v] = "none"
                                         /\ pc'[v] \in {"run", "upgrade"}
    BY <1>1
  <1>4. StaffKept
    <2>1. OwesLittle(w)
      BY OwesStays DEF GroupInv
    <2>2. CASE pc' = [pc EXCEPT ![w] = "run"]
      <3>1. Moved(w, "run") /\ "run" \in PCs \ {"none"}
        BY <2>2 DEF Moved, PCs
      <3> QED BY <3>1, <2>1, <1>2, MovedStaff DEF GroupInv
    <2>3. CASE pc' = [pc EXCEPT ![w] = "upgrade"]
      <3>1. Moved(w, "upgrade") /\ "upgrade" \in PCs \ {"none"}
        BY <2>3 DEF Moved, PCs
      <3> QED BY <3>1, <2>1, <1>2, MovedStaff DEF GroupInv
    <2> QED BY <2>2, <2>3
  <1>5. \/ /\ block[w] = "counted"
           /\ count' = [count EXCEPT !.max = @ - 1,
                                     !.maxBE = @ - One(task[w] = BestEffort)]
        \/ /\ block[w] \in {"may", "overdue"}
           /\ count' = [count EXCEPT !.unresolved = @ - 1,
                              !.unresolvedBE = @ - One(task[w] = BestEffort)]
    BY <1>1 DEF DecrementMaxTasks, DropUnresolved, Blocks
  <1>6. CountsKept
    <2>1. OnlyOf(w)
      BY <1>3 DEF OnlyOf
    <2>2. Follows(w)
      <3>1. /\ w \in Running /\ w \in Running'
            /\ w \notin In(Unresolved)' /\ w \notin Counted'
        BY <1>3, MembersOf
      <3>2. CASE block[w] = "counted"
        <4>1. w \in Counted /\ w \notin In(Unresolved)
          BY <3>2, MembersOf
        <4>2. count' = [count EXCEPT !.max = @ - 1,
                                     !.maxBE = @ - One(task[w] = BestEffort)]
          BY <3>2, <1>5
        <4> QED BY <3>1, <4>1, <4>2, <1>1, MembersOf
                DEF Follows, One, Counters
      <3>3. CASE block[w] \in {"may", "overdue"}
        <4>1. w \notin Counted /\ w \in In(Unresolved)
          BY <3>3, MembersOf
        <4>2. count' = [count EXCEPT !.unresolved = @ - 1,
                           !.unresolvedBE = @ - One(task[w] = BestEffort)]
          BY <3>3, <1>5
        <4> QED BY <3>1, <4>1, <4>2, <1>1, MembersOf
                DEF Follows, One, Counters
      <3> QED BY <3>2, <3>3, <1>5
    <2>3. count' \in AnyCounters
      BY <1>1, CountersChange
    <2>4. block'[w] \in Blocks /\ pc[w] # "none"
             /\ pc'[w] \in {"run", "upgrade"}
      BY <1>3 DEF Blocks
    <2> QED BY <2>1, <2>2, <2>3, <2>4, CountsFollow DEF GroupInv
  <1>7. RestKept
    <2>1. block' \in [Workers -> Blocks]
      BY <1>1 DEF Blocks
    <2> QED BY <2>1, RestTypes DEF RestKept, QueueInv, GroupInv, bounds
  <1>8. StaffInv'
    BY <1>1, <1>2, <1>4, <1>6, <1>7, Assembled DEF GroupInv
  <1>9. PostedInv'
    BY PostedStays DEF GroupInv
  <1>10. w \in Running' /\ block'[w] = "none"
    BY <1>3 DEF Running
  <1>11. ChaseInv'
    <2>1. count' \in Counters
      BY <1>6 DEF CountsKept
    <2>2. /\ count'.running = count.running /\ count'.runningBE = count.runningBE
          /\ count'.max <= count.max /\ count'.maxBE <= count.maxBE
      <3> DEFINE one == One(task[w] = BestEffort)
      <3>1. one \in {0, 1}
        BY DEF One
      <3>2. \/ count' = [count EXCEPT !.max = @ - 1, !.maxBE = @ - one]
            \/ count' = [count EXCEPT !.unresolved = @ - 1,
                                      !.unresolvedBE = @ - one]
        BY <1>5
      <3> HIDE DEF one
      <3>3. CASE count' = [count EXCEPT !.max = @ - 1, !.maxBE = @ - one]
        BY <3>1, <3>3, <1>1 DEF Counters
      <3>4. CASE count' = [count EXCEPT !.unresolved = @ - 1,
                                        !.unresolvedBE = @ - one]
        BY <3>4, <1>1 DEF Counters
      <3> QED BY <3>2, <3>3, <3>4
    <2>3. DesiredNumAwakeWorkers(queued, count')
             <= DesiredNumAwakeWorkers(queued, count)
      <3>1. queued[BestEffort] <= queued[BestEffort]
            /\ queued[Foreground] <= queued[Foreground]
        BY <1>1, BothPriorities
      <3> QED BY <3>1, <1>1, <2>1, <2>2, LessDemand
    <2>4. (DesiredNumAwakeWorkers(queued, count))'
             = DesiredNumAwakeWorkers(queued, count')
      BY DEF DesiredNumAwakeWorkers, NumAdditionalWorkers
    <2>5. NumAwakeWorkers' = NumAwakeWorkers /\ NumAwakeWorkers \in Int
          /\ DesiredNumAwakeWorkers(queued, count) \in Int
          /\ DesiredNumAwakeWorkers(queued, count') \in Int
      BY <1>1, <2>1, DesiredFacts, StaffIsOK, AwakeType
         DEF NumAwakeWorkers, GroupInv
    <2>6. Deficit' => Deficit
      <3> DEFINE a == DesiredNumAwakeWorkers(queued, count')
                 b == DesiredNumAwakeWorkers(queued, count)
                 n == NumAwakeWorkers
      <3>1. a <= b /\ a \in Int /\ b \in Int /\ n \in Int
        BY <2>3, <2>5
      <3> HIDE DEF a, b, n
      <3>2. a > n => b > n
        BY <3>1
      <3> QED BY <3>2, <2>4, <2>5 DEF Deficit, a, b, n
    <2>7. \A v \in Workers : /\ Looks(v) => Looks(v)'
                             /\ LooksLate(v) => LooksLate(v)'
      <3>1. LooksLate(w)' /\ ~Looks(w)
        BY <1>2, <1>10 DEF Looks, LooksLate, Awake
      <3>2. \A v \in Workers : v # w => /\ Looks(v) => Looks(v)'
                                        /\ LooksLate(v) => LooksLate(v)'
        BY <1>3 DEF Looks, LooksLate, Running, Awake
      <3> QED BY <3>1, <3>2
    <2> QED BY <2>6, <2>7, ChaseStays DEF GroupInv
  <1>12. LimitInv'
    BY <1>10 DEF LimitInv
  <1> QED BY <1>8, <1>9, <1>11, <1>12 DEF GroupInv

LEMMA BlockingTypeUpgradedInv ==
    ASSUME GroupInv, NEW w \in Workers, BlockingTypeUpgraded(w)
    PROVE  GroupInv'
  <1>1. /\ pc[w] = "run" /\ block[w] \in {"may", "overdue"}
        /\ block' = [block EXCEPT ![w] = "none"]
        /\ count' = DropUnresolved(count, task[w])
        /\ pc' = [pc EXCEPT ![w] = "upgrade"] /\ minAllowed' = minAllowed
        /\ UNCHANGED <<queued, workers, idle, event, task, owes, posted,
                       adjusting, canRun, policyOwed, bounds>>
    BY DEF BlockingTypeUpgraded, At, Goto, Unresolved
  <1>2. block[w] # "none" /\ block[w] # "counted"
    BY <1>1
  <1>3. minAllowed' \in Priorities
    BY <1>1, RestTypes DEF GroupInv
  <1> QED BY <1>1, <1>2, <1>3, UnblockedInv

LEMMA BlockingEndedInv ==
    ASSUME GroupInv, NEW w \in Workers, BlockingEnded(w)
    PROVE  GroupInv'
  <1>1. /\ pc[w] = "run" /\ block[w] # "none" /\ pc' = pc
        /\ block' = [block EXCEPT ![w] = "none"]
        /\ IF block[w] = "counted"
              THEN count' = DecrementMaxTasks(count, task[w])
              ELSE count' = DropUnresolved(count, task[w])
        /\ minAllowed' = minAllowed
              \/ minAllowed' = MinAllowedPriority(queued, count')
        /\ UNCHANGED <<queued, workers, idle, event, task, owes, posted,
                       adjusting, canRun, policyOwed, bounds>>
    BY DEF BlockingEnded, At
  <1>2. pc' = [pc EXCEPT ![w] = "run"]
    BY <1>1, StaffTypes DEF GroupInv
  <1>3. minAllowed' \in Priorities
    BY <1>1, RestTypes, MinAllowedType DEF GroupInv
  <1> QED BY <1>1, <1>2, <1>3, UnblockedInv

LEMMA WillBlockEnteredInv ==
    ASSUME GroupInv, NEW w \in Workers, WillBlockEntered(w)
    PROVE  GroupInv'
  <1>1. /\ pc[w] \in {"run", "upgrade"} /\ block[w] = "none"
        /\ owes[w] = Nothing
        /\ blocks' = blocks \/ (blocks < MaxBlocks /\ blocks' = blocks + 1)
        /\ block' = [block EXCEPT ![w] = "counted"]
        /\ count' = IncrementMaxTasks(count, task[w])
        /\ EnsureEnoughWorkers(w, queued, count', posted)
        /\ pc' = [pc EXCEPT ![w] = "run"]
        /\ UNCHANGED <<queued, event, task, adjusting, canRun, policyOwed,
                       calls, policies>>
    BY DEF WillBlockEntered, At, Goto, IsFree
  <1>2. /\ count \in Counters /\ block \in [Workers -> Blocks]
        /\ pc \in [Workers -> PCs] /\ blocks \in 0..MaxBlocks /\ MaxBlocks \in Nat
        /\ queued \in [Priorities -> Nat] /\ posted \in BOOLEAN
    BY RestTypes, StaffTypes DEF GroupInv
  <1>3. \A v \in Workers : /\ v # w => block'[v] = block[v] /\ pc'[v] = pc[v]
                           /\ v = w => block'[v] = "counted" /\ pc'[v] = "run"
    BY <1>1, <1>2
  <1>4. count' = [count EXCEPT !.max = @ + 1,
                               !.maxBE = @ + One(task[w] = BestEffort)]
    BY <1>1 DEF IncrementMaxTasks
  <1>5. CountsKept /\ count'.max # 0
    <2>1. OnlyOf(w)
      BY <1>1, <1>3 DEF OnlyOf
    <2>2. Follows(w)
      <3>1. /\ w \in Running /\ w \in Running'
            /\ w \notin In(Unresolved) /\ w \notin In(Unresolved)'
            /\ w \notin Counted /\ w \in Counted'
        BY <1>1, <1>3, MembersOf
      <3> QED BY <3>1, <1>1, <1>2, <1>4, MembersOf DEF Follows, One, Counters
    <2>3. count' \in AnyCounters
      BY <1>1, <1>2, CountersChange
    <2>4. block'[w] \in Blocks /\ pc[w] # "none"
             /\ pc'[w] \in {"run", "upgrade"}
      BY <1>1, <1>3 DEF Blocks
    <2> QED BY <2>1, <2>2, <2>3, <2>4, CountsFollow DEF GroupInv
  <1>6. RestKept
    <2>1. block' \in [Workers -> Blocks]
      BY <1>1, <1>2 DEF Blocks
    <2>2. blocks' \in 0..MaxBlocks
      BY <1>1, <1>2
    <2> QED BY <2>1, <2>2, <1>1, RestTypes DEF RestKept, QueueInv, GroupInv
  <1>7. PlacesKept(w)
    BY <1>1, <1>2 DEF PlacesKept, PCs
  <1>8. w \in Threads /\ count' \in Counters
    BY <1>5 DEF Threads, CountsKept
  <1>9. PICK pool : Ensured(w, pool, queued, count', posted)
    BY <1>1, <1>2, <1>5, <1>8, EnsureIsEnsured DEF GroupInv
  <1>10. Ensured(w, pool, queued', count', posted)
    BY <1>1, <1>9
  <1>11. pc[w] # "none"
    BY <1>1
  <1> QED BY <1>1, <1>2, <1>5, <1>6, <1>7, <1>8, <1>10, <1>11, EnsuredInv

-----------------------------------------------------------------------------
(* AdjustMaxTasks and the calls from outside.                              *)

\* Workers move from one set to another.
LEMMA SomeMove ==
    ASSUME NEW A \in SUBSET Workers, NEW C \in SUBSET Workers,
           NEW D \in SUBSET A, C \cap D = {}
    PROVE  /\ Cardinality(A) \in Nat /\ Cardinality(C) \in Nat
           /\ Cardinality(D) \in Nat /\ Cardinality(A \ D) \in Nat
           /\ Cardinality(A \ D) = Cardinality(A) - Cardinality(D)
           /\ Cardinality(C \cup D) = Cardinality(C) + Cardinality(D)
  <1>1. IsFiniteSet(A) /\ IsFiniteSet(C) /\ IsFiniteSet(D) /\ IsFiniteSet(A \ D)
    BY FS_Subset, ThreadsAssumption
  <1>2. /\ Cardinality(A) \in Nat /\ Cardinality(C) \in Nat
        /\ Cardinality(D) \in Nat /\ Cardinality(A \ D) \in Nat
    BY <1>1, FS_CardinalityType
  <1>3. Cardinality(A \ D) = Cardinality(A) - Cardinality(D)
    <2>1. A \cap D = D
      OBVIOUS
    <2> QED BY <1>1, <2>1, FS_Difference
  <1>4. Cardinality(C \cup D) = Cardinality(C) + Cardinality(D)
    <2>1. Cardinality(C \cup D)
             = Cardinality(C) + Cardinality(D) - Cardinality(C \cap D)
      BY <1>1, FS_Union
    <2>2. Cardinality(C \cap D) = 0
      BY FS_EmptySet
    <2> DEFINE u == Cardinality(C \cup D)
               c == Cardinality(C)
               d == Cardinality(D)
               i == Cardinality(C \cap D)
    <2>3. u = c + d - i /\ i = 0 /\ c \in Nat /\ d \in Nat
      BY <1>2, <2>1, <2>2
    <2> HIDE DEF u, c, d, i
    <2>4. u = c + d
      BY <2>3
    <2> QED BY <2>4 DEF u, c, d
  <1> QED BY <1>2, <1>3, <1>4

LEMMA AdjustMaxTasksInv ==
    ASSUME GroupInv, AdjustMaxTasks
    PROVE  GroupInv'
  <1> DEFINE due == Overdue
             dueBE == {w \in due : task[w] = BestEffort}
             n == Cardinality(due)
             nBE == Cardinality(dueBE)
  <1>1. /\ adjusting /\ owes[Service] = Nothing /\ adjusting' = FALSE
        /\ block' = [w \in Workers |-> IF w \in due THEN "counted" ELSE block[w]]
        /\ count' = [count EXCEPT !.max = @ + n, !.maxBE = @ + nBE,
                                  !.unresolved = @ - n, !.unresolvedBE = @ - nBE]
        /\ EnsureEnoughWorkers(Service, queued, count', FALSE)
        /\ UNCHANGED <<queued, pc, event, task, canRun, policyOwed, bounds>>
    BY DEF AdjustMaxTasks, AdjustFor, IsFree
  <1>2. /\ count \in Counters /\ block \in [Workers -> Blocks]
        /\ pc \in [Workers -> PCs] /\ workers \subseteq Workers
        /\ queued \in [Priorities -> Nat] /\ posted \in BOOLEAN
    BY RestTypes, StaffTypes DEF GroupInv
  <1>3. /\ \A w \in Workers : /\ w \in due => block[w] = "overdue"
                                                /\ block'[w] = "counted"
                              /\ w \notin due => block'[w] = block[w]
        /\ due \in SUBSET Workers
    BY <1>1, <1>2 DEF Overdue
  <1>4. count.max # 0
    BY <1>1 DEF GroupInv, PostedInv, StaffInv, StartedInv
  <1>5. /\ due \in SUBSET In(Unresolved) /\ Counted \cap due = {}
        /\ dueBE \in SUBSET OfBestEffort(In(Unresolved))
        /\ OfBestEffort(Counted) \cap dueBE = {}
    BY <1>3 DEF In, Unresolved, Counted, OfBestEffort
  <1>6. /\ In(Unresolved)' = In(Unresolved) \ due
        /\ Counted' = Counted \cup due
        /\ OfBestEffort(In(Unresolved))' = OfBestEffort(In(Unresolved)) \ dueBE
        /\ OfBestEffort(Counted)' = OfBestEffort(Counted) \cup dueBE
        /\ Running' = Running
        /\ OfBestEffort(Running)' = OfBestEffort(Running)
    <2>1. In(Unresolved)' = In(Unresolved) \ due
      BY <1>2, <1>3 DEF In, Unresolved
    <2>2. Counted' = Counted \cup due
      BY <1>2, <1>3 DEF In, Counted
    <2>3. task' = task /\ Running' = Running
      BY <1>1 DEF Running
    <2> HIDE DEF due
    <2> QED BY <2>1, <2>2, <2>3 DEF OfBestEffort
  <1> HIDE DEF due, dueBE
  <1>7. /\ Cardinality(In(Unresolved)) \in Nat /\ Cardinality(Counted) \in Nat
        /\ n \in Nat /\ Cardinality(In(Unresolved)') \in Nat
        /\ Cardinality(In(Unresolved)') = Cardinality(In(Unresolved)) - n
        /\ Cardinality(Counted') = Cardinality(Counted) + n
    <2> DEFINE A == In(Unresolved)
               C == Counted
    <2>1. /\ A \in SUBSET Workers /\ C \in SUBSET Workers
          /\ due \in SUBSET A /\ C \cap due = {}
      BY <1>5, SetTypes
    <2> HIDE DEF A, C
    <2>2. /\ Cardinality(A) \in Nat /\ Cardinality(C) \in Nat
          /\ Cardinality(due) \in Nat /\ Cardinality(A \ due) \in Nat
          /\ Cardinality(A \ due) = Cardinality(A) - Cardinality(due)
          /\ Cardinality(C \cup due) = Cardinality(C) + Cardinality(due)
      BY <2>1, SomeMove
    <2> QED BY <2>2, <1>6 DEF A, C
  <1>8. /\ Cardinality(OfBestEffort(In(Unresolved))) \in Nat
        /\ Cardinality(OfBestEffort(Counted)) \in Nat /\ nBE \in Nat
        /\ Cardinality(OfBestEffort(In(Unresolved))') \in Nat
        /\ Cardinality(OfBestEffort(In(Unresolved))')
              = Cardinality(OfBestEffort(In(Unresolved))) - nBE
        /\ Cardinality(OfBestEffort(Counted)')
              = Cardinality(OfBestEffort(Counted)) + nBE
    <2> DEFINE A == OfBestEffort(In(Unresolved))
               C == OfBestEffort(Counted)
    <2>1. /\ A \in SUBSET Workers /\ C \in SUBSET Workers
          /\ dueBE \in SUBSET A /\ C \cap dueBE = {}
      BY <1>5, SetTypes
    <2> HIDE DEF A, C
    <2>2. /\ Cardinality(A) \in Nat /\ Cardinality(C) \in Nat
          /\ Cardinality(dueBE) \in Nat /\ Cardinality(A \ dueBE) \in Nat
          /\ Cardinality(A \ dueBE) = Cardinality(A) - Cardinality(dueBE)
          /\ Cardinality(C \cup dueBE) = Cardinality(C) + Cardinality(dueBE)
      BY <2>1, SomeMove
    <2> QED BY <2>2, <1>6 DEF A, C
  <1> HIDE DEF n, nBE
  <1>9. CountsKept
    <2>1. /\ count.running = Cardinality(Running)
          /\ count.runningBE = Cardinality(OfBestEffort(Running))
          /\ count.unresolved = Cardinality(In(Unresolved))
          /\ count.unresolvedBE = Cardinality(OfBestEffort(In(Unresolved)))
          /\ count.max = InitialMaxTasks + Cardinality(Counted)
          /\ count.maxBE = InitialMaxBestEffort
                              + Cardinality(OfBestEffort(Counted))
          /\ In(Blocks \ {"none"}) \subseteq Running
      BY <1>4 DEF GroupInv, StaffInv, CountsExact, Counted
    <2>2. /\ count'.running = count.running /\ count'.runningBE = count.runningBE
          /\ count'.max = count.max + n /\ count'.maxBE = count.maxBE + nBE
          /\ count'.unresolved = count.unresolved - n
          /\ count'.unresolvedBE = count.unresolvedBE - nBE
      BY <1>1, <1>2 DEF Counters
    <2>3. /\ count'.unresolved = Cardinality(In(Unresolved)')
          /\ count'.unresolvedBE = Cardinality(OfBestEffort(In(Unresolved))')
      BY <1>7, <1>8, <2>1, <2>2
    <2>4. count'.max = InitialMaxTasks + Cardinality(Counted')
      <3> DEFINE c == Cardinality(Counted)
      <3>1. Cardinality(Counted') = c + n /\ c \in Nat
            /\ count'.max = (InitialMaxTasks + c) + n
        BY <1>7, <2>1, <2>2
      <3> HIDE DEF c
      <3>2. (InitialMaxTasks + c) + n = InitialMaxTasks + (c + n)
        BY <1>7, <3>1, InitialLimits
      <3> QED BY <3>1, <3>2
    <2>5. count'.maxBE = InitialMaxBestEffort
                            + Cardinality(OfBestEffort(Counted)')
      <3> DEFINE c == Cardinality(OfBestEffort(Counted))
      <3>1. Cardinality(OfBestEffort(Counted)') = c + nBE /\ c \in Nat
            /\ count'.maxBE = (InitialMaxBestEffort + c) + nBE
        BY <1>8, <2>1, <2>2
      <3> HIDE DEF c
      <3>2. (InitialMaxBestEffort + c) + nBE = InitialMaxBestEffort + (c + nBE)
        BY <1>8, <3>1, InitialLimits
      <3> QED BY <3>1, <3>2
    <2>6. In(Blocks \ {"none"})' \subseteq Running'
      <3> SUFFICES ASSUME NEW w \in Workers, block'[w] \in Blocks \ {"none"}
                   PROVE  w \in Running
        BY <1>6 DEF In
      <3>1. block[w] \in Blocks \ {"none"}
        BY <1>2, <1>3 DEF Blocks
      <3> QED BY <3>1, <2>1 DEF In
    <2>7. count'.max # 0 /\ count'.max \in Nat /\ count'.maxBE \in Nat
      BY <1>2, <1>4, <1>7, <1>8, <2>2 DEF Counters
    <2>8. count' \in Counters
      BY <1>1, <1>2, <1>7, <1>8, <2>3, <2>7 DEF Counters
    <2> QED BY <1>6, <2>1, <2>2, <2>3, <2>4, <2>5, <2>6, <2>7, <2>8
            DEF CountsKept, CountsExact, Counted
  <1>10. RestKept
    <2>1. block' \in [Workers -> Blocks]
      BY <1>1, <1>2 DEF Blocks
    <2> QED BY <2>1, <1>1, RestTypes DEF RestKept, QueueInv, GroupInv, bounds
  <1>11. /\ Service \in Threads /\ Service \notin Workers
         /\ count' \in Counters /\ count'.max # 0
    BY <1>4, <1>9, ThreadsAssumption DEF Threads, CountsKept
  <1>12. PlacesKept(Service)
    BY <1>1, <1>2 DEF PlacesKept
  <1>13. PICK pool : Ensured(Service, pool, queued, count', FALSE)
    BY <1>1, <1>2, <1>11, EnsureIsEnsured DEF GroupInv
  <1>14. Ensured(Service, pool, queued', count', FALSE)
    BY <1>1, <1>13
  <1> QED BY <1>1, <1>9, <1>10, <1>11, <1>12, <1>14, EnsuredInv

\* Calls that leave the workers' tasks alone and end in EnsureEnoughWorkers.
LEMMA CallInv ==
    ASSUME GroupInv, NEW t \in Threads, owes[t] = Nothing,
           t \in Workers => pc[t] # "none",
           UNCHANGED <<pc, event, task, block, adjusting, canRun>>,
           CountsKept, RestKept,
           count'.max = 0 => count' = count,
           EnsureEnoughWorkers(t, queued', count', posted)
    PROVE  GroupInv'
  <1>1. /\ queued' \in [Priorities -> Nat] /\ count' \in Counters
        /\ posted \in BOOLEAN
    <2>1. queued' \in [Priorities -> 0..MaxCalls] /\ MaxCalls \in Nat
      BY RestTypes DEF RestKept, GroupInv
    <2>2. queued' \in [Priorities -> Nat]
      BY <2>1
    <2> QED BY <2>2, RestTypes DEF CountsKept, GroupInv
  <1>2. count'.max = 0 => workers = {} /\ count'.unresolved = 0
                             /\ count'.unresolvedBE = 0
    BY NotStarted DEF GroupInv
  <1>3. PICK pool : Ensured(t, pool, queued', count', posted)
    BY <1>1, <1>2, EnsureIsEnsured DEF GroupInv
  <1>4. PlacesKept(t)
    BY StaffTypes DEF PlacesKept, GroupInv
  <1>5. count'.max = 0 => workers' = workers /\ posted' = posted
    BY DEF EnsureEnoughWorkers
  <1> QED BY <1>1, <1>3, <1>4, <1>5, EnsuredInv

LEMMA CallerFacts ==
    ASSUME NEW t \in Workers \cup {Main}, MayCall(t)
    PROVE  t \in Threads /\ owes[t] = Nothing /\ (t \in Workers => pc[t] # "none")
  <1>1. CASE t = Main
    BY <1>1, ThreadsAssumption DEF MayCall, IsFree, Threads
  <1>2. CASE t # Main
    BY <1>2 DEF MayCall, At, IsFree, Threads
  <1> QED BY <1>1, <1>2

\* The queue after a call that takes a source, and puts it back as another.
LEMMA QueueMoves ==
    ASSUME StaffInv, NEW p \in Priorities, queued[p] > 0,
           calls < MaxCalls, calls' = calls + 1,
           \/ queued' = [queued EXCEPT ![p] = @ - 1]
           \/ queued' = [queued EXCEPT ![p] = @ - 1, ![1 - p] = @ + 1]
    PROVE  /\ queued' \in [Priorities -> 0..MaxCalls] /\ QueueInv'
           /\ calls' \in 0..MaxCalls
  <1>1. /\ queued \in [Priorities -> 0..MaxCalls] /\ calls \in 0..MaxCalls
        /\ MaxCalls \in Nat /\ QueueInv /\ queued \in [Priorities -> Nat]
    BY RestTypes
  <1>2. queued[BestEffort] \in Nat /\ queued[Foreground] \in Nat
    BY <1>1, BothPriorities
  <1>3. queued[BestEffort] + queued[Foreground] <= calls
    BY <1>1 DEF QueueInv
  <1>4. DOMAIN queued' = Priorities
        /\ queued' = [r \in Priorities |-> queued'[r]]
    BY <1>1
  <1>5. /\ queued'[BestEffort] \in Nat /\ queued'[Foreground] \in Nat
        /\ queued'[BestEffort] + queued'[Foreground]
              <= queued[BestEffort] + queued[Foreground]
    <2>1. CASE queued' = [queued EXCEPT ![p] = @ - 1]
      <3>1. CASE p = BestEffort
        BY <2>1, <3>1, <1>1, <1>2, BothPriorities
      <3>2. CASE p = Foreground
        BY <2>1, <3>2, <1>1, <1>2, BothPriorities
      <3> QED BY <3>1, <3>2, BothPriorities
    <2>2. CASE queued' = [queued EXCEPT ![p] = @ - 1, ![1 - p] = @ + 1]
      <3>1. CASE p = BestEffort
        <4>1. 1 - p = Foreground
          BY <3>1 DEF BestEffort, Foreground
        <4> QED BY <2>2, <3>1, <4>1, <1>1, <1>2, BothPriorities
      <3>2. CASE p = Foreground
        <4>1. 1 - p = BestEffort
          BY <3>2 DEF BestEffort, Foreground
        <4> QED BY <2>2, <3>2, <4>1, <1>1, <1>2, BothPriorities
      <3> QED BY <3>1, <3>2, BothPriorities
    <2> QED BY <2>1, <2>2
  <1>6. QueueInv' /\ calls' \in 0..MaxCalls
    BY <1>1, <1>2, <1>3, <1>5 DEF QueueInv
  <1>7. queued'[BestEffort] \in 0..MaxCalls /\ queued'[Foreground] \in 0..MaxCalls
    BY <1>1, <1>2, <1>3, <1>5
  <1>8. \A r \in Priorities : queued'[r] \in 0..MaxCalls
    BY <1>7, BothPriorities
  <1>9. queued' \in [Priorities -> 0..MaxCalls]
    BY <1>4, <1>8
  <1> QED BY <1>6, <1>9

LEMMA CallStepInv ==
    ASSUME GroupInv, NEW t \in Workers \cup {Main}, NEW p \in Priorities,
           CallStep(t, p)
    PROVE  GroupInv'
  <1>1. /\ MayCall(t) /\ calls < MaxCalls /\ calls' = calls + 1
        /\ UNCHANGED <<count, pc, event, task, block, adjusting, canRun,
                       policyOwed, blocks, policies>>
    BY DEF CallStep, PushTaskSourceAndWakeUpWorkers, UpdateSortKey,
           RemoveTaskSource, Call
  <1>2. \/ /\ queued' = [queued EXCEPT ![p] = @ + 1]
           /\ EnsureEnoughWorkers(t, queued', count, posted)
        \/ /\ queued[p] > 0
           /\ queued' = [queued EXCEPT ![p] = @ - 1, ![1 - p] = @ + 1]
           /\ EnsureEnoughWorkers(t, queued', count, posted)
        \/ /\ queued[p] > 0
           /\ queued' = [queued EXCEPT ![p] = @ - 1]
           /\ UNCHANGED <<workers, idle, minAllowed, owes, posted>>
    BY DEF CallStep, PushTaskSourceAndWakeUpWorkers, UpdateSortKey,
           RemoveTaskSource, Call
  <1>3. t \in Threads /\ owes[t] = Nothing /\ (t \in Workers => pc[t] # "none")
    BY <1>1, CallerFacts
  <1>4. /\ queued' \in [Priorities -> 0..MaxCalls] /\ QueueInv'
        /\ calls' \in 0..MaxCalls
    BY <1>1, <1>2, QueueUp, QueueMoves DEF GroupInv
  <1>5. RestKept
    BY <1>1, <1>4, RestTypes DEF RestKept, GroupInv
  <1>6. CountsKept
    BY <1>1, CountsStay DEF GroupInv
  <1>7. CASE EnsureEnoughWorkers(t, queued', count, posted)
    <2>1. EnsureEnoughWorkers(t, queued', count', posted) /\ count' = count
      BY <1>1, <1>7
    <2> QED BY <1>1, <1>3, <1>5, <1>6, <2>1, CallInv
  <1>8. CASE /\ queued[p] > 0
             /\ queued' = [queued EXCEPT ![p] = @ - 1]
             /\ UNCHANGED <<workers, idle, minAllowed, owes, posted>>
    <2>1. StaffKept /\ NumAwakeWorkers' = NumAwakeWorkers
      BY <1>1, <1>8, UnchangedStaff DEF GroupInv
    <2>2. StaffInv'
      BY <1>5, <1>6, <1>8, <2>1, RestTypes, Assembled DEF GroupInv
    <2>3. /\ queued \in [Priorities -> Nat] /\ count \in Counters
          /\ MaxCalls \in Nat
      BY RestTypes DEF GroupInv
    <2>4. /\ queued' \in [Priorities -> Nat]
          /\ queued'[BestEffort] <= queued[BestEffort]
          /\ queued'[Foreground] <= queued[Foreground]
      <3>1. queued' \in [Priorities -> Nat]
        BY <1>4, <2>3
      <3>2. CASE p = BestEffort
        BY <3>1, <3>2, <1>8, <2>3, BothPriorities
      <3>3. CASE p = Foreground
        BY <3>1, <3>3, <1>8, <2>3, BothPriorities
      <3> QED BY <3>1, <3>2, <3>3, BothPriorities
    <2>5. /\ (DesiredNumAwakeWorkers(queued, count))'
                = DesiredNumAwakeWorkers(queued', count)
          /\ (ShouldPeriodicallyAdjustMaxTasks(queued, count))'
                = ShouldPeriodicallyAdjustMaxTasks(queued', count)
      BY <1>1 DEF DesiredNumAwakeWorkers, ShouldPeriodicallyAdjustMaxTasks,
                  NumAdditionalWorkers
    <2>6. Deficit' => Deficit
      <3> DEFINE a == DesiredNumAwakeWorkers(queued', count)
                 b == DesiredNumAwakeWorkers(queued, count)
                 n == NumAwakeWorkers
      <3>1. /\ count.max <= count.max /\ count.maxBE <= count.maxBE
            /\ a \in Int /\ b \in Int /\ n \in Int
        BY <2>3, <2>4, DesiredFacts, StaffIsOK, AwakeType
           DEF Counters, GroupInv
      <3>2. a <= b
        BY <3>1, <2>3, <2>4, LessDemand
      <3> HIDE DEF a, b, n
      <3>3. a > n => b > n
        BY <3>1, <3>2
      <3> QED BY <3>3, <2>1, <2>5 DEF Deficit, a, b, n
    <2>7. \A v \in Workers : /\ Looks(v) => Looks(v)'
                             /\ LooksLate(v) => LooksLate(v)'
      BY <1>1, <1>8 DEF Looks, LooksLate, Running, Awake
    <2>8. ChaseInv'
      BY <1>1, <2>6, <2>7, ChaseStays DEF GroupInv
    <2>9. (ShouldPeriodicallyAdjustMaxTasks(queued, count))'
             => ShouldPeriodicallyAdjustMaxTasks(queued, count)
      BY <2>3, <2>4, <2>5, LessAdjustment
    <2>10. LimitInv'
      <3>1. \A v \in Running : block[v] = "none"
               => v \in Running' /\ block'[v] = "none"
        BY <1>1 DEF Running
      <3> QED BY <1>1, <1>8, <2>7, <2>9, <3>1, LimitStays DEF GroupInv
    <2>11. PostedInv'
      BY <1>1, <1>8, PostedStays DEF GroupInv
    <2> QED BY <2>2, <2>8, <2>10, <2>11 DEF GroupInv
  <1> QED BY <1>2, <1>7, <1>8

LEMMA StartInvKept ==
    ASSUME GroupInv, Start
    PROVE  GroupInv'
  <1>1. /\ owes[Main] = Nothing /\ count.max = 0
        /\ count' = [count EXCEPT !.max = InitialMaxTasks,
                                  !.maxBE = InitialMaxBestEffort]
        /\ EnsureEnoughWorkers(Main, queued, count', posted)
        /\ UNCHANGED <<queued, pc, event, task, block, adjusting, canRun,
                       policyOwed, bounds>>
    BY DEF Start, MayCall, IsFree
  <1>2. Main \in Threads /\ Main \notin Workers /\ count \in Counters
    BY ThreadsAssumption, RestTypes DEF Threads, GroupInv
  <1>3. RestKept
    BY <1>1, RestStays, RestTypes DEF GroupInv
  <1>4. /\ count'.max = InitialMaxTasks /\ count'.maxBE = InitialMaxBestEffort
        /\ count'.running = count.running /\ count'.runningBE = count.runningBE
        /\ count'.unresolved = count.unresolved
        /\ count'.unresolvedBE = count.unresolvedBE
        /\ count' \in Counters
    BY <1>1, <1>2, InitialLimits DEF Counters
  <1>5. In({"counted"}) = {} /\ OfBestEffort(In({"counted"})) = {}
    BY <1>1, NotStarted DEF GroupInv, In, Blocks, OfBestEffort
  <1>6. /\ Running' = Running
        /\ OfBestEffort(Running)' = OfBestEffort(Running)
        /\ OfBestEffort(In(Unresolved))' = OfBestEffort(In(Unresolved))
        /\ OfBestEffort(In({"counted"}))' = {}
        /\ In(Unresolved)' = In(Unresolved)
        /\ In({"counted"})' = {}
        /\ In(Blocks \ {"none"})' = In(Blocks \ {"none"})
    BY <1>1, <1>5 DEF Running, In, OfBestEffort
  <1>7. CountsKept
    <2>1. /\ InitialMaxTasks = InitialMaxTasks + 0
          /\ InitialMaxBestEffort = InitialMaxBestEffort + 0
          /\ InitialMaxTasks # 0
      BY InitialLimits
    <2> QED BY <1>4, <1>6, <2>1, FS_EmptySet
            DEF GroupInv, StaffInv, CountsKept, CountsExact
  <1>8. EnsureEnoughWorkers(Main, queued', count', posted) /\ count'.max # 0
    BY <1>1, <1>4, InitialLimits
  <1> QED BY <1>1, <1>2, <1>3, <1>7, <1>8, CallInv

LEMMA PolicyInv ==
    ASSUME GroupInv,
           \/ \E policy \in Policies : SetCanRunPolicy(policy)
           \/ DidUpdateCanRunPolicy
    PROVE  GroupInv'
  <1>1. CASE \E policy \in Policies : SetCanRunPolicy(policy)
    <2>1. PICK policy \in Policies : SetCanRunPolicy(policy)
      BY <1>1
    <2>2. /\ policies < MaxPolicies /\ policies' = policies + 1
          /\ canRun' = policy /\ policyOwed' = TRUE
          /\ UNCHANGED <<group, pc, event, task, block, owes, posted, adjusting,
                         calls, blocks>>
      BY <2>1 DEF SetCanRunPolicy
    <2>3. StaffKept
      BY <2>2, UnchangedStaff DEF GroupInv, group
    <2>4. CountsKept
      BY <2>2, CountsStay DEF GroupInv, group
    <2>5. RestKept
      <3>1. policies' \in 0..MaxPolicies
        BY <2>2, RestTypes DEF GroupInv
      <3> QED BY <2>2, <3>1, RestTypes DEF GroupInv, RestKept, QueueInv, group
    <2>6. StaffInv'
      BY <2>2, <2>3, <2>4, <2>5, RestTypes, Assembled DEF GroupInv, group
    <2>7. PostedInv'
      BY <2>2, PostedStays DEF GroupInv
    <2> QED BY <2>2, <2>6, <2>7 DEF GroupInv, ChaseInv, LimitInv
  <1>2. CASE DidUpdateCanRunPolicy
    <2>1. /\ owes[Main] = Nothing /\ policyOwed' = FALSE
          /\ EnsureEnoughWorkers(Main, queued, count, posted)
          /\ UNCHANGED <<queued, count, pc, event, task, block, adjusting,
                         canRun, bounds>>
      BY <1>2 DEF DidUpdateCanRunPolicy, IsFree
    <2>2. Main \in Threads /\ Main \notin Workers
      BY ThreadsAssumption DEF Threads
    <2>3. CountsKept
      BY <2>1, CountsStay DEF GroupInv
    <2>4. RestKept
      BY <2>1, RestTypes DEF GroupInv, RestKept, QueueInv, bounds
    <2>5. EnsureEnoughWorkers(Main, queued', count', posted)
      BY <2>1
    <2> QED BY <2>1, <2>2, <2>3, <2>4, <2>5, CallInv
  <1> QED BY <1>1, <1>2

-----------------------------------------------------------------------------
(* The theorems.                                                           *)

LEMMA InitInv ==
    ASSUME Init
    PROVE  GroupInv
  <1>1. /\ queued = [p \in Priorities |-> 0] /\ workers = {} /\ idle = <<>>
        /\ count = [running |-> 0, runningBE |-> 0, max |-> 0, maxBE |-> 0,
                    unresolved |-> 0, unresolvedBE |-> 0]
        /\ minAllowed = BestEffort
        /\ pc = [w \in Workers |-> "none"] /\ event = {}
        /\ task = [w \in Workers |-> BestEffort]
        /\ block = [w \in Workers |-> "none"]
        /\ owes = [t \in Threads |-> Nothing]
        /\ posted = FALSE /\ adjusting = FALSE
        /\ canRun \in Policies /\ policyOwed = FALSE
        /\ calls = 0 /\ blocks = 0 /\ policies = 0
    BY DEF Init
  <1>2. /\ Range(idle) = {} /\ Distinct(idle) /\ idle \in Seq(Workers)
        /\ Len(idle) = 0
    BY <1>1, NothingFacts, EmptySeq
  <1>3. TypeOK
    <2>1. /\ MaxCalls \in Nat /\ MaxBlocks \in Nat /\ MaxPolicies \in Nat
      BY LimitsAssumption
    <2>2. queued \in [Priorities -> 0..MaxCalls]
      BY <1>1, <2>1
    <2>3. count \in Counters
      BY <1>1 DEF Counters
    <2>4. pc \in [Workers -> PCs] /\ block \in [Workers -> Blocks]
          /\ task \in [Workers -> Priorities]
      BY <1>1, BothPriorities DEF PCs, Blocks
    <2>5. owes \in [Threads -> Works]
      BY <1>1, NothingFacts
    <2>6. calls \in 0..MaxCalls /\ blocks \in 0..MaxBlocks
          /\ policies \in 0..MaxPolicies
      BY <1>1, <2>1
    <2> QED BY <1>1, <1>2, <2>2, <2>3, <2>4, <2>5, <2>6, BothPriorities
            DEF TypeOK, Works
  <1>4. QueueInv /\ StartedInv
    <2>1. queued[BestEffort] = 0 /\ queued[Foreground] = 0
      BY <1>1, BothPriorities
    <2> QED BY <1>1, <2>1 DEF QueueInv, StartedInv
  <1>5. Running = {} /\ \A S : "none" \notin S => In(S) = {}
    BY <1>1 DEF Running, In
  <1>6. CountsExact
    <2>1. /\ OfBestEffort(Running) = {} /\ In(Unresolved) = {}
          /\ OfBestEffort(In(Unresolved)) = {} /\ In(Blocks \ {"none"}) = {}
      BY <1>5 DEF OfBestEffort, Unresolved
    <2> QED BY <1>1, <1>5, <2>1, FS_EmptySet DEF CountsExact
  <1>7. \A t \in Threads : Range(owes[t].wake) = {} /\ owes[t].start = <<>>
                              /\ owes[t].adjust = FALSE /\ owes[t] = Nothing
    BY <1>1, NothingFacts
  <1>8. IdleInv /\ StartInv /\ AwakeInv
    BY <1>1, <1>2, <1>7, NothingFacts DEF IdleInv, StartInv, AwakeInv, Awake
  <1>9. NamesInv
    <2>1. Held \ workers = {}
      BY <1>7 DEF Held, Threads
    <2>2. Cardinality(Held \ workers) = 0
      BY <2>1, FS_EmptySet
    <2> DEFINE all == Cardinality(Workers)
    <2>3. all \in Nat /\ MaxWorkers \in Nat /\ MaxWorkers <= all
      BY ThreadsAssumption, LimitsAssumption, FS_CardinalityType
    <2> HIDE DEF all
    <2>4. 0 <= all - MaxWorkers
      BY <2>3
    <2> QED BY <2>2, <2>4 DEF NamesInv, all
  <1>10. PostedInv
    BY <1>1, <1>7 DEF PostedInv
  <1>11. ChaseInv
    <2>1. /\ DesiredNumAwakeWorkers(queued, count) \in Int
          /\ DesiredNumAwakeWorkers(queued, count)
                <= Lower(count.max, MaxWorkers)
          /\ Lower(count.max, MaxWorkers) <= count.max
          /\ Lower(count.max, MaxWorkers) \in Nat
      <3>1. queued \in [Priorities -> Nat] /\ count \in Counters
        BY <1>1 DEF Counters
      <3> QED BY <3>1, DesiredFacts
    <2>2. NumAwakeWorkers = 0 /\ count.max = 0
      BY <1>1, <1>2, FS_EmptySet DEF NumAwakeWorkers
    <2> QED BY <2>1, <2>2 DEF ChaseInv
  <1>12. LimitInv
    BY <1>1 DEF LimitInv, ShouldPeriodicallyAdjustMaxTasks
  <1> QED BY <1>3, <1>4, <1>6, <1>8, <1>9, <1>10, <1>11, <1>12
          DEF GroupInv, StaffInv

LEMMA StutterInv ==
    ASSUME GroupInv, UNCHANGED vars
    PROVE  GroupInv'
  <1>1. UNCHANGED <<queued, count, workers, idle, minAllowed, pc, event, task,
                    block, owes, posted, adjusting, canRun, policyOwed,
                    bounds>>
    BY DEF vars, group
  <1>2. StaffKept /\ NumAwakeWorkers' = NumAwakeWorkers
    BY <1>1, UnchangedStaff DEF GroupInv
  <1>3. PostedInv'
    BY <1>1, PostedStays DEF GroupInv
  <1>4. \A v \in Workers : /\ Looks(v) => Looks(v)'
                           /\ LooksLate(v) => LooksLate(v)'
    BY <1>1 DEF Looks, LooksLate, Running, Awake
  <1> QED BY <1>1, <1>2, <1>3, <1>4, RestTypes, QuietInv DEF GroupInv

LEMMA WorkerStepInv ==
    ASSUME GroupInv, NEW w \in Workers, WorkerStep(w)
    PROVE  GroupInv'
  <1>1. CASE WakeUp(w) \/ SleepTimeout(w) \/ ResetEvent(w)
    BY <1>1, WakeUpInv
  <1>2. CASE GetWork(w)
    BY <1>2, GetWorkInv
  <1>3. CASE GetWorkAfterFlush(w)
    BY <1>3, GetWorkAfterFlushInv
  <1>4. CASE DidProcessTask(w)
    BY <1>4, DidProcessTaskInv
  <1>5. CASE \E p \in Priorities : ReEnqueueTaskSource(w, p)
    BY <1>5, ReEnqueueInv
  <1>6. CASE MayBlockEntered(w)
    BY <1>6, MayBlockEnteredInv
  <1>7. CASE MayBlockOverdue(w)
    BY <1>7, MayBlockOverdueInv
  <1>8. CASE WillBlockEntered(w)
    BY <1>8, WillBlockEnteredInv
  <1>9. CASE BlockingTypeUpgraded(w)
    BY <1>9, BlockingTypeUpgradedInv
  <1>10. CASE BlockingEnded(w)
    BY <1>10, BlockingEndedInv
  <1> QED BY <1>1, <1>2, <1>3, <1>4, <1>5, <1>6, <1>7, <1>8, <1>9, <1>10
          DEF WorkerStep

LEMMA NextInv ==
    ASSUME GroupInv, [Next]_vars
    PROVE  GroupInv'
  <1>1. CASE \E t \in Threads : Flush(t)
    BY <1>1, FlushInv
  <1>2. CASE \E w \in Workers : WorkerStep(w)
    BY <1>2, WorkerStepInv
  <1>3. CASE AdjustMaxTasks
    BY <1>3, AdjustMaxTasksInv
  <1>4. CASE \E t \in Workers \cup {Main}, p \in Priorities : CallStep(t, p)
    BY <1>4, CallStepInv
  <1>5. CASE Start
    BY <1>5, StartInvKept
  <1>6. CASE \E policy \in Policies \ {canRun} : SetCanRunPolicy(policy)
    BY <1>6, PolicyInv
  <1>7. CASE DidUpdateCanRunPolicy
    BY <1>7, PolicyInv
  <1>8. CASE UNCHANGED vars
    BY <1>8, StutterInv
  <1> QED BY <1>1, <1>2, <1>3, <1>4, <1>5, <1>6, <1>7, <1>8 DEF Next

\* The inductive invariant holds in every state.
THEOREM GroupInvHolds == Spec => []GroupInv
  <1>1. Init => GroupInv
    BY InitInv
  <1>2. GroupInv /\ [Next]_vars => GroupInv'
    BY NextInv
  <1> QED BY <1>1, <1>2, PTL DEF Spec

\* Every variable of the group keeps its type: the counters are never negative,
\* no list of a thread's executor has anything but workers.
THEOREM TypesHold == Spec => []TypeOK
  <1>1. GroupInv => TypeOK
    BY DEF GroupInv, StaffInv
  <1> QED BY <1>1, GroupInvHolds, PTL

\* The counters of running tasks, of unresolved MAY_BLOCK calls and of the
\* raised limits are the numbers of the workers that run, wait in such a call or
\* raised a limit, in all and of best effort.
THEOREM CountsAreExact == Spec => []CountsExact
  <1>1. GroupInv => CountsExact
    BY DEF GroupInv, StaffInv
  <1> QED BY <1>1, GroupInvHolds, PTL

LEMMA TwoOfThem ==
    ASSUME NEW v, NEW w, v # w
    PROVE  Cardinality({v, w}) = 2
  <1>1. IsFiniteSet({v}) /\ Cardinality({v}) = 1
    BY FS_Singleton
  <1>2. Cardinality({v} \cup {w}) = Cardinality({v}) + 1
    BY <1>1, FS_AddElement
  <1>3. {v} \cup {w} = {v, w}
    OBVIOUS
  <1>4. Cardinality({v, w}) = 1 + 1
    BY <1>1, <1>2, <1>3
  <1> QED BY <1>4

\* If all that are awake run tasks, those who see to a missing worker are two
\* of them.
LEMMA ChaseIsEnough ==
    ASSUME GroupInv
    PROVE  NoStrandedSource
  <1>1. \A w \in workers \ Range(idle) : w \in Running \/ OnTheWay(w)
    BY DEF GroupInv, StaffInv, AwakeInv, Awake
  <1> DEFINE desired == DesiredNumAwakeWorkers(queued, count)
             awake == NumAwakeWorkers
             running == count.running
             unlifted == Running \ In({"counted"})
  <1>2. ASSUME desired > running, ~policyOwed, ~(awake > running)
        PROVE  Cardinality(unlifted) >= 2
    <2>1. /\ queued \in [Priorities -> Nat] /\ count \in Counters
      BY RestTypes DEF GroupInv
    <2>2. desired \in Int /\ running \in Nat
      BY <2>1, DesiredFacts DEF Counters
    <2>3. /\ awake = Cardinality(Awake) /\ IsFiniteSet(Awake) /\ awake \in Nat
      BY StaffIsOK DEF GroupInv
    <2>4. running = Cardinality(Running)
      BY DEF GroupInv, StaffInv, CountsExact
    <2>5. Running \subseteq Awake
      BY ThreadFacts DEF GroupInv, Running, Awake
    <2>6. desired > awake /\ awake <= running
      <3> HIDE DEF desired, awake, running
      <3> QED BY <1>2, <2>2, <2>3
    <2>7. Running = Awake
      <3>1. /\ Cardinality(Running) <= Cardinality(Awake)
            /\ Cardinality(Running) = Cardinality(Awake) => Running = Awake
        BY <2>3, <2>5, FS_Subset
      <3> DEFINE r == Cardinality(Running)
                 a == Cardinality(Awake)
      <3>2. r <= a /\ a <= r /\ r \in Nat /\ a \in Nat
        BY <2>2, <2>3, <2>4, <2>6, <3>1
      <3> HIDE DEF r, a
      <3>3. r = a
        BY <3>2
      <3> QED BY <3>1, <3>3 DEF r, a
    <2>8. \A w \in Workers :
             /\ ~Looks(w)
             /\ LooksLate(w) => w \in unlifted
      BY <2>7 DEF Looks, LooksLate, Running, In
    <2>9. PICK v \in Workers, w \in Workers :
             v # w /\ v \in unlifted /\ w \in unlifted
      BY <1>2, <2>6, <2>8 DEF GroupInv, ChaseInv
    <2>10. Cardinality({v, w}) = 2
      BY <2>9, TwoOfThem
    <2>11. IsFiniteSet(unlifted)
      BY FS_Subset, ThreadsAssumption DEF Running
    <2>12. Cardinality({v, w}) <= Cardinality(unlifted)
      <3>1. {v, w} \subseteq unlifted
        BY <2>9
      <3> QED BY <3>1, <2>11, FS_Subset
    <2> DEFINE k == Cardinality(unlifted)
    <2>13. k \in Nat /\ 2 <= k
      BY <2>10, <2>11, <2>12, FS_CardinalityType
    <2> HIDE DEF k
    <2>14. k >= 2
      BY <2>13
    <2> QED BY <2>14 DEF k
  <1> HIDE DEF desired, awake, running, unlifted
  <1>3. desired > running =>
           policyOwed \/ awake > running \/ Cardinality(unlifted) >= 2
    BY <1>2
  <1> QED BY <1>1, <1>3
          DEF NoStrandedSource, desired, awake, running, unlifted

\* A worker that counts as awake runs a task or is on its way to GetWork, and
\* if the group wants more workers than run tasks somebody is awake for it, or
\* ends a task that did not raise a limit, or a new policy is to be heard of.
THEOREM NoSourceIsStranded == Spec => []NoStrandedSource
  <1>1. GroupInv => NoStrandedSource
    BY ChaseIsEnough
  <1> QED BY <1>1, GroupInvHolds, PTL

\* A worker that is awake and has yet to look is on its way to GetWork.
LEMMA LimitIsEnough ==
    ASSUME GroupInv
    PROVE  AdjustIsOwed
  <1>1. \A w \in Workers : Looks(w) => OnTheWay(w) /\ pc[w] # "flush"
    BY DEF GroupInv, StaffInv, AwakeInv, Looks, Running
  <1> DEFINE owing == {t \in Threads : owes[t].adjust}
  <1>2. Cardinality(owing) + One(adjusting) = One(posted)
    <2>1. posted \in BOOLEAN /\ adjusting \in BOOLEAN
      BY RestTypes DEF GroupInv
    <2>2. CASE owing = {}
      <3>1. posted <=> adjusting
        BY <2>2 DEF GroupInv, PostedInv
      <3>2. Cardinality(owing) = 0
        BY <2>2, FS_EmptySet
      <3>3. One(posted) = One(adjusting) /\ One(adjusting) \in Nat
        BY <3>1 DEF One
      <3> HIDE DEF owing
      <3> QED BY <3>2, <3>3
    <2>3. CASE owing # {}
      <3>1. PICK t \in Threads : owes[t].adjust
        BY <2>3
      <3>2. owing = {t} /\ ~adjusting /\ posted
        BY <3>1 DEF GroupInv, PostedInv
      <3>3. Cardinality(owing) = 1
        BY <3>2, FS_Singleton
      <3>4. One(adjusting) = 0 /\ One(posted) = 1
        BY <3>2 DEF One
      <3> HIDE DEF owing
      <3> QED BY <3>3, <3>4
    <2> QED BY <2>2, <2>3
  <1> QED BY <1>1, <1>2 DEF AdjustIsOwed, GroupInv, LimitInv

\* While limits that a blocked task could raise are too low, AdjustMaxTasks is
\* posted, or somebody who will look again is on the way; it is posted by one
\* thread and is in the service thread's queue once.
THEOREM AdjustmentIsOwed == Spec => []AdjustIsOwed
  <1>1. GroupInv => AdjustIsOwed
    BY LimitIsEnough
  <1> QED BY <1>1, GroupInvHolds, PTL
=============================================================================
