------------------ MODULE PersistentMemoryAllocatorProofs -------------------
(***************************************************************************)
(* What a shared memory segment keeps, whoever races for it and whoever    *)
(* dies at which of its stores.  Each invariant rests on those before it:  *)
(* SegmentInv says where threads are and what the metadata and the links   *)
(* tell of each other; BlockInv that blocks and what threads are about to  *)
(* make blocks lie apart; UseInv who uses which block; ChainInv that no    *)
(* block follows two, and none an unlinked one; ReadersInv that iterators  *)
(* follow the links; LogInv that tails can be reached from the queue.      *)
(***************************************************************************)
EXTENDS PersistentMemoryAllocator, FiniteSetTheorems, WellFoundedInduction, TLAPS

-----------------------------------------------------------------------------
(* Pages.                                                                    *)

LEMMA ProductGrows ==
    ASSUME NEW p \in Nat, NEW a \in Nat, NEW b \in Nat, a <= b
    PROVE  p * a <= p * b
<1>1. PICK c \in Nat : b = a + c
  <2>1. b - a \in Nat /\ b = a + (b - a)
    OBVIOUS
  <2> QED
    BY <2>1
<1>2. p * b = p * a + p * c /\ p * a \in Nat /\ p * c \in Nat
  BY <1>1
<1> QED
  BY <1>2

LEMMA PageParts ==
    ASSUME NEW r \in Nat
    PROVE  /\ r = PageSize * (r \div PageSize) + (r % PageSize)
           /\ r \div PageSize \in Nat /\ r % PageSize \in 0..(PageSize - 1)
           /\ PageFree(r) \in 1..PageSize
BY SizesAssumption DEF PageFree

\* The quotient and the remainder are determined.
LEMMA PageOf ==
    ASSUME NEW q \in Nat, NEW o \in 0..(PageSize - 1)
    PROVE  /\ (PageSize * q + o) \div PageSize = q
           /\ (PageSize * q + o) % PageSize = o
<1>1. PICK r \in Nat : r = PageSize * q + o
  BY SizesAssumption
<1>a. PICK a : a = r \div PageSize
  OBVIOUS
<1>b. PICK b : b = r % PageSize
  OBVIOUS
<1>2. /\ a = r \div PageSize /\ b = r % PageSize /\ a \in Nat /\ b \in Nat /\ b < PageSize
      /\ PageSize * a + b = PageSize * q + o
  <2>1. a \in Nat /\ b \in 0..(PageSize - 1) /\ r = PageSize * a + b
    BY <1>a, <1>b, PageParts
  <2> QED
    BY <1>1, <2>1, SizesAssumption
<1>3. /\ PageSize \in Nat /\ PageSize > 0 /\ PageSize * a \in Nat /\ PageSize * q \in Nat
      /\ a \in Nat
  BY <1>2, SizesAssumption
<1>4. ~(a < q)
  <2>1. SUFFICES ASSUME a < q PROVE FALSE
    BY <1>3
  <2>2. PageSize * (a + 1) <= PageSize * q
    BY <1>3, <2>1, ProductGrows
  <2>3. PageSize * (a + 1) = PageSize * a + PageSize
    BY <1>3
  <2> QED
    BY <1>2, <1>3, <2>2, <2>3
<1>5. ~(q < a)
  <2>1. SUFFICES ASSUME q < a PROVE FALSE
    OBVIOUS
  <2>2. PageSize * (q + 1) <= PageSize * a
    BY <1>3, <2>1, ProductGrows
  <2>3. PageSize * (q + 1) = PageSize * q + PageSize
    BY <1>3
  <2> QED
    BY <1>2, <1>3, <2>2, <2>3
<1>6. a = q
  BY <1>3, <1>4, <1>5
<1>7. b = o
  BY <1>2, <1>3, <1>6
<1> QED
  BY <1>1, <1>2, <1>6, <1>7

\* A page ends within the segment, which is at least as large as one.
LEMMA PageInSegment ==
    ASSUME NEW r \in Nat, r < MemSize
    PROVE  r + PageFree(r) <= MemSize /\ PageSize <= MemSize
<1>a. PICK q : q = r \div PageSize
  OBVIOUS
<1>b. PICK o : o = r % PageSize
  OBVIOUS
<1>1. /\ q = r \div PageSize /\ o = r % PageSize
      /\ q \in Nat /\ o \in Nat /\ r = PageSize * q + o /\ o < PageSize
  <2>1. q \in Nat /\ o \in 0..(PageSize - 1) /\ r = PageSize * q + o
    BY <1>a, <1>b, PageParts
  <2> QED
    BY <1>a, <1>b, <2>1, SizesAssumption
<1>2. PICK m \in Nat : m = MemSize \div PageSize /\ MemSize = PageSize * m + 0
  BY PageParts, SizesAssumption
<1>3. /\ PageSize \in Nat /\ PageSize > 0 /\ PageSize * q \in Nat /\ PageSize * m \in Nat
      /\ q \in Nat /\ o \in Nat
  BY <1>1, SizesAssumption
<1>4. q + 1 <= m
  <2>1. SUFFICES ASSUME m <= q PROVE FALSE
    BY <1>3
  <2>2. PageSize * m <= PageSize * q
    BY <1>3, <2>1, ProductGrows
  <2> QED
    BY <1>1, <1>2, <1>3, <2>2
<1>5. PageSize * (q + 1) <= PageSize * m
  BY <1>3, <1>4, ProductGrows
<1>6. PageSize * (q + 1) = PageSize * q + PageSize
  BY <1>3
<1>7. r + PageFree(r) = PageSize * q + PageSize
  BY <1>1, <1>3 DEF PageFree
<1> QED
  BY <1>1, <1>2, <1>3, <1>5, <1>6, <1>7

\* What is taken from the start of the free part of a page lies in that page,
\* and the next free part is the rest of it, or a page.
LEMMA TakenFromPage ==
    ASSUME NEW r \in Nat, NEW n \in Nat \ {0}, n <= PageFree(r)
    PROVE  /\ r \div PageSize = (r + n - 1) \div PageSize
           /\ n < PageFree(r) => PageFree(r + n) = PageFree(r) - n
           /\ n = PageFree(r) => PageFree(r + n) = PageSize
<1>a. PICK q : q = r \div PageSize
  OBVIOUS
<1>b. PICK o : o = r % PageSize
  OBVIOUS
<1>1. /\ q = r \div PageSize /\ o = r % PageSize
      /\ q \in Nat /\ o \in Nat /\ r = PageSize * q + o /\ o < PageSize
  <2>1. q \in Nat /\ o \in 0..(PageSize - 1) /\ r = PageSize * q + o
    BY <1>a, <1>b, PageParts
  <2> QED
    BY <1>a, <1>b, <2>1, SizesAssumption
<1>2. /\ PageSize \in Nat /\ PageSize > 0 /\ PageSize * q \in Nat /\ PageFree(r) = PageSize - o
      /\ q \in Nat /\ o \in Nat
  BY <1>1, SizesAssumption DEF PageFree
<1>3. (r + n - 1) \div PageSize = q
  <2>1. o + n - 1 \in 0..(PageSize - 1) /\ r + n - 1 = PageSize * q + (o + n - 1)
    BY <1>1, <1>2
  <2> QED
    BY <1>2, <2>1, PageOf
<1>4. ASSUME n < PageFree(r)
      PROVE  PageFree(r + n) = PageFree(r) - n
  <2>1. o + n \in 0..(PageSize - 1) /\ r + n = PageSize * q + (o + n)
    BY <1>1, <1>2, <1>4
  <2>2. (r + n) % PageSize = o + n
    BY <1>2, <2>1, PageOf
  <2> QED
    BY <1>2, <2>2 DEF PageFree
<1>5. ASSUME n = PageFree(r)
      PROVE  PageFree(r + n) = PageSize
  <2>1. r + n = PageSize * (q + 1) + 0
    <3>1. PageSize * (q + 1) = PageSize * q + PageSize
      BY <1>2
    <3> QED
      BY <1>1, <1>2, <1>5, <3>1
  <2>2. (r + n) % PageSize = 0
    <3>1. q + 1 \in Nat /\ 0 \in 0..(PageSize - 1)
      BY <1>2
    <3> QED
      BY <2>1, <3>1, PageOf
  <2> QED
    BY <1>2, <2>2 DEF PageFree
<1> QED
  BY <1>1, <1>3, <1>4, <1>5

-----------------------------------------------------------------------------
(* The types, the places of threads and the metadata.                        *)

Links == Refs \cup {Queue}
Linking == {"loadTail", "link", "swing", "help"}

\* Where a thread has got beyond the exchange of freeptr.
Started == {"waste", "header", "publish"} \cup Linking

\* The types, but for the number of records that an iterator has counted.
SegTypes ==
    /\ meta \subseteq Fields
    /\ freeptr \in Offsets /\ tailptr \in Links \cup {Null}
    /\ flags \subseteq {"corrupt", "full"}
    /\ size \in [Refs -> Offsets]
    /\ cookie \in [Refs -> {"free", "wasted", "allocated"}]
    /\ type \in [Refs -> Types]
    /\ next \in [Links -> Links \cup {Null}]
    /\ dirty \subseteq Refs
    /\ proc \in [Processes -> {"out", "creating", "attached", "dead"}]
    /\ distrusts \subseteq Processes
    /\ last \in [Processes -> Links]
    /\ count \in [Processes -> Nat]
    /\ delivered \in [Processes -> Seq(Refs)]
    /\ pc \in [Threads -> PCs]
    /\ loc \in [Threads -> [ref : Offsets, size : Nat, old : Offsets, new : Offsets]]
    /\ held \in [Threads -> Refs \cup {Null}]
    /\ deaths \in 0..MaxDeaths

\* What a constructor stores last is there only if the rest is, and who has
\* attached to less distrusts the segment.
MetaInv ==
    /\ freeptr # 0 => Plain \subseteq meta /\ freeptr >= MetaSize
    /\ "queueCookie" \in meta => freeptr # 0
    /\ next[Queue] # Null => "queueCookie" \in meta
    /\ tailptr # Null => next[Queue] # Null
    /\ \A p \in Processes : proc[p] = "attached" => p \in distrusts \/ Complete

\* Blocks that are linked, or the tail, are marked as iterable.
MarkInv ==
    /\ tailptr # Null => next[tailptr] # Null
    /\ \A r \in Links : next[r] \in Refs => next[next[r]] # Null

PlaceInv(t) ==
    /\ pc[t] # "idle" => proc[ProcessOf[t]] = "attached"
    /\ pc[t] = "loop" => /\ loc[t].size \in (Header + 1)..PageSize
                         /\ loc[t].old >= MetaSize \/ ProcessOf[t] \in distrusts
    /\ pc[t] \in Started => Complete
    /\ pc[t] \in {"waste", "header"} => /\ loc[t].size \in (Header + 1)..PageSize
                                        /\ loc[t].old \in Refs
    /\ pc[t] \in {"publish"} \cup Linking => loc[t].ref \in Refs
    /\ pc[t] \in Linking => next[loc[t].ref] # Null
    /\ pc[t] \in {"link", "help"} => loc[t].old \in Links /\ next[loc[t].old] # Null
    /\ pc[t] = "help" => loc[t].new \in Refs /\ next[loc[t].new] # Null
    /\ pc[t] = "exchange" => loc[t].ref \in Refs
    /\ pc[t] \in {"clear", "finish"} => held[t] \in Refs
    /\ pc[t] \in {"loadNext", "advance"} => loc[t].old \in Links
    /\ pc[t] = "advance" => loc[t].new \in Refs

SegmentInv == SegTypes /\ MetaInv /\ MarkInv /\ \A t \in Threads : PlaceInv(t)

Steps(t) == (t \in Writers /\ WriterNext(t)) \/ (t \in Readers /\ ReaderNext(t))

-----------------------------------------------------------------------------
LEMMA Constants ==
    /\ Queue \notin Refs /\ Null \notin Links /\ Queue \in Offsets /\ Null \in Offsets
    /\ Refs \subseteq Offsets /\ Refs \subseteq Nat /\ 0 \in Offsets /\ MetaSize \in Offsets
    /\ MemSize \in Nat /\ PageSize \in Nat \ {0} /\ PageSize <= MemSize
    /\ Offsets \subseteq Nat
    /\ \A t \in Threads : ProcessOf[t] \in Processes
<1>1. MemSize \in Nat /\ PageSize \in Nat \ {0} /\ MemSize >= 8
  BY SizesAssumption DEF MetaSize
<1>2. PageSize <= MemSize
  BY <1>1, PageInSegment
<1> QED
  BY <1>1, <1>2, ThreadsAssumption DEF Refs, Offsets, Links, Queue, Null, MetaSize

LEMMA Initially == Init => SegmentInv
<1> SUFFICES ASSUME Init PROVE SegmentInv
  OBVIOUS
<1> USE DEF Init
<1>1. SegTypes
  BY Constants, SizesAssumption DEF SegTypes, Fields, Plain, Types, PCs, NoLocals, Links
<1>2. MetaInv /\ MarkInv
  BY Constants DEF MetaInv, MarkInv, Links
<1>3. \A t \in Threads : PlaceInv(t)
  BY DEF PlaceInv, Started, Linking
<1> QED
  BY <1>1, <1>2, <1>3 DEF SegmentInv

\* What a step of a thread leaves to the others.
Leaves(t) ==
    /\ UNCHANGED proc /\ distrusts \subseteq distrusts' /\ (Complete => Complete')
    /\ \A r \in Links : next[r] # Null => next'[r] # Null
    /\ \A u \in Threads \ {t} : pc'[u] = pc[u] /\ loc'[u] = loc[u] /\ held'[u] = held[u]

LEMMA OthersStay ==
    ASSUME SegmentInv, NEW t, Leaves(t), NEW u \in Threads \ {t}
    PROVE  PlaceInv(u)'
<1>1. PlaceInv(u) /\ pc'[u] = pc[u] /\ loc'[u] = loc[u] /\ held'[u] = held[u]
  BY DEF SegmentInv, Leaves
<1>2. \A r \in Refs : r \in Links
  BY DEF Links
<1> QED
  BY <1>1, <1>2, Constants DEF PlaceInv, Leaves

LEMMA StepKeeps ==
    ASSUME SegmentInv, NEW t \in Threads, SegTypes', MetaInv', MarkInv', Leaves(t), PlaceInv(t)'
    PROVE  SegmentInv'
BY OthersStay DEF SegmentInv

\* The outcomes of a round of the loop: the call fails, the exchange fails,
\* or it succeeds and the thread has what it took.
LEMMA LoopSteps ==
    ASSUME SegmentInv, NEW t \in Threads, AllocateLoop(t)
    PROVE  /\ pc[t] = "loop" /\ proc[ProcessOf[t]] = "attached"
           /\ UNCHANGED <<meta, tailptr, size, cookie, type, next, dirty, proc, iterators,
                          held, deaths>>
           /\ \/ /\ Return(t) /\ UNCHANGED freeptr
                 /\ \/ flags' = flags \cup {"full"} /\ UNCHANGED distrusts
                    \/ /\ SetCorrupt(ProcessOf[t])
                       /\ \/ IsCorrupt(ProcessOf[t])
                          \/ loc[t].old \in Refs /\ PageFree(loc[t].old) <= Header
              \/ /\ UNCHANGED <<pc, freeptr, distrusts, flags>>
                 /\ freeptr # 0
                 /\ \E n \in (Header + 1)..PageSize :
                      loc' = [loc EXCEPT ![t].old = freeptr, ![t].size = n]
              \/ /\ UNCHANGED <<distrusts, flags>> /\ ProcessOf[t] \notin distrusts
                 /\ loc[t].old = freeptr /\ freeptr \in Refs
                 /\ \E n \in Nat \ {0} :
                      /\ freeptr' = freeptr + n /\ n <= PageFree(freeptr)
                      /\ freeptr + n <= MemSize
                      /\ n = PageFree(freeptr) \/ PageFree(freeptr) - n >= Header + 1
                      /\ \/ /\ Goto(t, "waste") /\ n = PageFree(freeptr) /\ UNCHANGED loc
                         \/ /\ Goto(t, "header") /\ loc' = [loc EXCEPT ![t].size = n]
                            /\ n >= Header + 1
<1> DEFINE old == loc[t].old
           n == loc[t].size
           room == PageFree(old)
           place == ProcessOf[t]
<1>1. /\ pc[t] = "loop" /\ proc[ProcessOf[t]] = "attached"
      /\ UNCHANGED <<meta, tailptr, size, cookie, type, next, dirty, proc, iterators,
                     held, deaths>>
  BY DEF AllocateLoop, At
<1>2. /\ old \in Offsets /\ n \in (Header + 1)..PageSize /\ old \in Nat /\ n \in Nat
      /\ old >= MetaSize \/ place \in distrusts
      /\ freeptr \in Offsets /\ freeptr \in Nat
      /\ loc \in [Threads -> [ref : Offsets, size : Nat, old : Offsets, new : Offsets]]
      /\ PageSize \in Nat /\ MemSize \in Nat
  BY <1>1, Constants DEF SegmentInv, SegTypes, PlaceInv
<1>3. CASE IsCorrupt(place)
  BY <1>1, <1>3 DEF AllocateLoop, SetCorrupt
<1>4. CASE ~IsCorrupt(place) /\ TooLarge(old, n)
  BY <1>1, <1>4 DEF AllocateLoop
<1>5. CASE ~IsCorrupt(place) /\ ~TooLarge(old, n)
  <2>1. /\ old \in Refs /\ place \notin distrusts /\ old + n <= MemSize
        /\ room \in 1..PageSize /\ old + room <= MemSize
    <3>1. old \in Refs /\ place \notin distrusts /\ old + n <= MemSize
      BY <1>2, <1>5 DEF IsCorrupt, TooLarge, Refs, MetaSize, Header
    <3> QED
      BY <1>2, <3>1, PageParts, PageInSegment DEF Refs, MetaSize
  <2>2. CASE n <= room
    <3> DEFINE fit == Fit(n, room)
    <3>1. /\ fit \in (Header + 1)..PageSize /\ fit <= room /\ old + fit <= MemSize
          /\ fit = room \/ room - fit >= Header + 1
      BY <1>2, <2>1, <2>2 DEF Fit, Header
    <3>2. Advance(t, fit, "header") /\ KeepFlags
      BY <1>5, <2>2 DEF AllocateLoop
    <3> HIDE DEF fit
    <3>3. CASE freeptr = old
      <4>1. /\ freeptr' = freeptr + fit /\ Goto(t, "header")
            /\ loc' = [loc EXCEPT ![t].size = fit]
        BY <3>2, <3>3 DEF Advance
      <4>2. fit \in Nat \ {0} /\ fit >= Header + 1
        BY <1>2, <3>1 DEF Header
      <4> QED
        BY <1>1, <2>1, <3>1, <3>2, <3>3, <4>1, <4>2 DEF KeepFlags
    <3>4. CASE freeptr # old
      <4>1. /\ UNCHANGED <<freeptr, pc>>
            /\ loc' = [loc EXCEPT ![t].old = freeptr, ![t].size = fit]
        BY <3>2, <3>4 DEF Advance
      <4>2. freeptr # 0
        BY <1>1, <2>1, Constants DEF SegmentInv, MetaInv, Complete
      <4> QED
        BY <1>1, <3>1, <3>2, <4>1, <4>2 DEF KeepFlags
    <3> QED
      BY <3>3, <3>4
  <2>3. CASE n > room /\ room > Header
    <3>1. Advance(t, room, "waste") /\ KeepFlags
      BY <1>2, <1>5, <2>1, <2>3 DEF AllocateLoop
    <3>2. CASE freeptr = old
      <4>1. /\ freeptr' = freeptr + room /\ Goto(t, "waste") /\ UNCHANGED loc
        BY <1>2, <3>1, <3>2 DEF Advance
      <4> QED
        BY <1>1, <2>1, <3>1, <3>2, <4>1 DEF KeepFlags
    <3>3. CASE freeptr # old
      <4>1. /\ UNCHANGED <<freeptr, pc>>
            /\ loc' = [loc EXCEPT ![t].old = freeptr, ![t].size = n]
        BY <1>2, <3>1, <3>3 DEF Advance
      <4>2. freeptr # 0
        BY <1>1, <2>1, Constants DEF SegmentInv, MetaInv, Complete
      <4> QED
        BY <1>1, <1>2, <3>1, <4>1, <4>2 DEF KeepFlags
    <3> QED
      BY <3>2, <3>3
  <2>4. CASE n > room /\ ~(room > Header)
    <3>1. SetCorrupt(place) /\ Return(t) /\ UNCHANGED freeptr
      BY <1>2, <1>5, <2>1, <2>4 DEF AllocateLoop
    <3> QED
      BY <1>1, <1>2, <2>1, <2>4, <3>1 DEF Header
  <2> QED
    BY <1>2, <2>1, <2>2, <2>3, <2>4
<1> QED
  BY <1>3, <1>4, <1>5

-----------------------------------------------------------------------------
(* SegmentInv is inductive.                                                  *)

LEMMA ReturnKeepsPlace ==
    ASSUME SegmentInv, NEW t \in Threads, Return(t)
    PROVE  /\ PlaceInv(t)' /\ pc' \in [Threads -> PCs]
           /\ loc' \in [Threads -> [ref : Offsets, size : Nat, old : Offsets, new : Offsets]]
           /\ \A u \in Threads \ {t} : pc'[u] = pc[u] /\ loc'[u] = loc[u]
<1>1. pc' = [pc EXCEPT ![t] = "idle"] /\ loc' = [loc EXCEPT ![t] = NoLocals]
  BY DEF Return, Goto
<1>2. pc'[t] = "idle"
  BY <1>1 DEF SegmentInv, SegTypes
<1> QED
  BY <1>1, <1>2, Constants DEF SegmentInv, SegTypes, PlaceInv, Started, Linking, PCs, NoLocals

\* Steps that do not change the segment, but for its flags.
LEMMA QuietSegment ==
    ASSUME SegmentInv, UNCHANGED <<meta, freeptr, tailptr, next>>
    PROVE  /\ Complete' <=> Complete
           /\ UNCHANGED proc /\ distrusts \subseteq distrusts' => MetaInv'
           /\ MarkInv'
           /\ \A r \in Links : next[r] # Null => next'[r] # Null
BY DEF SegmentInv, MetaInv, MarkInv, Complete

LEMMA AllocationKeeps ==
    ASSUME SegmentInv, NEW t \in Threads, Allocate(t) \/ AllocateLoop(t)
    PROVE  SegmentInv'
<1>0. /\ SegTypes /\ MetaInv /\ MarkInv /\ ProcessOf[t] \in Processes /\ pc \in [Threads -> PCs]
      /\ loc \in [Threads -> [ref : Offsets, size : Nat, old : Offsets, new : Offsets]]
  BY Constants DEF SegmentInv, SegTypes
<1>1. CASE Allocate(t)
  <2>1. PICK n \in Requests : loc' = [loc EXCEPT ![t].size = n, ![t].old = freeptr]
    BY <1>1 DEF Allocate
  <2>2. /\ pc' = [pc EXCEPT ![t] = "loop"] /\ proc[ProcessOf[t]] = "attached"
        /\ UNCHANGED <<segment, proc, distrusts, iterators, held, deaths>>
    BY <1>1 DEF Allocate, At, Goto
  <2>3. n \in (Header + 1)..PageSize /\ n \in Nat
    BY SizesAssumption DEF Header
  <2>4. SegTypes'
    <3>1. loc' \in [Threads -> [ref : Offsets, size : Nat, old : Offsets, new : Offsets]]
      BY <1>0, <2>1, <2>3 DEF SegTypes
    <3>2. pc' \in [Threads -> PCs]
      BY <1>0, <2>2 DEF PCs
    <3> QED
      BY <1>0, <2>2, <3>1, <3>2 DEF SegTypes, segment, iterators
  <2>5. MetaInv' /\ MarkInv' /\ Leaves(t)
    BY <1>0, <2>1, <2>2, QuietSegment DEF Leaves, segment
  <2>6. freeptr >= MetaSize \/ ProcessOf[t] \in distrusts
    BY <1>0, <2>2 DEF MetaInv, Complete
  <2>7. PlaceInv(t)'
    <3>1. pc'[t] = "loop" /\ loc'[t].size = n /\ loc'[t].old = freeptr
      BY <1>0, <2>1, <2>2
    <3> QED
      BY <2>2, <2>3, <2>6, <3>1 DEF PlaceInv, Started, Linking, segment
  <2> QED
    BY <2>4, <2>5, <2>7, StepKeeps
<1>2. CASE AllocateLoop(t)
  <2>1. /\ pc[t] = "loop" /\ proc[ProcessOf[t]] = "attached"
        /\ UNCHANGED <<meta, tailptr, size, cookie, type, next, dirty, proc, iterators,
                       held, deaths>>
    BY <1>2, LoopSteps
  <2>2. CASE /\ Return(t) /\ UNCHANGED freeptr
             /\ \/ flags' = flags \cup {"full"} /\ UNCHANGED distrusts
                \/ SetCorrupt(ProcessOf[t])
    <3>1. /\ flags' \subseteq {"corrupt", "full"} /\ distrusts' \subseteq Processes
          /\ distrusts \subseteq distrusts'
      BY <1>0, <2>2 DEF SegTypes, SetCorrupt
    <3>2. SegTypes'
      BY <1>0, <2>1, <2>2, <3>1, ReturnKeepsPlace DEF SegTypes, iterators
    <3>3. MetaInv' /\ MarkInv' /\ Leaves(t)
      BY <1>0, <2>1, <2>2, <3>1, QuietSegment, ReturnKeepsPlace DEF Leaves
    <3> QED
      BY <2>2, <3>2, <3>3, StepKeeps, ReturnKeepsPlace
  <2>3. CASE /\ UNCHANGED <<pc, freeptr, distrusts, flags>> /\ freeptr # 0
             /\ \E n \in (Header + 1)..PageSize :
                  loc' = [loc EXCEPT ![t].old = freeptr, ![t].size = n]
    <3>1. PICK n \in (Header + 1)..PageSize :
             loc' = [loc EXCEPT ![t].old = freeptr, ![t].size = n]
      BY <2>3
    <3>2. n \in Nat
      BY Constants DEF Header
    <3>3. SegTypes'
      <4>1. freeptr \in Offsets
        BY <1>0 DEF SegTypes
      <4>2. loc' \in [Threads -> [ref : Offsets, size : Nat, old : Offsets, new : Offsets]]
        BY <1>0, <3>1, <3>2, <4>1
      <4> QED
        BY <1>0, <2>1, <2>3, <4>2 DEF SegTypes, iterators
    <3>4. MetaInv' /\ MarkInv' /\ Leaves(t)
      BY <1>0, <2>1, <2>3, <3>1, QuietSegment DEF Leaves
    <3>5. PlaceInv(t)'
      <4>1. pc'[t] = "loop" /\ loc'[t].size = n /\ loc'[t].old = freeptr /\ freeptr >= MetaSize
        BY <1>0, <2>1, <2>3, <3>1 DEF MetaInv
      <4> QED
        BY <2>1, <2>3, <3>1, <4>1 DEF PlaceInv, Started, Linking
    <3> QED
      BY <3>3, <3>4, <3>5, StepKeeps
  <2>4. CASE /\ UNCHANGED <<distrusts, flags>> /\ ProcessOf[t] \notin distrusts
             /\ loc[t].old = freeptr /\ freeptr \in Refs
             /\ \E n \in Nat \ {0} :
                  /\ freeptr' = freeptr + n
                  /\ freeptr + n <= MemSize
                  /\ \/ Goto(t, "waste") /\ UNCHANGED loc
                     \/ /\ Goto(t, "header") /\ loc' = [loc EXCEPT ![t].size = n]
                        /\ n >= Header + 1 /\ n <= PageFree(freeptr)
    <3>1. PICK n \in Nat \ {0} :
                  /\ freeptr' = freeptr + n
                  /\ freeptr + n <= MemSize
                  /\ \/ Goto(t, "waste") /\ UNCHANGED loc
                     \/ /\ Goto(t, "header") /\ loc' = [loc EXCEPT ![t].size = n]
                        /\ n >= Header + 1 /\ n <= PageFree(freeptr)
      BY <2>4
    <3>2. freeptr' \in Offsets /\ freeptr' >= MetaSize /\ freeptr # 0 /\ freeptr' # 0
      BY <2>4, <3>1, Constants DEF Refs, Offsets, MetaSize
    <3>3. \E place \in {"waste", "header"} : pc' = [pc EXCEPT ![t] = place]
      BY <3>1 DEF Goto
    <3>4. SegTypes'
      <4>1. pc' \in [Threads -> PCs]
        BY <1>0, <3>3 DEF PCs
      <4>2. loc' \in [Threads -> [ref : Offsets, size : Nat, old : Offsets, new : Offsets]]
        BY <1>0, <3>1
      <4> QED
        BY <1>0, <2>1, <2>4, <3>2, <4>1, <4>2 DEF SegTypes, iterators
    <3>5. Complete /\ Complete'
      BY <1>0, <2>1, <2>4, <3>2 DEF MetaInv, Complete
    <3>6. MetaInv' /\ MarkInv' /\ Leaves(t)
      BY <1>0, <2>1, <2>4, <3>1, <3>2, <3>3, <3>5 DEF MetaInv, MarkInv, Leaves
    <3>7. PlaceInv(t)'
      <4>1. /\ pc'[t] \in {"waste", "header"} /\ loc'[t].old \in Refs
            /\ loc'[t].size \in (Header + 1)..PageSize
        <5>1. loc[t].size \in (Header + 1)..PageSize
          BY <2>1 DEF SegmentInv, PlaceInv
        <5>2. CASE pc' = [pc EXCEPT ![t] = "waste"] /\ UNCHANGED loc
          BY <1>0, <2>4, <5>1, <5>2
        <5>3. CASE /\ pc' = [pc EXCEPT ![t] = "header"] /\ loc' = [loc EXCEPT ![t].size = n]
                   /\ n >= Header + 1 /\ n <= PageFree(freeptr)
          <6>1. n \in (Header + 1)..PageSize
            BY <2>4, <5>3, PageParts, Constants DEF Header
          <6> QED
            BY <1>0, <2>4, <5>3, <6>1
        <5> QED
          BY <3>1, <5>2, <5>3 DEF Goto
      <4> QED
        BY <2>1, <3>5, <4>1 DEF PlaceInv, Started, Linking
    <3> QED
      BY <3>4, <3>6, <3>7, StepKeeps
  <2> QED
    BY <1>2, <2>2, <2>3, <2>4, LoopSteps
<1> QED
  BY <1>1, <1>2

\* The other threads' variables stay.
Alone(t) == \A u \in Threads \ {t} : pc'[u] = pc[u] /\ loc'[u] = loc[u] /\ held'[u] = held[u]

Locals == [ref : Offsets, size : Nat, old : Offsets, new : Offsets]

LEMMA QuietStep ==
    ASSUME SegmentInv, NEW t \in Threads, UNCHANGED <<meta, freeptr, tailptr, next, proc>>,
           distrusts \subseteq distrusts', Alone(t), SegTypes', PlaceInv(t)'
    PROVE  SegmentInv'
<1>1. MetaInv' /\ MarkInv' /\ Leaves(t)
  BY QuietSegment DEF Leaves, Alone
<1> QED
  BY <1>1, StepKeeps

\* The calls of SetCorrupt and of nothing that distrusts the segment less.
LEMMA Flagged ==
    ASSUME SegmentInv, NEW t \in Threads, SetCorrupt(ProcessOf[t]) \/ KeepFlags
    PROVE  /\ distrusts \subseteq distrusts' /\ distrusts' \subseteq Processes
           /\ flags' \subseteq {"corrupt", "full"}
BY Constants DEF SegmentInv, SegTypes, SetCorrupt, KeepFlags

LEMMA Goes ==
    ASSUME SegmentInv, NEW t \in Threads, NEW place \in PCs, Goto(t, place)
    PROVE  /\ pc' \in [Threads -> PCs] /\ pc'[t] = place
           /\ \A u \in Threads \ {t} : pc'[u] = pc[u]
BY DEF SegmentInv, SegTypes, Goto

LEMMA HeaderKeeps ==
    ASSUME SegmentInv, NEW t \in Threads, WasteRest(t) \/ WriteHeader(t)
    PROVE  SegmentInv'
<1>0. /\ SegTypes /\ ProcessOf[t] \in Processes /\ pc \in [Threads -> PCs]
      /\ loc \in [Threads -> Locals] /\ PlaceInv(t) /\ loc[t] \in Locals
  BY Constants DEF SegmentInv, SegTypes, Locals
<1>1. CASE WasteRest(t)
  <2>1. /\ pc[t] = "waste" /\ proc[ProcessOf[t]] = "attached" /\ Goto(t, "loop")
        /\ size' = [size EXCEPT ![loc[t].old] = PageFree(loc[t].old)]
        /\ cookie' = [cookie EXCEPT ![loc[t].old] = "wasted"]
        /\ UNCHANGED <<meta, freeptr, tailptr, flags, type, next, dirty, proc,
                       distrusts, iterators, loc, held, deaths>>
    BY <1>1 DEF WasteRest, At
  <2>2. /\ pc' \in [Threads -> PCs] /\ pc'[t] = "loop"
        /\ \A u \in Threads \ {t} : pc'[u] = pc[u]
    BY <2>1, Goes DEF PCs
  <2>3. /\ loc[t].old \in Refs /\ loc[t].size \in (Header + 1)..PageSize
    BY <1>0, <2>1 DEF PlaceInv
  <2>4. PageFree(loc[t].old) \in Offsets
    <3>1. loc[t].old \in Nat
      BY <2>3, Constants
    <3>2. PageFree(loc[t].old) \in 1..PageSize
      BY <3>1, PageParts
    <3> QED
      BY <3>2, Constants DEF Offsets
  <2>5. size' \in [Refs -> Offsets] /\ cookie' \in [Refs -> {"free", "wasted", "allocated"}]
    BY <1>0, <2>1, <2>4 DEF SegTypes
  <2>6. SegTypes'
    BY <1>0, <2>1, <2>2, <2>5 DEF SegTypes, iterators
  <2>7. PlaceInv(t)'
    BY <1>0, <2>1, <2>2, <2>3, Constants DEF PlaceInv, Started, Linking, Refs
  <2> QED
    BY <2>1, <2>2, <2>6, <2>7, QuietStep DEF Alone
<1>2. CASE WriteHeader(t)
  <2>1. /\ pc[t] = "header" /\ proc[ProcessOf[t]] = "attached"
        /\ UNCHANGED <<meta, freeptr, tailptr, next, proc, iterators, deaths>>
    BY <1>2 DEF WriteHeader, At
  <2>2. /\ loc[t].old \in Refs /\ loc[t].size \in (Header + 1)..PageSize /\ Complete
    BY <1>0, <2>1 DEF PlaceInv, Started
  <2>3. CASE SetCorrupt(ProcessOf[t]) /\ Return(t) /\ UNCHANGED <<size, cookie, type, dirty, held>>
    <3>1. /\ distrusts \subseteq distrusts' /\ distrusts' \subseteq Processes
          /\ flags' \subseteq {"corrupt", "full"}
      BY <2>3, Flagged
    <3>2. SegTypes'
      BY <1>0, <2>1, <2>3, <3>1, ReturnKeepsPlace DEF SegTypes, iterators
    <3> QED
      BY <2>1, <2>3, <3>1, <3>2, QuietStep, ReturnKeepsPlace DEF Alone
  <2>4. CASE /\ size' = [size EXCEPT ![loc[t].old] = loc[t].size]
             /\ cookie' = [cookie EXCEPT ![loc[t].old] = "allocated"]
             /\ type' = [type EXCEPT ![loc[t].old] = "object"]
             /\ dirty' = dirty \cup {loc[t].old}
             /\ held' = [held EXCEPT ![t] = loc[t].old]
             /\ loc' = [loc EXCEPT ![t].ref = loc[t].old]
             /\ Goto(t, "publish")
             /\ KeepFlags
    <3>1. /\ pc' \in [Threads -> PCs] /\ pc'[t] = "publish"
          /\ \A u \in Threads \ {t} : pc'[u] = pc[u]
      BY <2>4, Goes DEF PCs
    <3>2. loc[t].size \in Offsets
      BY <2>2, Constants DEF Offsets, Header
    <3>3. /\ size' \in [Refs -> Offsets] /\ cookie' \in [Refs -> {"free", "wasted", "allocated"}]
          /\ type' \in [Refs -> Types] /\ dirty' \subseteq Refs
          /\ held' \in [Threads -> Refs \cup {Null}]
      BY <1>0, <2>2, <2>4, <3>2 DEF SegTypes, Types
    <3>4. /\ loc' \in [Threads -> Locals] /\ loc'[t].ref = loc[t].old
          /\ \A u \in Threads \ {t} : loc'[u] = loc[u] /\ held'[u] = held[u]
      BY <1>0, <2>2, <2>4 DEF Locals, SegTypes
    <3>5. SegTypes'
      BY <1>0, <2>1, <2>4, <3>1, <3>3, <3>4 DEF SegTypes, iterators, KeepFlags, Locals
    <3>6. Complete'
      BY <2>1, <2>2 DEF Complete
    <3>7. PlaceInv(t)'
      BY <2>1, <2>2, <3>1, <3>4, <3>6 DEF PlaceInv, Started, Linking
    <3> QED
      BY <2>1, <2>4, <3>1, <3>4, <3>5, <3>7, QuietStep DEF Alone, KeepFlags
  <2> QED
    BY <1>2, <2>3, <2>4 DEF WriteHeader
<1> QED
  BY <1>1, <1>2

LEMMA PublishKeeps ==
    ASSUME SegmentInv, NEW t \in Threads, MakeIterable(t) \/ Publish(t)
    PROVE  SegmentInv'
<1>0. /\ SegTypes /\ MetaInv /\ MarkInv /\ ProcessOf[t] \in Processes /\ pc \in [Threads -> PCs]
      /\ loc \in [Threads -> Locals] /\ PlaceInv(t) /\ loc[t] \in Locals
      /\ next \in [Links -> Links \cup {Null}] /\ Links \subseteq Offsets /\ Null \in Offsets
  BY Constants DEF SegmentInv, SegTypes, Locals, Links
<1>1. CASE MakeIterable(t)
  <2> DEFINE ref == loc[t].ref
  <2>1. /\ pc[t] = "publish" /\ proc[ProcessOf[t]] = "attached"
        /\ UNCHANGED <<meta, freeptr, tailptr, size, cookie, type, dirty, proc, iterators,
                       held, deaths>>
        /\ ref \in Refs /\ Complete
    BY <1>0, <1>1 DEF MakeIterable, At, PlaceInv, Started
  <2>2. CASE (SetCorrupt(ProcessOf[t]) \/ KeepFlags) /\ Return(t) /\ UNCHANGED next
    <3>1. /\ distrusts \subseteq distrusts' /\ distrusts' \subseteq Processes
          /\ flags' \subseteq {"corrupt", "full"}
      BY <2>2, Flagged
    <3>2. SegTypes'
      BY <1>0, <2>1, <2>2, <3>1, ReturnKeepsPlace DEF SegTypes, iterators
    <3> QED
      BY <2>1, <2>2, <3>1, <3>2, QuietStep, ReturnKeepsPlace DEF Alone
  <2>3. CASE /\ KeepFlags /\ next' = [next EXCEPT ![ref] = Queue] /\ Goto(t, "loadTail")
             /\ UNCHANGED loc
    <3>1. /\ pc' \in [Threads -> PCs] /\ pc'[t] = "loadTail"
          /\ \A u \in Threads \ {t} : pc'[u] = pc[u]
      BY <2>3, Goes DEF PCs
    <3>2. /\ next' \in [Links -> Links \cup {Null}]
          /\ \A r \in Links : next'[r] = IF r = ref THEN Queue ELSE next[r]
      BY <1>0, <2>1, <2>3 DEF Links
    <3>3. \A r \in Links : next[r] # Null => next'[r] # Null
      BY <3>2, Constants DEF Links
    <3>4. SegTypes'
      BY <1>0, <2>1, <2>3, <3>1, <3>2 DEF SegTypes, iterators, KeepFlags
    <3>5. next'[Queue] = next[Queue]
      BY <2>1, <3>2, Constants DEF Links
    <3>6. (Complete' <=> Complete) /\ MetaInv'
      BY <1>0, <2>1, <2>3, <3>5 DEF MetaInv, Complete, KeepFlags
    <3>7. MarkInv'
      <4>1. tailptr' # Null => next'[tailptr'] # Null
        BY <1>0, <2>1, <3>3 DEF MarkInv, SegTypes
      <4>2. ASSUME NEW r \in Links, next'[r] \in Refs
            PROVE  next'[next'[r]] # Null
        <5>1. next'[r] = next[r]
          BY <3>2, <4>2, Constants
        <5>2. next[r] \in Links /\ next[next[r]] # Null
          BY <1>0, <4>2, <5>1 DEF MarkInv, Links
        <5> QED
          BY <3>3, <5>1, <5>2
      <4> QED
        BY <4>1, <4>2 DEF MarkInv
    <3>8. PlaceInv(t)'
      BY <2>1, <2>3, <3>1, <3>2, <3>6, Constants DEF PlaceInv, Started, Linking, Links
    <3>9. Leaves(t)
      BY <2>1, <2>3, <3>1, <3>3, <3>6 DEF Leaves, KeepFlags
    <3> QED
      BY <3>4, <3>6, <3>7, <3>8, <3>9, StepKeeps
  <2> QED
    BY <1>1, <2>2, <2>3 DEF MakeIterable
<1>2. CASE LoadTail(t)
  <2>1. /\ pc[t] = "loadTail" /\ proc[ProcessOf[t]] = "attached" /\ Goto(t, "link")
        /\ loc' = [loc EXCEPT ![t].old = tailptr]
        /\ UNCHANGED <<segment, proc, distrusts, iterators, held, deaths>>
    BY <1>2 DEF LoadTail, At
  <2>2. /\ pc' \in [Threads -> PCs] /\ pc'[t] = "link"
        /\ \A u \in Threads \ {t} : pc'[u] = pc[u]
    BY <2>1, Goes DEF PCs
  <2>3. /\ Complete /\ tailptr \in Links /\ next[tailptr] # Null
        /\ loc[t].ref \in Refs /\ next[loc[t].ref] # Null
    BY <1>0, <2>1 DEF PlaceInv, Started, Linking, MarkInv, Complete, SegTypes
  <2>4. loc' \in [Threads -> Locals] /\ loc'[t].old = tailptr /\ loc'[t].ref = loc[t].ref
    BY <1>0, <2>1, <2>3 DEF Locals
  <2>5. SegTypes'
    BY <1>0, <2>1, <2>2, <2>4 DEF SegTypes, iterators, segment, Locals
  <2>6. Complete'
    BY <2>1, <2>3 DEF Complete, segment
  <2>7. PlaceInv(t)'
    BY <2>1, <2>2, <2>3, <2>4, <2>6 DEF PlaceInv, Started, Linking, segment
  <2> QED
    BY <2>1, <2>2, <2>5, <2>7, QuietStep DEF Alone, segment
<1>3. CASE LinkAfterTail(t)
  <2> DEFINE tail == loc[t].old
  <2>1. /\ pc[t] = "link" /\ proc[ProcessOf[t]] = "attached"
        /\ UNCHANGED <<meta, freeptr, tailptr, size, cookie, type, dirty, proc, iterators,
                       held, deaths>>
        /\ loc[t].ref \in Refs /\ next[loc[t].ref] # Null /\ Complete
        /\ tail \in Links /\ next[tail] # Null
    BY <1>0, <1>3 DEF LinkAfterTail, At, PlaceInv, Started, Linking
  <2>2. CASE SetCorrupt(ProcessOf[t]) /\ Return(t) /\ UNCHANGED next
    <3>1. /\ distrusts \subseteq distrusts' /\ distrusts' \subseteq Processes
          /\ flags' \subseteq {"corrupt", "full"}
      BY <2>2, Flagged
    <3>2. SegTypes'
      BY <1>0, <2>1, <2>2, <3>1, ReturnKeepsPlace DEF SegTypes, iterators
    <3> QED
      BY <2>1, <2>2, <3>1, <3>2, QuietStep, ReturnKeepsPlace DEF Alone
  <2>3. CASE /\ KeepFlags /\ next[tail] = Queue /\ next' = [next EXCEPT ![tail] = loc[t].ref]
             /\ Goto(t, "swing") /\ UNCHANGED loc
    <3>1. /\ pc' \in [Threads -> PCs] /\ pc'[t] = "swing"
          /\ \A u \in Threads \ {t} : pc'[u] = pc[u]
      BY <2>3, Goes DEF PCs
    <3>2. /\ next' \in [Links -> Links \cup {Null}]
          /\ \A r \in Links : next'[r] = IF r = tail THEN loc[t].ref ELSE next[r]
      BY <1>0, <2>1, <2>3 DEF Links
    <3>3. \A r \in Links : next[r] # Null => next'[r] # Null
      BY <2>1, <3>2, Constants DEF Links
    <3>4. SegTypes'
      BY <1>0, <2>1, <2>3, <3>1, <3>2 DEF SegTypes, iterators, KeepFlags
    <3>5. next'[Queue] # Null <=> next[Queue] # Null
      BY <2>1, <3>2, <3>3, Constants DEF Links
    <3>6. (Complete' <=> Complete) /\ MetaInv'
      BY <1>0, <2>1, <2>3, <3>5 DEF MetaInv, Complete, KeepFlags
    <3>7. MarkInv'
      <4>1. tailptr' # Null => next'[tailptr'] # Null
        BY <1>0, <2>1, <3>3 DEF MarkInv, SegTypes
      <4>2. ASSUME NEW r \in Links, next'[r] \in Refs
            PROVE  next'[next'[r]] # Null
        <5>1. next'[r] \in Links /\ next[next'[r]] # Null
          BY <1>0, <2>1, <3>2, <4>2 DEF MarkInv, Links
        <5> QED
          BY <3>3, <5>1
      <4> QED
        BY <4>1, <4>2 DEF MarkInv
    <3>8. PlaceInv(t)'
      BY <2>1, <2>3, <3>1, <3>3, <3>6, Constants DEF PlaceInv, Started, Linking, Links
    <3>9. Leaves(t)
      BY <2>1, <2>3, <3>1, <3>3, <3>6 DEF Leaves, KeepFlags
    <3> QED
      BY <3>4, <3>6, <3>7, <3>8, <3>9, StepKeeps
  <2>4. CASE /\ KeepFlags /\ next[tail] # Queue /\ loc' = [loc EXCEPT ![t].new = next[tail]]
             /\ Goto(t, "help") /\ UNCHANGED next
    <3>1. /\ pc' \in [Threads -> PCs] /\ pc'[t] = "help"
          /\ \A u \in Threads \ {t} : pc'[u] = pc[u]
      BY <2>4, Goes DEF PCs
    <3>2. next[tail] \in Refs /\ next[next[tail]] # Null /\ next[tail] \in Offsets
      BY <1>0, <2>1, <2>4 DEF MarkInv, Links
    <3>3. /\ loc' \in [Threads -> Locals] /\ loc'[t].new = next[tail]
          /\ loc'[t].old = loc[t].old /\ loc'[t].ref = loc[t].ref
          /\ \A u \in Threads \ {t} : loc'[u] = loc[u]
      BY <1>0, <2>4, <3>2 DEF Locals
    <3>4. SegTypes'
      BY <1>0, <2>1, <2>4, <3>1, <3>3 DEF SegTypes, iterators, KeepFlags, Locals
    <3>5. Complete'
      BY <2>1, <2>4 DEF Complete
    <3>6. PlaceInv(t)'
      BY <2>1, <2>4, <3>1, <3>2, <3>3, <3>5 DEF PlaceInv, Started, Linking
    <3> QED
      BY <2>1, <2>4, <3>1, <3>3, <3>4, <3>6, QuietStep DEF Alone, KeepFlags
  <2> QED
    BY <1>3, <2>2, <2>3, <2>4 DEF LinkAfterTail
<1>4. CASE SwingTail(t)
  <2>1. /\ pc[t] = "swing" /\ proc[ProcessOf[t]] = "attached" /\ Return(t)
        /\ tailptr' = IF tailptr = loc[t].old THEN loc[t].ref ELSE tailptr
        /\ UNCHANGED <<meta, freeptr, flags, size, cookie, type, next, dirty, proc,
                       distrusts, iterators, held, deaths>>
    BY <1>4 DEF SwingTail, At
  <2>2. /\ loc[t].ref \in Links /\ next[loc[t].ref] # Null /\ Complete
    BY <1>0, <2>1 DEF PlaceInv, Started, Linking, Links
  <2>3. /\ tailptr' \in Links /\ next[tailptr'] # Null /\ tailptr' # Null
    BY <1>0, <2>1, <2>2, Constants DEF MarkInv, Complete, SegTypes
  <2>4. SegTypes'
    BY <1>0, <2>1, <2>3, ReturnKeepsPlace DEF SegTypes, iterators
  <2>5. Complete'
    BY <2>1, <2>2, <2>3 DEF Complete
  <2>6. MetaInv' /\ MarkInv'
    BY <1>0, <2>1, <2>2, <2>3, <2>5 DEF MetaInv, MarkInv, Complete
  <2>7. Leaves(t)
    BY <2>1, <2>5, ReturnKeepsPlace DEF Leaves
  <2> QED
    BY <2>1, <2>4, <2>6, <2>7, StepKeeps, ReturnKeepsPlace
<1>5. CASE HelpTail(t)
  <2>1. /\ pc[t] = "help" /\ proc[ProcessOf[t]] = "attached" /\ Goto(t, "link")
        /\ UNCHANGED <<meta, freeptr, flags, size, cookie, type, next, dirty, proc,
                       distrusts, iterators, held, deaths>>
    BY <1>5 DEF HelpTail, At
  <2>2. /\ loc[t].new \in Links /\ next[loc[t].new] # Null /\ Complete
        /\ tailptr \in Links /\ next[tailptr] # Null
        /\ loc[t].old \in Links /\ next[loc[t].old] # Null
        /\ loc[t].ref \in Refs /\ next[loc[t].ref] # Null
    BY <1>0, <2>1 DEF PlaceInv, Started, Linking, Links, MarkInv, Complete, SegTypes
  <2>3. /\ tailptr' \in {tailptr, loc[t].new}
        /\ loc' = loc \/ loc' = [loc EXCEPT ![t].old = tailptr]
    BY <1>5 DEF HelpTail
  <2>4. /\ tailptr' \in Links /\ next[tailptr'] # Null /\ tailptr' # Null
    BY <2>2, <2>3, Constants
  <2>5. /\ pc' \in [Threads -> PCs] /\ pc'[t] = "link"
        /\ \A u \in Threads \ {t} : pc'[u] = pc[u]
    BY <2>1, Goes DEF PCs
  <2>6. /\ loc' \in [Threads -> Locals] /\ loc'[t].ref = loc[t].ref
        /\ loc'[t].old \in {loc[t].old, tailptr}
        /\ \A u \in Threads \ {t} : loc'[u] = loc[u]
    BY <1>0, <2>2, <2>3 DEF Locals
  <2>7. SegTypes'
    BY <1>0, <2>1, <2>4, <2>5, <2>6 DEF SegTypes, iterators, Locals
  <2>8. Complete'
    BY <2>1, <2>2, <2>4 DEF Complete
  <2>9. MetaInv' /\ MarkInv'
    BY <1>0, <2>1, <2>2, <2>4, <2>8 DEF MetaInv, MarkInv, Complete
  <2>10. Leaves(t)
    BY <2>1, <2>5, <2>6, <2>8 DEF Leaves
  <2>11. PlaceInv(t)'
    <3>1. loc'[t].old \in Links /\ next[loc'[t].old] # Null
      BY <2>2, <2>6
    <3> QED
      BY <2>1, <2>2, <2>5, <2>6, <2>8, <3>1 DEF PlaceInv, Started, Linking
  <2> QED
    BY <2>7, <2>9, <2>10, <2>11, StepKeeps
<1> QED
  BY <1>1, <1>2, <1>3, <1>4, <1>5 DEF Publish

\* Steps that return, or go to a place that asks little.
LEMMA RecycleKeeps ==
    ASSUME SegmentInv, NEW t \in Threads,
           \/ Discard(t) \/ Release(t) \/ ClearMemory(t) \/ FinishRelease(t)
           \/ FindFree(t) \/ Reuse(t)
    PROVE  SegmentInv'
<1>0. /\ SegTypes /\ ProcessOf[t] \in Processes /\ pc \in [Threads -> PCs]
      /\ loc \in [Threads -> Locals] /\ PlaceInv(t) /\ loc[t] \in Locals
      /\ held \in [Threads -> Refs \cup {Null}] /\ type \in [Refs -> Types]
      /\ {"none", "object", "free", "transitioning"} = Types
  BY Constants DEF SegmentInv, SegTypes, Locals, Types
<1>1. ASSUME /\ UNCHANGED <<meta, freeptr, tailptr, flags, size, cookie, next, proc,
                            distrusts, iterators, deaths>>
             /\ type' \in [Refs -> Types] /\ dirty' \subseteq Refs
             /\ held' \in [Threads -> Refs \cup {Null}]
             /\ \A u \in Threads \ {t} : held'[u] = held[u]
             /\ Return(t)
      PROVE  SegmentInv'
  <2>1. SegTypes'
    BY <1>0, <1>1, ReturnKeepsPlace DEF SegTypes, iterators
  <2> QED
    BY <1>1, <2>1, QuietStep, ReturnKeepsPlace DEF Alone
<1>2. CASE Discard(t)
  <2>1. loc[t].ref \in Refs
    BY <1>0, <1>2 DEF Discard, At, PlaceInv
  <2>2. type' \in [Refs -> Types] /\ held' \in [Threads -> Refs \cup {Null}]
    BY <1>0, <1>2, <2>1 DEF Discard
  <2>3. dirty' \subseteq Refs /\ \A u \in Threads \ {t} : held'[u] = held[u]
    BY <1>0, <1>2 DEF Discard, SegTypes
  <2> QED
    BY <1>1, <1>2, <2>2, <2>3 DEF Discard
<1>3. CASE Release(t)
  <2>1. /\ pc[t] = "idle" /\ proc[ProcessOf[t]] = "attached" /\ held[t] \in Refs
        /\ type' = [type EXCEPT ![held[t]] = "transitioning"]
        /\ Goto(t, "clear")
        /\ UNCHANGED <<meta, freeptr, tailptr, flags, size, cookie, next, dirty, proc,
                       distrusts, iterators, loc, held, deaths>>
    BY <1>0, <1>3 DEF Release, At
  <2>2. /\ pc' \in [Threads -> PCs] /\ pc'[t] = "clear"
        /\ \A u \in Threads \ {t} : pc'[u] = pc[u]
    BY <2>1, Goes DEF PCs
  <2>3. type' \in [Refs -> Types]
    BY <1>0, <2>1
  <2>4. SegTypes'
    BY <1>0, <2>1, <2>2, <2>3 DEF SegTypes, iterators
  <2>5. PlaceInv(t)'
    BY <2>1, <2>2 DEF PlaceInv, Started, Linking
  <2> QED
    BY <2>1, <2>2, <2>4, <2>5, QuietStep DEF Alone
<1>4. CASE ClearMemory(t)
  <2>1. /\ pc[t] = "clear" /\ proc[ProcessOf[t]] = "attached" /\ held[t] \in Refs
        /\ dirty' = dirty \ {held[t]}
        /\ Goto(t, "finish")
        /\ UNCHANGED <<meta, freeptr, tailptr, flags, size, cookie, type, next, proc,
                       distrusts, iterators, loc, held, deaths>>
    BY <1>0, <1>4 DEF ClearMemory, At, PlaceInv
  <2>2. /\ pc' \in [Threads -> PCs] /\ pc'[t] = "finish"
        /\ \A u \in Threads \ {t} : pc'[u] = pc[u]
    BY <2>1, Goes DEF PCs
  <2>3. SegTypes'
    BY <1>0, <2>1, <2>2 DEF SegTypes, iterators
  <2>4. PlaceInv(t)'
    BY <2>1, <2>2 DEF PlaceInv, Started, Linking
  <2> QED
    BY <2>1, <2>2, <2>3, <2>4, QuietStep DEF Alone
<1>5. CASE FinishRelease(t)
  <2>1. held[t] \in Refs
    BY <1>0, <1>5 DEF FinishRelease, At, PlaceInv
  <2>2. type' \in [Refs -> Types] /\ held' \in [Threads -> Refs \cup {Null}]
    BY <1>0, <1>5, <2>1 DEF FinishRelease
  <2>3. dirty' \subseteq Refs /\ \A u \in Threads \ {t} : held'[u] = held[u]
    BY <1>0, <1>5 DEF FinishRelease, SegTypes
  <2> QED
    BY <1>1, <1>5, <2>2, <2>3 DEF FinishRelease
<1>6. CASE FindFree(t)
  <2>1. PICK r \in Refs : loc' = [loc EXCEPT ![t].ref = r]
    BY <1>6 DEF FindFree
  <2>2. /\ pc[t] = "idle" /\ proc[ProcessOf[t]] = "attached"
        /\ Goto(t, "exchange")
        /\ UNCHANGED <<segment, proc, distrusts, iterators, held, deaths>>
    BY <1>6 DEF FindFree, At
  <2>3. /\ pc' \in [Threads -> PCs] /\ pc'[t] = "exchange"
        /\ \A u \in Threads \ {t} : pc'[u] = pc[u]
    BY <2>2, Goes DEF PCs
  <2>4. loc' \in [Threads -> Locals] /\ loc'[t].ref = r
    BY <1>0, <2>1, Constants DEF Locals
  <2>5. SegTypes'
    BY <1>0, <2>2, <2>3, <2>4 DEF SegTypes, iterators, segment, Locals
  <2>6. PlaceInv(t)'
    BY <2>2, <2>3, <2>4 DEF PlaceInv, Started, Linking
  <2> QED
    BY <2>1, <2>2, <2>3, <2>5, <2>6, QuietStep DEF Alone, segment
<1>7. CASE Reuse(t)
  <2>1. loc[t].ref \in Refs
    BY <1>0, <1>7 DEF Reuse, At, PlaceInv
  <2>2. /\ type' \in [Refs -> Types] /\ held' \in [Threads -> Refs \cup {Null}]
        /\ dirty' \subseteq Refs /\ \A u \in Threads \ {t} : held'[u] = held[u]
    <3>1. CASE /\ type' = [type EXCEPT ![loc[t].ref] = "object"]
               /\ dirty' = dirty \cup {loc[t].ref}
               /\ held' = [held EXCEPT ![t] = loc[t].ref]
      BY <1>0, <2>1, <3>1 DEF SegTypes
    <3>2. CASE UNCHANGED <<type, dirty, held>>
      BY <1>0, <3>2 DEF SegTypes
    <3> QED
      BY <1>7, <3>1, <3>2 DEF Reuse
  <2> QED
    BY <1>1, <1>7, <2>2 DEF Reuse
<1> QED
  BY <1>2, <1>3, <1>4, <1>5, <1>6, <1>7

LEMMA IterationKeeps ==
    ASSUME SegmentInv, NEW t \in Threads, ReaderNext(t)
    PROVE  SegmentInv'
<1>0. /\ SegTypes /\ ProcessOf[t] \in Processes /\ pc \in [Threads -> PCs]
      /\ loc \in [Threads -> Locals] /\ PlaceInv(t) /\ loc[t] \in Locals
      /\ next \in [Links -> Links \cup {Null}] /\ Links \subseteq Offsets
      /\ last \in [Processes -> Links] /\ count \in [Processes -> Nat]
      /\ delivered \in [Processes -> Seq(Refs)]
  BY Constants DEF SegmentInv, SegTypes, Locals, Links
<1>1. ASSUME NEW place \in PCs, Goto(t, place), pc[t] # "idle" \/ At(t, "idle"),
             place \in {"loadLast", "loadNext", "advance", "count"},
             loc' \in [Threads -> Locals], \A u \in Threads \ {t} : loc'[u] = loc[u],
             place \in {"loadNext", "advance"} => loc'[t].old \in Links,
             place = "advance" => loc'[t].new \in Refs,
             UNCHANGED <<segment, proc, distrusts, held, deaths>>,
             last' \in [Processes -> Links], count' \in [Processes -> Nat],
             delivered' \in [Processes -> Seq(Refs)]
      PROVE  SegmentInv'
  <2>1. /\ pc' \in [Threads -> PCs] /\ pc'[t] = place
        /\ \A u \in Threads \ {t} : pc'[u] = pc[u]
    BY <1>1, Goes
  <2>2. SegTypes'
    BY <1>0, <1>1, <2>1 DEF SegTypes, segment, Locals
  <2>3. proc[ProcessOf[t]] = "attached"
    BY <1>0, <1>1 DEF PlaceInv, At
  <2>4. PlaceInv(t)'
    BY <1>1, <2>1, <2>3 DEF PlaceInv, Started, Linking
  <2> QED
    BY <1>1, <2>1, <2>2, <2>4, QuietStep DEF Alone, segment
<1>2. ASSUME Return(t), SetCorrupt(ProcessOf[t]) \/ KeepFlags,
             UNCHANGED <<meta, freeptr, tailptr, size, cookie, type, next, dirty, proc, last,
                         delivered, held, deaths>>,
             count' \in [Processes -> Nat]
      PROVE  SegmentInv'
  <2>1. /\ distrusts \subseteq distrusts' /\ distrusts' \subseteq Processes
        /\ flags' \subseteq {"corrupt", "full"}
    BY <1>2, Flagged
  <2>2. SegTypes'
    BY <1>0, <1>2, <2>1, ReturnKeepsPlace DEF SegTypes
  <2> QED
    BY <1>2, <2>1, <2>2, QuietStep, ReturnKeepsPlace DEF Alone
<1>3. CASE GetNext(t)
  <2>1. /\ Goto(t, "loadLast") /\ loc' = [loc EXCEPT ![t].size = count[ProcessOf[t]]]
        /\ UNCHANGED <<segment, proc, distrusts, iterators, held, deaths>> /\ At(t, "idle")
    BY <1>3 DEF GetNext
  <2>2. loc' \in [Threads -> Locals] /\ \A u \in Threads \ {t} : loc'[u] = loc[u]
    BY <1>0, <2>1 DEF Locals
  <2>3. "loadLast" \in PCs
    BY DEF PCs, Iterating
  <2> QED
    BY <1>0, <1>1, <2>1, <2>2, <2>3 DEF iterators
<1>4. CASE LoadLast(t)
  <2>1. /\ Goto(t, "loadNext") /\ loc' = [loc EXCEPT ![t].old = last[ProcessOf[t]]]
        /\ UNCHANGED <<segment, proc, distrusts, iterators, held, deaths>>
        /\ pc[t] = "loadLast"
    BY <1>4 DEF LoadLast, At
  <2>2. last[ProcessOf[t]] \in Links /\ last[ProcessOf[t]] \in Offsets
    BY <1>0
  <2>3. /\ loc' \in [Threads -> Locals] /\ \A u \in Threads \ {t} : loc'[u] = loc[u]
        /\ loc'[t].old = last[ProcessOf[t]]
    BY <1>0, <2>1, <2>2 DEF Locals
  <2>4. "loadNext" \in PCs
    BY DEF PCs, Iterating
  <2> QED
    BY <1>0, <1>1, <2>1, <2>2, <2>3, <2>4 DEF iterators
<1>5. CASE LoadNext(t)
  <2>1. /\ pc[t] = "loadNext"
        /\ UNCHANGED <<meta, freeptr, tailptr, size, cookie, type, next, dirty, proc,
                       iterators, held, deaths>>
        /\ loc[t].old \in Links
    BY <1>0, <1>5 DEF LoadNext, At, PlaceInv
  <2>2. CASE Return(t) /\ (SetCorrupt(ProcessOf[t]) \/ KeepFlags)
    BY <1>0, <1>2, <2>1, <2>2 DEF iterators
  <2>3. CASE /\ ValidBlock(next[loc[t].old]) /\ Goto(t, "advance") /\ KeepFlags
             /\ loc' = [loc EXCEPT ![t].new = next[loc[t].old]]
    <3>1. next[loc[t].old] \in Refs /\ next[loc[t].old] \in Offsets
      BY <2>3, Constants DEF ValidBlock
    <3>2. /\ loc' \in [Threads -> Locals] /\ \A u \in Threads \ {t} : loc'[u] = loc[u]
          /\ loc'[t].old = loc[t].old /\ loc'[t].new = next[loc[t].old]
      BY <1>0, <2>3, <3>1 DEF Locals
    <3>3. "advance" \in PCs
      BY DEF PCs, Iterating
    <3> QED
      BY <1>0, <1>1, <2>1, <2>3, <3>1, <3>2, <3>3 DEF iterators, segment, KeepFlags
  <2> QED
    BY <1>5, <2>2, <2>3 DEF LoadNext
<1>6. CASE AdvanceLast(t)
  <2> DEFINE p == ProcessOf[t]
  <2>1. /\ pc[t] = "advance" /\ loc[t].old \in Links /\ loc[t].new \in Refs
        /\ UNCHANGED <<segment, proc, distrusts, count, held, deaths>>
    BY <1>0, <1>6 DEF AdvanceLast, At, PlaceInv
  <2>2. CASE /\ last' = [last EXCEPT ![p] = loc[t].new]
             /\ delivered' = [delivered EXCEPT ![p] = Append(@, loc[t].new)]
             /\ Goto(t, "count") /\ UNCHANGED loc
    <3>1. last' \in [Processes -> Links]
      BY <1>0, <2>1, <2>2 DEF Links
    <3>2. delivered' \in [Processes -> Seq(Refs)]
      <4>1. delivered[p] \in Seq(Refs)
        BY <1>0
      <4>2. Append(delivered[p], loc[t].new) \in Seq(Refs)
        BY <2>1, <4>1
      <4> QED
        BY <1>0, <2>2, <4>2
    <3>3. "count" \in PCs
      BY DEF PCs, Iterating
    <3> QED
      BY <1>0, <1>1, <2>1, <2>2, <3>1, <3>2, <3>3
  <2>3. CASE /\ loc' = [loc EXCEPT ![t].old = last[p]] /\ Goto(t, "loadNext")
             /\ UNCHANGED <<last, delivered>>
    <3>1. last[p] \in Links /\ last[p] \in Offsets
      BY <1>0
    <3>2. /\ loc' \in [Threads -> Locals] /\ \A u \in Threads \ {t} : loc'[u] = loc[u]
          /\ loc'[t].old = last[p]
      BY <1>0, <2>3, <3>1 DEF Locals
    <3>3. "loadNext" \in PCs
      BY DEF PCs, Iterating
    <3> QED
      BY <1>0, <1>1, <2>1, <2>3, <3>1, <3>2, <3>3
  <2> QED
    BY <1>6, <2>2, <2>3 DEF AdvanceLast
<1>7. CASE CountRecord(t)
  <2>1. /\ Return(t)
        /\ UNCHANGED <<meta, freeptr, tailptr, size, cookie, type, next, dirty, proc,
                       last, delivered, held, deaths>>
        /\ \/ SetCorrupt(ProcessOf[t]) /\ UNCHANGED count
           \/ KeepFlags /\ count' = [count EXCEPT ![ProcessOf[t]] = @ + 1]
    BY <1>7 DEF CountRecord
  <2>2. CASE UNCHANGED count
    BY <1>0, <1>2, <2>1, <2>2
  <2>3. CASE KeepFlags /\ count' = [count EXCEPT ![ProcessOf[t]] = @ + 1]
    <3>1. count[ProcessOf[t]] + 1 \in Nat
      BY <1>0
    <3>2. count' \in [Processes -> Nat]
      BY <1>0, <2>3, <3>1
    <3> QED
      BY <1>2, <2>1, <2>3, <3>2
  <2> QED
    BY <2>1, <2>2, <2>3
<1>8. CASE Reset(t)
  <2>1. /\ FreshIterator(ProcessOf[t])
        /\ UNCHANGED <<segment, proc, distrusts, pc, loc, held, deaths>>
    BY <1>8 DEF Reset
  <2>2. /\ last' \in [Processes -> Links] /\ count' \in [Processes -> Nat]
        /\ delivered' \in [Processes -> Seq(Refs)]
    BY <1>0, <2>1 DEF FreshIterator, Links
  <2>3. SegTypes'
    BY <1>0, <2>1, <2>2 DEF SegTypes, segment
  <2>4. PlaceInv(t)'
    BY <1>0, <2>1 DEF PlaceInv, segment, Complete
  <2> QED
    BY <2>1, <2>3, <2>4, QuietStep DEF Alone, segment
<1> QED
  BY <1>3, <1>4, <1>5, <1>6, <1>7, <1>8 DEF ReaderNext

LEMMA ProcessesKeep ==
    ASSUME SegmentInv, NEW p \in Processes, Construct(p) \/ StoreMetadata(p) \/ Die(p)
    PROVE  SegmentInv'
<1>0. /\ SegTypes /\ MetaInv /\ MarkInv /\ \A t \in Threads : PlaceInv(t)
      /\ proc \in [Processes -> {"out", "creating", "attached", "dead"}]
      /\ last \in [Processes -> Links] /\ count \in [Processes -> Nat]
      /\ delivered \in [Processes -> Seq(Refs)]
      /\ next \in [Links -> Links \cup {Null}]
  BY DEF SegmentInv, SegTypes
<1>1. CASE Construct(p)
  <2>1. /\ proc[p] \in {"out", "dead"} /\ FreshIterator(p)
        /\ distrusts' \in {distrusts \cup {p}, distrusts \ {p}}
        /\ p \in distrusts' \/ "cookie" \notin meta \/ Complete
        /\ flags' \in {flags, flags \cup {"corrupt"}}
        /\ proc' = [proc EXCEPT ![p] = IF "cookie" \in meta THEN "attached" ELSE "creating"]
        /\ UNCHANGED <<meta, freeptr, tailptr, size, cookie, type, next, dirty,
                       pc, loc, held, deaths>>
    BY <1>1 DEF Construct
  <2>2. /\ last' \in [Processes -> Links] /\ count' \in [Processes -> Nat]
        /\ delivered' \in [Processes -> Seq(Refs)]
    BY <1>0, <2>1 DEF FreshIterator, Links
  <2>3. /\ flags' \subseteq {"corrupt", "full"} /\ distrusts' \subseteq Processes
        /\ proc' \in [Processes -> {"out", "creating", "attached", "dead"}]
    BY <1>0, <2>1 DEF SegTypes
  <2>4. SegTypes'
    BY <1>0, <2>1, <2>2, <2>3 DEF SegTypes
  <2>5. (Complete' <=> Complete) /\ MarkInv'
    BY <1>0, <2>1 DEF MarkInv, Complete
  <2>6. MetaInv'
    <3>1. ASSUME NEW q \in Processes, proc'[q] = "attached"
          PROVE  q \in distrusts' \/ Complete
      BY <1>0, <2>1, <3>1 DEF MetaInv
    <3> QED
      BY <1>0, <2>1, <2>5, <3>1 DEF MetaInv
  <2>7. ASSUME NEW t \in Threads PROVE PlaceInv(t)'
    <3>1. PlaceInv(t) /\ ProcessOf[t] \in Processes
      BY <1>0, Constants
    <3>2. CASE ProcessOf[t] = p
      <4>1. pc'[t] = "idle"
        BY <2>1, <3>1, <3>2 DEF PlaceInv
      <4> QED
        BY <4>1 DEF PlaceInv, Started, Linking
    <3>3. CASE ProcessOf[t] # p
      <4>1. /\ proc'[ProcessOf[t]] = proc[ProcessOf[t]]
            /\ ProcessOf[t] \in distrusts' <=> ProcessOf[t] \in distrusts
        BY <1>0, <2>1, <3>1, <3>3
      <4> QED
        BY <2>1, <2>5, <3>1, <4>1 DEF PlaceInv
    <3> QED
      BY <3>2, <3>3
  <2> QED
    BY <2>4, <2>5, <2>6, <2>7 DEF SegmentInv
<1>2. CASE StoreMetadata(p)
  <2>1. /\ proc[p] = "creating"
        /\ UNCHANGED <<flags, size, cookie, type, dirty, distrusts, iterators, pc, loc,
                       held, deaths>>
    BY <1>2 DEF StoreMetadata
  <2>2. /\ meta \subseteq meta' /\ meta' \subseteq Fields
        /\ (freeptr' = freeptr \/ (Plain \subseteq meta /\ freeptr = 0 /\ freeptr' = MetaSize))
        /\ \/ UNCHANGED next
           \/ /\ next[Queue] = Null /\ "queueCookie" \in meta /\ freeptr' = freeptr
              /\ next' = [next EXCEPT ![Queue] = Queue] /\ UNCHANGED tailptr
        /\ \/ UNCHANGED tailptr
           \/ next[Queue] # Null /\ tailptr = Null /\ tailptr' = Queue /\ UNCHANGED next
        /\ \/ UNCHANGED proc
           \/ proc' = [proc EXCEPT ![p] = "attached"] /\ tailptr # Null
        /\ "queueCookie" \in meta' => "queueCookie" \in meta \/ freeptr # 0
    BY <1>0, <1>2 DEF StoreMetadata, SegTypes, Fields, Plain
  <2>3. /\ next' \in [Links -> Links \cup {Null}] /\ tailptr' \in Links \cup {Null}
        /\ freeptr' \in Offsets
        /\ proc' \in [Processes -> {"out", "creating", "attached", "dead"}]
        /\ \A r \in Links : next'[r] = next[r] \/ (r = Queue /\ next'[r] = Queue)
    <3>1. next' \in [Links -> Links \cup {Null}]
      BY <1>0, <2>2 DEF Links
    <3>2. \A r \in Links : next'[r] = next[r] \/ (r = Queue /\ next'[r] = Queue)
      BY <1>0, <2>2 DEF Links
    <3>3. tailptr' \in Links \cup {Null}
      BY <1>0, <2>2 DEF SegTypes, Links
    <3>4. freeptr' \in Offsets
      BY <1>0, <2>2, Constants DEF SegTypes
    <3>5. proc' \in [Processes -> {"out", "creating", "attached", "dead"}]
      BY <1>0, <2>2
    <3> QED
      BY <3>1, <3>2, <3>3, <3>4, <3>5
  <2>4. \A r \in Links : next[r] # Null => next'[r] # Null
    BY <2>3, Constants DEF Links
  <2>5. SegTypes'
    BY <1>0, <2>1, <2>2, <2>3 DEF SegTypes, iterators
  <2>6. freeptr # 0 => freeptr' # 0
    BY <2>2, Constants DEF MetaSize
  <2>7. Complete => Complete'
    <3>1. tailptr # Null => tailptr' # Null
      BY <2>2
    <3> QED
      BY <2>2, <2>4, <2>6, <3>1 DEF Complete, Links
  <2>8. MarkInv'
    <3>1. tailptr' # Null => next'[tailptr'] # Null
      BY <1>0, <2>2, <2>4, Constants DEF MarkInv, SegTypes, Links
    <3>2. ASSUME NEW r \in Links, next'[r] \in Refs
          PROVE  next'[next'[r]] # Null
      <4>1. next'[r] = next[r]
        BY <2>3, <3>2, Constants
      <4> QED
        BY <1>0, <2>4, <3>2, <4>1 DEF MarkInv, Links
    <3> QED
      BY <3>1, <3>2 DEF MarkInv
  <2>9. MetaInv'
    <3>1. freeptr' # 0 => Plain \subseteq meta' /\ freeptr' >= MetaSize
      BY <1>0, <2>2 DEF MetaInv, MetaSize
    <3>2. "queueCookie" \in meta' => freeptr' # 0
      BY <1>0, <2>2, <2>6 DEF MetaInv
    <3>3. next'[Queue] # Null => "queueCookie" \in meta'
      BY <1>0, <2>2 DEF MetaInv
    <3>4. tailptr' # Null => next'[Queue] # Null
      BY <1>0, <2>2, <2>4 DEF MetaInv, Links
    <3>5. ASSUME NEW q \in Processes, proc'[q] = "attached"
          PROVE  q \in distrusts' \/ Complete'
      <4>1. CASE tailptr # Null
        BY <1>0, <2>7, <4>1 DEF MetaInv, Complete
      <4>2. CASE tailptr = Null
        BY <1>0, <2>1, <2>2, <2>7, <3>5, <4>2 DEF MetaInv
      <4> QED
        BY <4>1, <4>2
    <3> QED
      BY <3>1, <3>2, <3>3, <3>4, <3>5 DEF MetaInv
  <2>10. ASSUME NEW t \in Threads PROVE PlaceInv(t)'
    <3>1. PlaceInv(t) /\ ProcessOf[t] \in Processes
      BY <1>0, Constants
    <3>2. proc[ProcessOf[t]] = "attached" => proc'[ProcessOf[t]] = "attached"
      BY <1>0, <2>1, <2>2, <3>1
    <3>3. \A r \in Refs : r \in Links
      BY DEF Links
    <3> QED
      BY <2>1, <2>4, <2>7, <3>1, <3>2, <3>3 DEF PlaceInv
  <2> QED
    BY <2>5, <2>8, <2>9, <2>10 DEF SegmentInv
<1>3. CASE Die(p)
  <2>1. /\ deaths' = deaths + 1 /\ deaths < MaxDeaths
        /\ proc' = [proc EXCEPT ![p] = "dead"]
        /\ pc' = [t \in Threads |-> IF ProcessOf[t] = p THEN "idle" ELSE pc[t]]
        /\ loc' = [t \in Threads |-> IF ProcessOf[t] = p THEN NoLocals ELSE loc[t]]
        /\ held' = [t \in Threads |-> IF ProcessOf[t] = p THEN Null ELSE held[t]]
        /\ UNCHANGED <<segment, distrusts, iterators>>
    BY <1>3 DEF Die
  <2>2. deaths' \in 0..MaxDeaths
    BY <1>0, <2>1, SizesAssumption DEF SegTypes
  <2>3. /\ proc' \in [Processes -> {"out", "creating", "attached", "dead"}]
        /\ pc' \in [Threads -> PCs] /\ held' \in [Threads -> Refs \cup {Null}]
    BY <1>0, <2>1 DEF SegTypes, PCs
  <2>4. loc' \in [Threads -> Locals]
    <3>1. NoLocals \in Locals
      BY Constants DEF NoLocals, Locals
    <3> QED
      BY <1>0, <2>1, <3>1 DEF SegTypes, Locals
  <2>5. SegTypes'
    BY <1>0, <2>1, <2>2, <2>3, <2>4 DEF SegTypes, segment, iterators, Locals
  <2>6. (Complete' <=> Complete) /\ MarkInv' /\ MetaInv'
    BY <1>0, <2>1 DEF MarkInv, MetaInv, Complete, segment
  <2>7. ASSUME NEW t \in Threads PROVE PlaceInv(t)'
    <3>1. PlaceInv(t) /\ ProcessOf[t] \in Processes
      BY <1>0, Constants
    <3>2. CASE ProcessOf[t] = p
      BY <2>1, <3>2 DEF PlaceInv, Started, Linking
    <3>3. CASE ProcessOf[t] # p
      <4>1. /\ proc'[ProcessOf[t]] = proc[ProcessOf[t]]
            /\ pc'[t] = pc[t] /\ loc'[t] = loc[t] /\ held'[t] = held[t]
        BY <1>0, <2>1, <3>1, <3>3
      <4> QED
        BY <2>1, <2>6, <3>1, <4>1 DEF PlaceInv, segment
    <3> QED
      BY <3>2, <3>3
  <2> QED
    BY <2>5, <2>6, <2>7 DEF SegmentInv
<1> QED
  BY <1>1, <1>2, <1>3

LEMMA StutterKeeps ==
    ASSUME SegmentInv, UNCHANGED vars
    PROVE  SegmentInv'
<1>1. UNCHANGED <<meta, freeptr, tailptr, flags, size, cookie, type, next, dirty, proc,
                  distrusts, last, count, delivered, pc, loc, held, deaths>>
  BY DEF vars, segment, iterators
<1>2. SegTypes'
  BY <1>1 DEF SegmentInv, SegTypes
<1>3. MetaInv' /\ MarkInv' /\ (Complete' <=> Complete)
  BY <1>1 DEF SegmentInv, MetaInv, MarkInv, Complete
<1>4. ASSUME NEW t \in Threads PROVE PlaceInv(t)'
  BY <1>1, <1>3 DEF SegmentInv, PlaceInv
<1> QED
  BY <1>2, <1>3, <1>4 DEF SegmentInv

LEMMA StepsKeepSegmentInv == SegmentInv /\ [Next]_vars => SegmentInv'
<1> SUFFICES ASSUME SegmentInv, [Next]_vars PROVE SegmentInv'
  OBVIOUS
<1>1. ASSUME NEW t \in Writers, WriterNext(t) PROVE SegmentInv'
  <2>1. t \in Threads
    BY DEF Threads
  <2> QED
    BY <1>1, <2>1, AllocationKeeps, HeaderKeeps, PublishKeeps, RecycleKeeps DEF WriterNext
<1>2. ASSUME NEW t \in Readers, ReaderNext(t) PROVE SegmentInv'
  BY <1>2, IterationKeeps DEF Threads
<1> QED
  BY <1>1, <1>2, ProcessesKeep, StutterKeeps DEF Next

-----------------------------------------------------------------------------
(* Blocks and what threads have taken for blocks do not overlap.             *)

Apart(r, n, s, m) == s + m <= r \/ r + n <= s
Room(r, n) == n \in 1..PageFree(r) /\ r + n <= freeptr

\* A thread that has moved freeptr and not yet written the header.
Claiming(t) == pc[t] \in {"waste", "header"}
Extent(t) == IF pc[t] = "waste" THEN PageFree(loc[t].old) ELSE loc[t].size

BlankInv ==
    \A r \in Refs : cookie[r] = "free" => size[r] = 0 /\ type[r] = "none" /\ next[r] = Null

ExtentInv ==
    \A r \in Refs : cookie[r] # "free" =>
        /\ Room(r, size[r])
        /\ cookie[r] = "allocated" => size[r] >= Header + 1
        /\ \A s \in Refs \ {r} : cookie[s] # "free" => Apart(r, size[r], s, size[s])

ClaimInv ==
    \A t \in Threads : Claiming(t) =>
        /\ Room(loc[t].old, Extent(t))
        /\ \A s \in Refs : cookie[s] # "free" => Apart(loc[t].old, Extent(t), s, size[s])
        /\ \A u \in Threads \ {t} :
              Claiming(u) => Apart(loc[t].old, Extent(t), loc[u].old, Extent(u))

BlockInv == SegmentInv /\ BlankInv /\ ExtentInv /\ ClaimInv

LEMMA PageRoom ==
    ASSUME NEW r \in Nat
    PROVE  PageFree(r) \in 1..PageSize /\ PageFree(r) \in Nat
<1>1. PageFree(r) \in 1..PageSize
  BY PageParts
<1> QED
  BY <1>1, SizesAssumption

\* A claimed block has no header yet.
LEMMA ClaimedIsFree ==
    ASSUME BlockInv, NEW t \in Threads, Claiming(t)
    PROVE  /\ loc[t].old \in Refs /\ cookie[loc[t].old] = "free"
           /\ size[loc[t].old] = 0 /\ type[loc[t].old] = "none" /\ next[loc[t].old] = Null
<1> DEFINE r == loc[t].old
<1>1. r \in Refs /\ r \in Nat
  <2>1. PlaceInv(t)
    BY DEF BlockInv, SegmentInv
  <2> QED
    BY <2>1, Constants DEF PlaceInv, Claiming
<1>2. cookie[r] = "free"
  <2>1. SUFFICES ASSUME cookie[r] # "free" PROVE FALSE
    OBVIOUS
  <2>2. Room(r, size[r]) /\ Room(r, Extent(t)) /\ Apart(r, Extent(t), r, size[r])
    BY <1>1, <2>1 DEF BlockInv, ExtentInv, ClaimInv
  <2>3. PICK n : n = Extent(t)
    OBVIOUS
  <2>4. PICK m : m = size[r]
    OBVIOUS
  <2>5. PageFree(r) \in Nat
    BY <1>1, PageRoom
  <2> QED
    BY <1>1, <2>2, <2>3, <2>4, <2>5 DEF Room, Apart
<1> QED
  BY <1>1, <1>2 DEF BlockInv, BlankInv

\* Steps that leave blocks and claims alone, or give up claims.
LEMMA QuietBlocks ==
    ASSUME BlockInv, SegmentInv', UNCHANGED <<size, cookie>>, freeptr <= freeptr',
           \A t \in Threads : pc'[t] \in {"waste", "header"} => pc'[t] = pc[t] /\ loc'[t] = loc[t],
           \A r \in Refs : cookie[r] = "free" => type'[r] = "none" /\ next'[r] = Null
    PROVE  BlockInv'
<1>1. freeptr \in Nat /\ freeptr' \in Nat
  BY Constants DEF BlockInv, SegmentInv, SegTypes
<1>2. ASSUME NEW r \in Nat, NEW n, Room(r, n) PROVE Room(r, n)'
  BY <1>1, <1>2, PageParts, Constants DEF Room
<1>3. BlankInv'
  BY DEF BlockInv, BlankInv
<1>4. ExtentInv'
  BY <1>2, Constants DEF BlockInv, ExtentInv
<1>5. ASSUME NEW t \in Threads, Claiming(t)'
      PROVE  Claiming(t) /\ pc'[t] = pc[t] /\ loc'[t] = loc[t] /\ Extent(t)' = Extent(t)
             /\ loc[t].old \in Nat
  <2>1. Claiming(t) /\ pc'[t] = pc[t] /\ loc'[t] = loc[t] /\ Extent(t)' = Extent(t)
    BY <1>5 DEF Claiming, Extent
  <2> QED
    BY <2>1, ClaimedIsFree, Constants
<1>6. ClaimInv'
  <2>1. ASSUME NEW t \in Threads, Claiming(t)'
        PROVE  Room(loc[t].old, Extent(t))'
    <3>1. PICK r : r = loc[t].old
      OBVIOUS
    <3>2. PICK n : n = Extent(t)
      OBVIOUS
    <3>3. r \in Nat /\ Room(r, n) /\ r = loc'[t].old /\ n = Extent(t)'
      BY <1>5, <2>1, <3>1, <3>2 DEF BlockInv, ClaimInv
    <3>4. Room(r, n)'
      BY <1>2, <3>3
    <3> QED
      BY <3>3, <3>4
  <2>2. ASSUME NEW t \in Threads, Claiming(t)', NEW s \in Refs, cookie'[s] # "free"
        PROVE  Apart(loc[t].old, Extent(t), s, size[s])'
    BY <1>5, <2>2 DEF BlockInv, ClaimInv
  <2>3. ASSUME NEW t \in Threads, Claiming(t)', NEW u \in Threads \ {t}, Claiming(u)'
        PROVE  Apart(loc[t].old, Extent(t), loc[u].old, Extent(u))'
    <3>1. Apart(loc[t].old, Extent(t), loc[u].old, Extent(u))
      BY <1>5, <2>3 DEF BlockInv, ClaimInv
    <3> QED
      BY <1>5, <2>3, <3>1
  <2> QED
    BY <2>1, <2>2, <2>3 DEF ClaimInv
<1> QED
  BY <1>3, <1>4, <1>6 DEF BlockInv

\* A step of a thread that claims nothing new.
LEMMA QuietBlockStep ==
    ASSUME BlockInv, SegmentInv', NEW t \in Threads, UNCHANGED <<freeptr, size, cookie>>,
           \A u \in Threads \ {t} : pc'[u] = pc[u] /\ loc'[u] = loc[u],
           pc'[t] \notin {"waste", "header"},
           \A r \in Refs : cookie[r] = "free" => type'[r] = "none" /\ next'[r] = Null
    PROVE  BlockInv'
<1>1. freeptr <= freeptr'
  BY Constants DEF BlockInv, SegmentInv, SegTypes
<1>2. \A u \in Threads : pc'[u] \in {"waste", "header"} => pc'[u] = pc[u] /\ loc'[u] = loc[u]
  OBVIOUS
<1> QED
  BY <1>1, <1>2, QuietBlocks

\* A thread takes the start of what is free.
LEMMA LoopKeepsBlocks ==
    ASSUME BlockInv, SegmentInv', NEW t \in Threads, AllocateLoop(t)
    PROVE  BlockInv'
<1>0. /\ SegmentInv /\ freeptr \in Nat /\ pc \in [Threads -> PCs] /\ loc \in [Threads -> Locals]
      /\ pc[t] = "loop"
      /\ UNCHANGED <<meta, tailptr, size, cookie, type, next, dirty, proc, iterators,
                     held, deaths>>
  BY LoopSteps, Constants DEF BlockInv, SegmentInv, SegTypes, Locals
<1>1. \A r \in Refs : cookie[r] = "free" => type'[r] = "none" /\ next'[r] = Null
  BY <1>0 DEF BlockInv, BlankInv
<1>2. CASE UNCHANGED freeptr
  <2>1. pc'[t] \notin {"waste", "header"}
        /\ \A u \in Threads \ {t} : pc'[u] = pc[u] /\ loc'[u] = loc[u]
    <3>1. CASE Return(t)
      BY <1>0, <3>1 DEF Return, Goto
    <3>2. CASE UNCHANGED pc /\ \E n \in (Header + 1)..PageSize :
                                  loc' = [loc EXCEPT ![t].old = freeptr, ![t].size = n]
      BY <1>0, <3>2
    <3>3. ASSUME NEW n \in Nat \ {0}, freeptr' = freeptr + n PROVE FALSE
      BY <1>0, <1>2, <3>3
    <3> QED
      BY <1>0, <3>1, <3>2, <3>3, LoopSteps
  <2> QED
    BY <1>0, <1>1, <1>2, <2>1, QuietBlockStep
<1>3. ASSUME NEW n \in Nat \ {0}, freeptr' = freeptr + n, n <= PageFree(freeptr),
             loc[t].old = freeptr, freeptr \in Refs,
             \/ Goto(t, "waste") /\ n = PageFree(freeptr) /\ UNCHANGED loc
             \/ Goto(t, "header") /\ loc' = [loc EXCEPT ![t].size = n]
      PROVE  BlockInv'
  <2>1. /\ pc'[t] \in {"waste", "header"} /\ loc'[t].old = freeptr /\ Extent(t)' = n
        /\ \A u \in Threads \ {t} : pc'[u] = pc[u] /\ loc'[u] = loc[u]
    BY <1>0, <1>3 DEF Goto, Extent, Locals
  <2>2. n \in 1..PageFree(freeptr) /\ freeptr' \in Nat /\ freeptr <= freeptr'
    BY <1>0, <1>3, PageRoom
  <2>3. ASSUME NEW r \in Nat, NEW m, Room(r, m)
        PROVE  Room(r, m)' /\ Apart(freeptr, n, r, m) /\ Apart(r, m, freeptr, n)
    <3>1. m \in Nat /\ r + m <= freeptr /\ PageFree(r) \in Nat
      BY <2>3, PageRoom DEF Room
    <3> QED
      BY <1>0, <2>2, <2>3, <3>1 DEF Room, Apart
  <2>4. BlankInv'
    BY <1>0, <1>1 DEF BlockInv, BlankInv
  <2>5. ExtentInv'
    BY <1>0, <2>3, Constants DEF BlockInv, ExtentInv
  <2>6. ASSUME NEW u \in Threads \ {t}, Claiming(u)'
        PROVE  /\ Claiming(u) /\ loc'[u].old = loc[u].old /\ Extent(u)' = Extent(u)
               /\ loc[u].old \in Nat /\ Room(loc[u].old, Extent(u))
    <3>1. Claiming(u) /\ loc'[u] = loc[u] /\ Extent(u)' = Extent(u)
      BY <2>1, <2>6 DEF Claiming, Extent
    <3> QED
      BY <3>1, ClaimedIsFree, Constants DEF BlockInv, ClaimInv
  <2>7. ASSUME NEW u \in Threads, Claiming(u)'
        PROVE  Room(loc[u].old, Extent(u))'
    <3>1. PICK r : r = loc'[u].old
      OBVIOUS
    <3>2. PICK m : m = Extent(u)'
      OBVIOUS
    <3>3. Room(r, m)'
      <4>1. CASE u = t
        BY <1>0, <1>3, <2>1, <2>2, <3>1, <3>2, <4>1 DEF Room
      <4>2. CASE u # t
        BY <2>3, <2>6, <2>7, <3>1, <3>2, <4>2
      <4> QED
        BY <4>1, <4>2
    <3> QED
      BY <3>1, <3>2, <3>3
  <2>8. ASSUME NEW u \in Threads, Claiming(u)', NEW s \in Refs, cookie'[s] # "free"
        PROVE  Apart(loc[u].old, Extent(u), s, size[s])'
    <3>1. Room(s, size[s]) /\ s \in Nat
      BY <1>0, <2>8, Constants DEF BlockInv, ExtentInv
    <3>2. CASE u = t
      BY <1>0, <2>1, <2>3, <3>1, <3>2
    <3>3. CASE u # t
      BY <1>0, <2>6, <2>8, <3>3 DEF BlockInv, ClaimInv
    <3> QED
      BY <3>2, <3>3
  <2>9. ASSUME NEW u \in Threads, Claiming(u)', NEW v \in Threads \ {u}, Claiming(v)'
        PROVE  Apart(loc[u].old, Extent(u), loc[v].old, Extent(v))'
    <3>1. CASE u = t
      BY <2>1, <2>3, <2>6, <2>9, <3>1
    <3>2. CASE v = t
      BY <2>1, <2>3, <2>6, <2>9, <3>2
    <3>3. CASE u # t /\ v # t
      <4>1. Apart(loc[u].old, Extent(u), loc[v].old, Extent(v))
        BY <2>6, <2>9, <3>3 DEF BlockInv, ClaimInv
      <4> QED
        BY <2>6, <2>9, <3>3, <4>1
    <3> QED
      BY <3>1, <3>2, <3>3
  <2>10. ClaimInv'
    BY <2>7, <2>8, <2>9 DEF ClaimInv
  <2> QED
    BY <2>4, <2>5, <2>10 DEF BlockInv
<1> QED
  BY <1>2, <1>3, LoopSteps, <1>0

\* A claim becomes a block.
LEMMA ClaimIsBuilt ==
    ASSUME BlockInv, SegmentInv', NEW t \in Threads, Claiming(t), pc'[t] \notin {"waste", "header"},
           NEW k \in {"wasted", "allocated"}, k = "allocated" => Extent(t) >= Header + 1,
           size' = [size EXCEPT ![loc[t].old] = Extent(t)],
           cookie' = [cookie EXCEPT ![loc[t].old] = k],
           UNCHANGED <<freeptr, next>>,
           \A r \in Refs \ {loc[t].old} : type'[r] = type[r],
           \A u \in Threads \ {t} : pc'[u] = pc[u] /\ loc'[u] = loc[u]
    PROVE  BlockInv'
<1> DEFINE c == loc[t].old
           e == Extent(t)
<1>1. /\ c \in Refs /\ cookie[c] = "free" /\ Room(c, e) /\ size \in [Refs -> Offsets]
      /\ cookie \in [Refs -> {"free", "wasted", "allocated"}]
  BY ClaimedIsFree DEF BlockInv, ClaimInv, SegmentInv, SegTypes
<1>2. /\ size'[c] = e /\ cookie'[c] = k /\ k # "free"
      /\ \A r \in Refs \ {c} : size'[r] = size[r] /\ cookie'[r] = cookie[r]
  BY <1>1
<1> HIDE DEF c, e
<1>3. BlankInv'
  <2>1. ASSUME NEW r \in Refs, cookie'[r] = "free"
        PROVE  size'[r] = 0 /\ type'[r] = "none" /\ next'[r] = Null
    BY <1>2, <2>1 DEF BlockInv, BlankInv, c
  <2> QED
    BY <2>1 DEF BlankInv
<1>4. ASSUME NEW s \in Refs, cookie[s] # "free"
      PROVE  Apart(c, e, s, size[s]) /\ Apart(s, size[s], c, e)
  BY <1>4 DEF BlockInv, ClaimInv, Apart, c, e
<1>5. ASSUME NEW r \in Nat, NEW n, Room(r, n) PROVE Room(r, n)'
  BY <1>5 DEF Room
<1>6. ExtentInv'
  <2>1. ASSUME NEW r \in Refs, cookie'[r] # "free"
        PROVE  Room(r, size[r])' /\ (cookie'[r] = "allocated" => size'[r] >= Header + 1)
    <3>1. CASE r = c
      BY <1>1, <1>2, <3>1 DEF Room, e
    <3>2. CASE r # c
      BY <1>2, <2>1, <3>2 DEF BlockInv, ExtentInv, Room
    <3> QED
      BY <3>1, <3>2
  <2>2. ASSUME NEW r \in Refs, cookie'[r] # "free", NEW s \in Refs \ {r}, cookie'[s] # "free"
        PROVE  Apart(r, size'[r], s, size'[s])
    <3>1. CASE r = c
      BY <1>2, <1>4, <2>2, <3>1
    <3>2. CASE s = c
      BY <1>2, <1>4, <2>2, <3>2
    <3>3. CASE r # c /\ s # c
      BY <1>2, <2>2, <3>3 DEF BlockInv, ExtentInv
    <3> QED
      BY <3>1, <3>2, <3>3
  <2> QED
    BY <2>1, <2>2 DEF ExtentInv
<1>7. ASSUME NEW u \in Threads, Claiming(u)'
      PROVE  /\ u # t /\ Claiming(u) /\ loc'[u].old = loc[u].old /\ Extent(u)' = Extent(u)
             /\ Room(loc[u].old, Extent(u))
             /\ \A s \in Refs : cookie[s] # "free" => Apart(loc[u].old, Extent(u), s, size[s])
             /\ Apart(loc[u].old, Extent(u), c, e)
  <2>1. u # t /\ Claiming(u) /\ loc'[u].old = loc[u].old /\ Extent(u)' = Extent(u)
    BY <1>7 DEF Claiming, Extent
  <2> QED
    BY <2>1 DEF BlockInv, ClaimInv, c, e
<1>8. ClaimInv'
  <2>1. ASSUME NEW u \in Threads, Claiming(u)'
        PROVE  Room(loc[u].old, Extent(u))'
    BY <1>7, <2>1 DEF Room
  <2>2. ASSUME NEW u \in Threads, Claiming(u)', NEW s \in Refs, cookie'[s] # "free"
        PROVE  Apart(loc[u].old, Extent(u), s, size[s])'
    BY <1>2, <1>7, <2>2
  <2>3. ASSUME NEW u \in Threads, Claiming(u)', NEW v \in Threads \ {u}, Claiming(v)'
        PROVE  Apart(loc[u].old, Extent(u), loc[v].old, Extent(v))'
    <3>1. Apart(loc[u].old, Extent(u), loc[v].old, Extent(v))
      BY <1>7, <2>3 DEF BlockInv, ClaimInv
    <3> QED
      BY <1>7, <2>3, <3>1
  <2> QED
    BY <2>1, <2>2, <2>3 DEF ClaimInv
<1> QED
  BY <1>3, <1>6, <1>8 DEF BlockInv

LEMMA HeaderKeepsBlocks ==
    ASSUME BlockInv, SegmentInv', NEW t \in Threads, WasteRest(t) \/ WriteHeader(t)
    PROVE  BlockInv'
<1>0. /\ pc \in [Threads -> PCs] /\ loc \in [Threads -> Locals] /\ type \in [Refs -> Types]
      /\ SegmentInv /\ PlaceInv(t)
  BY DEF BlockInv, SegmentInv, SegTypes, Locals
<1>1. CASE WasteRest(t)
  <2>1. /\ pc[t] = "waste" /\ pc' = [pc EXCEPT ![t] = "loop"] /\ Claiming(t)
        /\ Extent(t) = PageFree(loc[t].old)
        /\ size' = [size EXCEPT ![loc[t].old] = PageFree(loc[t].old)]
        /\ cookie' = [cookie EXCEPT ![loc[t].old] = "wasted"]
        /\ UNCHANGED <<freeptr, next, type, loc>>
    BY <1>1 DEF WasteRest, At, Goto, Claiming, Extent
  <2> QED
    BY <1>0, <2>1, ClaimIsBuilt
<1>2. CASE WriteHeader(t)
  <2>1. pc[t] = "header" /\ Claiming(t) /\ Extent(t) = loc[t].size /\ UNCHANGED <<freeptr, next>>
    BY <1>2 DEF WriteHeader, At, Claiming, Extent
  <2>2. /\ loc[t].old \in Refs /\ cookie[loc[t].old] = "free" /\ size[loc[t].old] = 0
        /\ type[loc[t].old] = "none" /\ next[loc[t].old] = Null
    BY <2>1, ClaimedIsFree
  <2>3. /\ size' = [size EXCEPT ![loc[t].old] = loc[t].size]
        /\ cookie' = [cookie EXCEPT ![loc[t].old] = "allocated"]
        /\ type' = [type EXCEPT ![loc[t].old] = "object"]
        /\ loc' = [loc EXCEPT ![t].ref = loc[t].old]
        /\ pc' = [pc EXCEPT ![t] = "publish"]
    BY <1>2, <2>2 DEF WriteHeader, Goto
  <2>4. Extent(t) >= Header + 1
    BY <1>0, <2>1, Constants DEF PlaceInv, Header
  <2>5. /\ pc'[t] \notin {"waste", "header"}
        /\ \A r \in Refs \ {loc[t].old} : type'[r] = type[r]
        /\ \A u \in Threads \ {t} : pc'[u] = pc[u] /\ loc'[u] = loc[u]
    BY <1>0, <2>3
  <2> QED
    BY <2>1, <2>3, <2>4, <2>5, ClaimIsBuilt
<1> QED
  BY <1>1, <1>2

\* A step of a thread at a place to another one, where nothing is claimed.
LEMMA Moves ==
    ASSUME SegmentInv, NEW t \in Threads
    PROVE  /\ \A place \in PCs : Goto(t, place) =>
                 pc'[t] = place /\ \A u \in Threads \ {t} : pc'[u] = pc[u]
           /\ Return(t) => /\ pc'[t] = "idle"
                           /\ \A u \in Threads \ {t} : pc'[u] = pc[u] /\ loc'[u] = loc[u]
           /\ \A l : loc' = [loc EXCEPT ![t] = l] => \A u \in Threads \ {t} : loc'[u] = loc[u]
BY DEF Return, Goto, SegmentInv, SegTypes

LEMMA PublishKeepsBlocks ==
    ASSUME BlockInv, SegmentInv', NEW t \in Threads, MakeIterable(t) \/ Publish(t)
    PROVE  BlockInv'
<1>0. /\ SegmentInv /\ PlaceInv(t) /\ BlankInv /\ next \in [Links -> Links \cup {Null}]
      /\ pc \in [Threads -> PCs] /\ loc \in [Threads -> Locals]
      /\ "loadTail" \in PCs /\ "link" \in PCs /\ "swing" \in PCs /\ "help" \in PCs
  BY DEF BlockInv, SegmentInv, SegTypes, PCs, Locals
<1>1. UNCHANGED <<freeptr, size, cookie, type>>
  BY DEF MakeIterable, Publish, LoadTail, LinkAfterTail, SwingTail, HelpTail, segment
<1>2. \A r \in Refs : cookie[r] = "free" => type'[r] = "none" /\ next'[r] = Null
  <2>1. CASE MakeIterable(t)
    <3>1. UNCHANGED next \/ /\ cookie[loc[t].ref] = "allocated"
                            /\ next' = [next EXCEPT ![loc[t].ref] = Queue]
      BY <2>1 DEF MakeIterable, ValidBlock
    <3> QED
      BY <1>0, <1>1, <3>1 DEF BlankInv, Links
  <2>2. CASE LinkAfterTail(t)
    <3>1. UNCHANGED next \/ /\ next[loc[t].old] = Queue
                            /\ next' = [next EXCEPT ![loc[t].old] = loc[t].ref]
      BY <2>2 DEF LinkAfterTail
    <3> QED
      BY <1>0, <1>1, <3>1, Constants DEF BlankInv, Links
  <2>3. CASE LoadTail(t) \/ SwingTail(t) \/ HelpTail(t)
    BY <1>0, <1>1, <2>3 DEF BlankInv, LoadTail, SwingTail, HelpTail, segment
  <2> QED
    BY <2>1, <2>2, <2>3 DEF Publish
<1>3. \/ Return(t)
      \/ /\ \E place \in {"loadTail", "link", "swing", "help"} : Goto(t, place)
         /\ \/ UNCHANGED loc
            \/ \E v : loc' = [loc EXCEPT ![t].old = v]
            \/ \E v : loc' = [loc EXCEPT ![t].new = v]
  BY DEF MakeIterable, Publish, LoadTail, LinkAfterTail, SwingTail, HelpTail
<1>4. /\ pc'[t] \notin {"waste", "header"}
      /\ \A u \in Threads \ {t} : pc'[u] = pc[u] /\ loc'[u] = loc[u]
  <2>1. CASE Return(t)
    BY <1>0, <2>1, Moves
  <2>2. CASE \E place \in {"loadTail", "link", "swing", "help"} : Goto(t, place)
    <3>1. pc'[t] \notin {"waste", "header"} /\ \A u \in Threads \ {t} : pc'[u] = pc[u]
      BY <1>0, <2>2, Moves
    <3>2. \A u \in Threads \ {t} : loc'[u] = loc[u]
      BY <1>0, <1>3, Moves
    <3> QED
      BY <3>1, <3>2
  <2> QED
    BY <1>3, <2>1, <2>2
<1> QED
  BY <1>1, <1>2, <1>4, QuietBlockStep

LEMMA RecycleKeepsBlocks ==
    ASSUME BlockInv, SegmentInv', NEW t \in Threads,
           \/ Discard(t) \/ Release(t) \/ ClearMemory(t) \/ FinishRelease(t)
           \/ FindFree(t) \/ Reuse(t)
    PROVE  BlockInv'
<1>0. /\ SegmentInv /\ BlankInv /\ type \in [Refs -> Types] /\ PlaceInv(t)
      /\ pc \in [Threads -> PCs] /\ loc \in [Threads -> Locals]
      /\ "clear" \in PCs /\ "finish" \in PCs /\ "exchange" \in PCs
  BY DEF BlockInv, SegmentInv, SegTypes, PCs, Locals
<1>1. UNCHANGED <<freeptr, size, cookie, next>>
  BY DEF Discard, Release, ClearMemory, FinishRelease, FindFree, Reuse, segment
<1>2. \A r \in Refs : cookie[r] = "free" => type'[r] = "none"
  <2>1. CASE Discard(t)
    BY <1>0, <2>1 DEF Discard, BlankInv
  <2>2. CASE Release(t)
    BY <1>0, <2>2 DEF Release, BlankInv
  <2>3. CASE FinishRelease(t)
    BY <1>0, <2>3 DEF FinishRelease, BlankInv
  <2>4. CASE Reuse(t)
    BY <1>0, <2>4 DEF Reuse, BlankInv
  <2>5. CASE ClearMemory(t) \/ FindFree(t)
    BY <1>0, <2>5 DEF ClearMemory, FindFree, BlankInv, segment
  <2> QED
    BY <2>1, <2>2, <2>3, <2>4, <2>5
<1>3. \/ Return(t)
      \/ /\ \E place \in {"clear", "finish", "exchange"} : Goto(t, place)
         /\ UNCHANGED loc \/ \E v : loc' = [loc EXCEPT ![t].ref = v]
  BY DEF Discard, Release, ClearMemory, FinishRelease, FindFree, Reuse
<1>4. /\ pc'[t] \notin {"waste", "header"}
      /\ \A u \in Threads \ {t} : pc'[u] = pc[u] /\ loc'[u] = loc[u]
  <2>1. CASE Return(t)
    BY <1>0, <2>1, Moves
  <2>2. CASE \E place \in {"clear", "finish", "exchange"} : Goto(t, place)
    <3>1. pc'[t] \notin {"waste", "header"} /\ \A u \in Threads \ {t} : pc'[u] = pc[u]
      BY <1>0, <2>2, Moves
    <3>2. \A u \in Threads \ {t} : loc'[u] = loc[u]
      BY <1>0, <1>3, Moves
    <3> QED
      BY <3>1, <3>2
  <2> QED
    BY <1>3, <2>1, <2>2
<1>5. \A r \in Refs : cookie[r] = "free" => next'[r] = Null
  BY <1>0, <1>1 DEF BlankInv
<1> QED
  BY <1>1, <1>2, <1>4, <1>5, QuietBlockStep

LEMMA IterationKeepsBlocks ==
    ASSUME BlockInv, SegmentInv', NEW t \in Threads, ReaderNext(t) \/ Allocate(t)
    PROVE  BlockInv'
<1>0. /\ SegmentInv /\ BlankInv /\ PlaceInv(t)
      /\ pc \in [Threads -> PCs] /\ loc \in [Threads -> Locals]
      /\ "loadLast" \in PCs /\ "loadNext" \in PCs /\ "advance" \in PCs /\ "count" \in PCs
      /\ "loop" \in PCs
  BY DEF BlockInv, SegmentInv, SegTypes, PCs, Iterating, Locals
<1>1. UNCHANGED <<freeptr, size, cookie, type, next>>
  BY DEF ReaderNext, GetNext, LoadLast, LoadNext, AdvanceLast, CountRecord, Reset, Allocate,
         segment
<1>2. \A r \in Refs : cookie[r] = "free" => type'[r] = "none" /\ next'[r] = Null
  BY <1>0, <1>1 DEF BlankInv
<1>3. \/ Return(t)
      \/ /\ \E place \in {"loadLast", "loadNext", "advance", "count", "loop"} : Goto(t, place)
         /\ \/ UNCHANGED loc
            \/ \E v : loc' = [loc EXCEPT ![t].old = v]
            \/ \E v : loc' = [loc EXCEPT ![t].new = v]
            \/ \E v : loc' = [loc EXCEPT ![t].size = v]
            \/ \E v : loc' = [loc EXCEPT ![t].size = v, ![t].old = freeptr]
      \/ UNCHANGED <<pc, loc>> /\ pc[t] = "idle"
  BY DEF ReaderNext, GetNext, LoadLast, LoadNext, AdvanceLast, CountRecord, Reset, Allocate, At
<1>4. /\ pc'[t] \notin {"waste", "header"}
      /\ \A u \in Threads \ {t} : pc'[u] = pc[u] /\ loc'[u] = loc[u]
  <2>1. CASE Return(t)
    BY <1>0, <2>1, Moves
  <2>2. CASE \E place \in {"loadLast", "loadNext", "advance", "count", "loop"} : Goto(t, place)
    <3>1. pc'[t] \notin {"waste", "header"} /\ \A u \in Threads \ {t} : pc'[u] = pc[u]
      BY <1>0, <2>2, Moves
    <3>2. \A u \in Threads \ {t} : loc'[u] = loc[u]
      BY <1>0, <1>3, Moves
    <3> QED
      BY <3>1, <3>2
  <2>3. CASE UNCHANGED <<pc, loc>> /\ pc[t] = "idle"
    BY <2>3
  <2> QED
    BY <1>3, <2>1, <2>2, <2>3
<1> QED
  BY <1>1, <1>2, <1>4, QuietBlockStep

LEMMA ProcessesKeepBlocks ==
    ASSUME BlockInv, SegmentInv', NEW p \in Processes,
           Construct(p) \/ StoreMetadata(p) \/ Die(p) \/ UNCHANGED vars
    PROVE  BlockInv'
<1>0. SegmentInv /\ BlankInv /\ next \in [Links -> Links \cup {Null}] /\ freeptr \in Nat
  BY Constants DEF BlockInv, SegmentInv, SegTypes
<1>1. UNCHANGED <<size, cookie, type>>
  BY DEF Construct, StoreMetadata, Die, segment, vars
<1>2. freeptr <= freeptr'
  <2>1. freeptr' = freeptr \/ (freeptr = 0 /\ freeptr' = MetaSize)
    BY DEF Construct, StoreMetadata, Die, segment, vars
  <2> QED
    BY <1>0, <2>1 DEF MetaSize
<1>3. \A r \in Refs : next'[r] = next[r]
  <2>1. UNCHANGED next \/ next' = [next EXCEPT ![Queue] = Queue]
    BY DEF Construct, StoreMetadata, Die, segment, vars
  <2> QED
    BY <1>0, <2>1, Constants DEF Links
<1>4. \A t \in Threads : pc'[t] \in {"waste", "header"} => pc'[t] = pc[t] /\ loc'[t] = loc[t]
  BY DEF Construct, StoreMetadata, Die, vars
<1> QED
  BY <1>0, <1>1, <1>2, <1>3, <1>4, QuietBlocks DEF BlankInv

LEMMA StepsKeepBlockInv == BlockInv /\ [Next]_vars => BlockInv'
<1> SUFFICES ASSUME BlockInv, [Next]_vars PROVE BlockInv'
  OBVIOUS
<1>1. SegmentInv'
  BY StepsKeepSegmentInv DEF BlockInv
<1>2. ASSUME NEW t \in Writers, WriterNext(t) PROVE BlockInv'
  <2>1. t \in Threads
    BY DEF Threads
  <2> QED
    BY <1>1, <1>2, <2>1, LoopKeepsBlocks, HeaderKeepsBlocks, PublishKeepsBlocks,
       RecycleKeepsBlocks, IterationKeepsBlocks DEF WriterNext
<1>3. ASSUME NEW t \in Readers, ReaderNext(t) PROVE BlockInv'
  BY <1>1, <1>3, IterationKeepsBlocks DEF Threads
<1>4. CASE UNCHANGED vars
  <2>1. BlankInv' /\ freeptr <= freeptr'
    BY <1>4, Constants DEF BlockInv, SegmentInv, SegTypes, BlankInv, vars, segment
  <2> QED
    BY <1>1, <1>4, <2>1, QuietBlocks DEF vars, segment, BlockInv, BlankInv
<1> QED
  BY <1>1, <1>2, <1>3, <1>4, ProcessesKeepBlocks DEF Next

-----------------------------------------------------------------------------
(* Who uses which block.                                                     *)

Publishing == {"publish"} \cup Linking

OwnerInv(t) ==
    /\ held[t] # Null => type[held[t]] \in {"object", "transitioning"}
    /\ pc[t] \in Publishing => held[t] = loc[t].ref
    /\ pc[t] = "finish" => held[t] \notin dirty
    /\ \A u \in Threads \ {t} : held[t] # Null => held[t] # held[u]

CleanInv == \A r \in Refs : type[r] = "free" => r \notin dirty

UseInv == BlockInv /\ CleanInv /\ \A t \in Threads : OwnerInv(t)

\* Steps that leave the blocks alone, or let go of some.
LEMMA QuietUse ==
    ASSUME UseInv, BlockInv', UNCHANGED <<type, dirty>>,
           \A u \in Threads :
               /\ held'[u] \in {held[u], Null}
               /\ pc'[u] = "finish" => pc[u] = "finish" /\ held'[u] = held[u]
               /\ pc'[u] \in Publishing => /\ pc[u] \in Publishing /\ held'[u] = held[u]
                                           /\ loc'[u].ref = loc[u].ref
    PROVE  UseInv'
<1>1. CleanInv'
  BY DEF UseInv, CleanInv
<1>2. ASSUME NEW t \in Threads PROVE OwnerInv(t)'
  <2>1. OwnerInv(t)
    BY DEF UseInv
  <2>2. held'[t] # Null => type'[held'[t]] \in {"object", "transitioning"}
    BY <2>1 DEF OwnerInv
  <2>3. pc'[t] \in Publishing => held'[t] = loc'[t].ref
    BY <2>1 DEF OwnerInv
  <2>4. pc'[t] = "finish" => held'[t] \notin dirty'
    BY <2>1 DEF OwnerInv
  <2>5. ASSUME NEW u \in Threads \ {t}, held'[t] # Null PROVE held'[t] # held'[u]
    BY <2>1, <2>5 DEF OwnerInv
  <2> QED
    BY <2>2, <2>3, <2>4, <2>5 DEF OwnerInv
<1> QED
  BY <1>1, <1>2 DEF UseInv

\* A thread comes to use a block that nobody uses.
LEMMA Takes ==
    ASSUME UseInv, BlockInv', NEW t \in Threads, NEW r \in Refs,
           type[r] \in {"none", "free"},
           type' = [type EXCEPT ![r] = "object"], dirty' = dirty \cup {r},
           held' = [held EXCEPT ![t] = r],
           \A u \in Threads \ {t} : pc'[u] = pc[u] /\ loc'[u] = loc[u],
           pc'[t] # "finish", pc'[t] \in Publishing => loc'[t].ref = r
    PROVE  UseInv'
<1>0. /\ type \in [Refs -> Types] /\ held \in [Threads -> Refs \cup {Null}]
  BY DEF UseInv, BlockInv, SegmentInv, SegTypes
<1>1. ASSUME NEW u \in Threads PROVE held[u] # r
  BY <1>0, Constants DEF UseInv, OwnerInv, Links
<1>2. CleanInv'
  BY <1>0 DEF UseInv, CleanInv
<1>3. ASSUME NEW u \in Threads PROVE OwnerInv(u)'
  <2>1. OwnerInv(u)
    BY DEF UseInv
  <2>2. held'[u] # Null => type'[held'[u]] \in {"object", "transitioning"}
    BY <1>0, <1>1, <2>1 DEF OwnerInv
  <2>3. pc'[u] \in Publishing => held'[u] = loc'[u].ref
    BY <1>0, <2>1 DEF OwnerInv
  <2>4. pc'[u] = "finish" => held'[u] \notin dirty'
    BY <1>0, <1>1, <2>1 DEF OwnerInv
  <2>5. ASSUME NEW v \in Threads \ {u}, held'[u] # Null PROVE held'[u] # held'[v]
    BY <1>0, <1>1, <2>1, <2>5 DEF OwnerInv
  <2> QED
    BY <2>2, <2>3, <2>4, <2>5 DEF OwnerInv
<1> QED
  BY <1>2, <1>3 DEF UseInv

\* A thread changes the block it uses, and lets go of it or keeps it.
LEMMA ChangesOwn ==
    ASSUME UseInv, BlockInv', NEW t \in Threads, held[t] \in Refs,
           NEW k \in Types, type' = [type EXCEPT ![held[t]] = k],
           dirty' \in {dirty, dirty \ {held[t]}},
           \A u \in Threads \ {t} : pc'[u] = pc[u] /\ loc'[u] = loc[u] /\ held'[u] = held[u],
           \/ held'[t] = Null
           \/ held'[t] = held[t] /\ k \in {"object", "transitioning"},
           pc'[t] \notin Publishing, pc'[t] = "finish" => dirty' = dirty \ {held[t]},
           k = "free" => held[t] \notin dirty,
           pc'[t] = "finish" => held'[t] = held[t]
    PROVE  UseInv'
<1>0. /\ type \in [Refs -> Types] /\ held \in [Threads -> Refs \cup {Null}]
  BY DEF UseInv, BlockInv, SegmentInv, SegTypes
<1>1. ASSUME NEW u \in Threads \ {t} PROVE held[u] # held[t]
  BY <1>0, Constants DEF UseInv, OwnerInv, Links
<1>2. CleanInv'
  BY <1>0 DEF UseInv, CleanInv
<1>3. ASSUME NEW u \in Threads PROVE OwnerInv(u)'
  <2>1. OwnerInv(u)
    BY DEF UseInv
  <2>2. held'[u] # Null => type'[held'[u]] \in {"object", "transitioning"}
    BY <1>0, <1>1, <2>1 DEF OwnerInv
  <2>3. pc'[u] \in Publishing => held'[u] = loc'[u].ref
    BY <1>0, <2>1 DEF OwnerInv
  <2>4. pc'[u] = "finish" => held'[u] \notin dirty'
    BY <1>0, <2>1 DEF OwnerInv
  <2>5. ASSUME NEW v \in Threads \ {u}, held'[u] # Null PROVE held'[u] # held'[v]
    <3>1. CASE u = t
      BY <1>0, <1>1, <2>1, <2>5, <3>1 DEF OwnerInv
    <3>2. CASE u # t
      BY <1>0, <1>1, <2>1, <2>5, <3>2 DEF OwnerInv
    <3> QED
      BY <3>1, <3>2
  <2> QED
    BY <2>2, <2>3, <2>4, <2>5 DEF OwnerInv
<1> QED
  BY <1>2, <1>3 DEF UseInv

LEMMA QuietUseStep ==
    ASSUME UseInv, BlockInv', NEW t \in Threads, UNCHANGED <<type, dirty, held>>,
           \A u \in Threads \ {t} : pc'[u] = pc[u] /\ loc'[u] = loc[u],
           pc'[t] # "finish",
           pc'[t] \in Publishing => pc[t] \in Publishing /\ loc'[t].ref = loc[t].ref
    PROVE  UseInv'
BY QuietUse

LEMMA AllocationKeepsUse ==
    ASSUME UseInv, BlockInv', NEW t \in Threads,
           Allocate(t) \/ AllocateLoop(t) \/ WasteRest(t) \/ FindFree(t) \/ ReaderNext(t)
    PROVE  UseInv'
<1>0. /\ SegmentInv /\ pc \in [Threads -> PCs] /\ loc \in [Threads -> Locals]
      /\ {"loop", "waste", "header", "exchange", "loadLast", "loadNext", "advance", "count"}
            \subseteq PCs
  BY DEF UseInv, BlockInv, SegmentInv, SegTypes, Locals, PCs, Iterating
<1>1. UNCHANGED <<type, dirty, held>>
  <2>1. CASE AllocateLoop(t)
    BY <2>1 DEF AllocateLoop
  <2>2. CASE ~AllocateLoop(t)
    BY <2>2 DEF ReaderNext, GetNext, LoadLast, LoadNext, AdvanceLast, CountRecord, Reset, Allocate,
                WasteRest, FindFree, segment
  <2> QED
    BY <2>1, <2>2
<1>2. \/ Return(t)
      \/ /\ \E place \in {"loop", "waste", "header", "exchange", "loadLast", "loadNext",
                          "advance", "count"} : Goto(t, place)
         /\ \/ UNCHANGED loc
            \/ \E l : loc' = [loc EXCEPT ![t] = l]
      \/ /\ UNCHANGED pc /\ pc[t] \in {"idle", "loop"}
         /\ \/ UNCHANGED loc
            \/ \E l : loc' = [loc EXCEPT ![t] = l]
  <2>1. CASE AllocateLoop(t)
    <3>1. CASE Return(t)
      BY <3>1
    <3>2. CASE UNCHANGED pc /\ \E n \in (Header + 1)..PageSize :
                                  loc' = [loc EXCEPT ![t].old = freeptr, ![t].size = n]
      <4>1. pc[t] = "loop"
        BY <2>1 DEF AllocateLoop, At
      <4> QED
        BY <3>2, <4>1
    <3>3. ASSUME NEW n, \/ Goto(t, "waste") /\ UNCHANGED loc
                        \/ Goto(t, "header") /\ loc' = [loc EXCEPT ![t].size = n]
          PROVE  /\ \E place \in {"loop", "waste", "header", "exchange", "loadLast",
                                  "loadNext", "advance", "count"} : Goto(t, place)
                 /\ \/ UNCHANGED loc
                    \/ \E l : loc' = [loc EXCEPT ![t] = l]
      BY <3>3
    <3> QED
      BY <1>0, <2>1, <3>1, <3>2, <3>3, LoopSteps
  <2>2. CASE ~AllocateLoop(t)
    <3>1. CASE Allocate(t)
      BY <3>1 DEF Allocate
    <3>2. CASE WasteRest(t)
      BY <3>2 DEF WasteRest
    <3>3. CASE FindFree(t)
      BY <3>3 DEF FindFree
    <3>4. CASE ReaderNext(t)
      BY <3>4 DEF ReaderNext, GetNext, LoadLast, LoadNext, AdvanceLast, CountRecord, Reset, At
    <3> QED
      BY <2>2, <3>1, <3>2, <3>3, <3>4
  <2> QED
    BY <2>1, <2>2
<1>3. /\ \A u \in Threads \ {t} : pc'[u] = pc[u] /\ loc'[u] = loc[u]
      /\ pc'[t] \notin Publishing \cup {"finish"}
  <2>1. CASE Return(t)
    BY <1>0, <2>1, Moves DEF Publishing, Linking
  <2>2. CASE UNCHANGED loc \/ \E l : loc' = [loc EXCEPT ![t] = l]
    <3>1. \A u \in Threads \ {t} : loc'[u] = loc[u]
      BY <1>0, <2>2, Moves
    <3>2. CASE \E place \in {"loop", "waste", "header", "exchange", "loadLast", "loadNext",
                             "advance", "count"} : Goto(t, place)
      BY <1>0, <3>1, <3>2, Moves DEF Publishing, Linking
    <3>3. CASE UNCHANGED pc /\ pc[t] \in {"idle", "loop"}
      BY <3>1, <3>3 DEF Publishing, Linking
    <3> QED
      BY <1>2, <2>1, <3>2, <3>3
  <2> QED
    BY <1>2, <2>1, <2>2
<1> QED
  BY <1>1, <1>3, QuietUseStep

LEMMA HeaderKeepsUse ==
    ASSUME UseInv, BlockInv', NEW t \in Threads, WriteHeader(t)
    PROVE  UseInv'
<1>0. /\ SegmentInv /\ BlockInv /\ pc \in [Threads -> PCs] /\ loc \in [Threads -> Locals]
      /\ pc[t] = "header" /\ Claiming(t) /\ "publish" \in PCs
  BY DEF UseInv, BlockInv, SegmentInv, SegTypes, Locals, WriteHeader, At, Claiming, PCs
<1>1. /\ loc[t].old \in Refs /\ cookie[loc[t].old] = "free" /\ size[loc[t].old] = 0
      /\ type[loc[t].old] = "none" /\ next[loc[t].old] = Null
  BY <1>0, ClaimedIsFree
<1>2. /\ type' = [type EXCEPT ![loc[t].old] = "object"] /\ dirty' = dirty \cup {loc[t].old}
      /\ held' = [held EXCEPT ![t] = loc[t].old] /\ Goto(t, "publish")
      /\ loc' = [loc EXCEPT ![t].ref = loc[t].old]
  BY <1>1 DEF WriteHeader
<1>3. /\ \A u \in Threads \ {t} : pc'[u] = pc[u] /\ loc'[u] = loc[u]
      /\ pc'[t] = "publish" /\ loc'[t].ref = loc[t].old
  BY <1>0, <1>2, Moves DEF Locals
<1> QED
  BY <1>1, <1>2, <1>3, Takes

LEMMA PublishKeepsUse ==
    ASSUME UseInv, BlockInv', NEW t \in Threads, MakeIterable(t) \/ Publish(t)
    PROVE  UseInv'
<1>0. /\ SegmentInv /\ pc \in [Threads -> PCs] /\ loc \in [Threads -> Locals]
      /\ {"loadTail", "link", "swing", "help"} \subseteq PCs
  BY DEF UseInv, BlockInv, SegmentInv, SegTypes, Locals, PCs
<1>1. /\ UNCHANGED <<type, dirty, held>> /\ pc[t] \in Publishing
  BY DEF MakeIterable, Publish, LoadTail, LinkAfterTail, SwingTail, HelpTail, segment, At,
         Publishing, Linking
<1>2. \/ Return(t)
      \/ /\ \E place \in {"loadTail", "link", "swing", "help"} : Goto(t, place)
         /\ \/ UNCHANGED loc
            \/ \E v : loc' = [loc EXCEPT ![t].old = v]
            \/ \E v : loc' = [loc EXCEPT ![t].new = v]
  BY DEF MakeIterable, Publish, LoadTail, LinkAfterTail, SwingTail, HelpTail
<1>3. CASE Return(t)
  <2>1. pc'[t] = "idle" /\ \A u \in Threads \ {t} : pc'[u] = pc[u] /\ loc'[u] = loc[u]
    BY <1>0, <1>3, Moves
  <2> QED
    BY <1>1, <2>1, QuietUseStep DEF Publishing, Linking
<1>4. CASE /\ \E place \in {"loadTail", "link", "swing", "help"} : Goto(t, place)
           /\ \/ UNCHANGED loc
              \/ \E v : loc' = [loc EXCEPT ![t].old = v]
              \/ \E v : loc' = [loc EXCEPT ![t].new = v]
  <2>1. pc'[t] # "finish" /\ \A u \in Threads \ {t} : pc'[u] = pc[u]
    BY <1>0, <1>4, Moves
  <2>2. loc'[t].ref = loc[t].ref /\ \A u \in Threads \ {t} : loc'[u] = loc[u]
    BY <1>0, <1>4 DEF Locals
  <2> QED
    BY <1>1, <2>1, <2>2, QuietUseStep
<1> QED
  BY <1>2, <1>3, <1>4

LEMMA RecycleKeepsUse ==
    ASSUME UseInv, BlockInv', NEW t \in Threads,
           Discard(t) \/ Release(t) \/ ClearMemory(t) \/ FinishRelease(t) \/ Reuse(t)
    PROVE  UseInv'
<1>0. /\ SegmentInv /\ OwnerInv(t) /\ PlaceInv(t) /\ pc \in [Threads -> PCs]
      /\ loc \in [Threads -> Locals] /\ held \in [Threads -> Refs \cup {Null}]
      /\ type \in [Refs -> Types] /\ "clear" \in PCs /\ "finish" \in PCs
      /\ {"none", "free", "object", "transitioning"} \subseteq Types
  BY DEF UseInv, BlockInv, SegmentInv, SegTypes, Locals, PCs, Types
<1>1. CASE Discard(t)
  <2>1. /\ pc[t] = "publish" /\ held[t] = loc[t].ref /\ held[t] \in Refs
        /\ type' = [type EXCEPT ![held[t]] = "none"] /\ dirty' = dirty
        /\ held' = [held EXCEPT ![t] = Null] /\ Return(t)
    BY <1>0, <1>1 DEF Discard, At, OwnerInv, PlaceInv, Publishing
  <2>2. /\ pc'[t] = "idle" /\ held'[t] = Null
        /\ \A u \in Threads \ {t} : pc'[u] = pc[u] /\ loc'[u] = loc[u] /\ held'[u] = held[u]
    BY <1>0, <2>1, Moves
  <2> QED
    BY <1>0, <2>1, <2>2, ChangesOwn DEF Publishing, Linking
<1>2. CASE Release(t)
  <2>1. /\ held[t] \in Refs /\ type' = [type EXCEPT ![held[t]] = "transitioning"]
        /\ dirty' = dirty /\ Goto(t, "clear") /\ UNCHANGED <<loc, held>>
    BY <1>0, <1>2 DEF Release
  <2>2. pc'[t] = "clear" /\ \A u \in Threads \ {t} : pc'[u] = pc[u]
    BY <1>0, <2>1, Moves
  <2> QED
    BY <1>0, <2>1, <2>2, ChangesOwn DEF Publishing, Linking
<1>3. CASE ClearMemory(t)
  <2>1. /\ held[t] \in Refs /\ type' = type /\ type[held[t]] \in {"object", "transitioning"}
        /\ dirty' = dirty \ {held[t]} /\ Goto(t, "finish") /\ UNCHANGED <<loc, held>>
    BY <1>0, <1>3, Constants DEF ClearMemory, At, PlaceInv, OwnerInv, Links
  <2>2. pc'[t] = "finish" /\ \A u \in Threads \ {t} : pc'[u] = pc[u]
    BY <1>0, <2>1, Moves
  <2>3. type' = [type EXCEPT ![held[t]] = type[held[t]]] /\ type[held[t]] \in Types
    BY <1>0, <2>1
  <2> QED
    BY <1>0, <2>1, <2>2, <2>3, ChangesOwn DEF Publishing, Linking
<1>4. CASE FinishRelease(t)
  <2>1. /\ held[t] \in Refs /\ held[t] \notin dirty /\ dirty' = dirty
        /\ held' = [held EXCEPT ![t] = Null] /\ Return(t)
    BY <1>0, <1>4, Constants DEF FinishRelease, At, PlaceInv, OwnerInv
  <2>2. PICK k \in Types : type' = [type EXCEPT ![held[t]] = k]
    BY <1>0, <1>4, <2>1 DEF FinishRelease
  <2>3. /\ pc'[t] = "idle" /\ held'[t] = Null
        /\ \A u \in Threads \ {t} : pc'[u] = pc[u] /\ loc'[u] = loc[u] /\ held'[u] = held[u]
    BY <1>0, <2>1, Moves
  <2> QED
    BY <1>0, <2>1, <2>2, <2>3, ChangesOwn DEF Publishing, Linking
<1>5. CASE Reuse(t)
  <2>1. loc[t].ref \in Refs /\ Return(t)
    BY <1>0, <1>5 DEF Reuse, At, PlaceInv
  <2>2. pc'[t] = "idle" /\ \A u \in Threads \ {t} : pc'[u] = pc[u] /\ loc'[u] = loc[u]
    BY <1>0, <2>1, Moves
  <2>3. CASE type[loc[t].ref] = "free"
    <3>1. /\ type' = [type EXCEPT ![loc[t].ref] = "object"]
          /\ dirty' = dirty \cup {loc[t].ref} /\ held' = [held EXCEPT ![t] = loc[t].ref]
      BY <1>5, <2>3 DEF Reuse
    <3> QED
      BY <2>1, <2>2, <2>3, <3>1, Takes DEF Publishing, Linking
  <2>4. CASE type[loc[t].ref] # "free"
    <3>1. UNCHANGED <<type, dirty, held>>
      BY <1>5, <2>4 DEF Reuse
    <3> QED
      BY <2>2, <3>1, QuietUseStep DEF Publishing, Linking
  <2> QED
    BY <2>3, <2>4
<1> QED
  BY <1>1, <1>2, <1>3, <1>4, <1>5

LEMMA StepsKeepUseInv == UseInv /\ [Next]_vars => UseInv'
<1> SUFFICES ASSUME UseInv, [Next]_vars PROVE UseInv'
  OBVIOUS
<1>1. BlockInv'
  BY StepsKeepBlockInv DEF UseInv
<1>2. ASSUME NEW t \in Writers, WriterNext(t) PROVE UseInv'
  <2>1. t \in Threads
    BY DEF Threads
  <2> QED
    BY <1>1, <1>2, <2>1, AllocationKeepsUse, HeaderKeepsUse, PublishKeepsUse, RecycleKeepsUse
       DEF WriterNext
<1>3. ASSUME NEW t \in Readers, ReaderNext(t) PROVE UseInv'
  BY <1>1, <1>3, AllocationKeepsUse DEF Threads
<1>4. CASE UNCHANGED vars
  BY <1>1, <1>4, QuietUse DEF vars, segment
<1>5. ASSUME NEW p \in Processes, Construct(p) \/ StoreMetadata(p) PROVE UseInv'
  <2>1. UNCHANGED <<type, dirty, pc, loc, held>>
    BY <1>5 DEF Construct, StoreMetadata
  <2> QED
    BY <1>1, <2>1, QuietUse
<1>6. ASSUME NEW p \in Processes, Die(p) PROVE UseInv'
  <2>1. /\ UNCHANGED <<type, dirty>>
        /\ \A u \in Threads :
              \/ pc'[u] = "idle" /\ held'[u] = Null
              \/ pc'[u] = pc[u] /\ loc'[u] = loc[u] /\ held'[u] = held[u]
    BY <1>6 DEF Die, segment
  <2>2. ASSUME NEW u \in Threads
        PROVE  /\ held'[u] \in {held[u], Null}
               /\ pc'[u] = "finish" => pc[u] = "finish" /\ held'[u] = held[u]
               /\ pc'[u] \in Publishing => /\ pc[u] \in Publishing /\ held'[u] = held[u]
                                           /\ loc'[u].ref = loc[u].ref
    BY <2>1 DEF Publishing, Linking
  <2> QED
    BY <1>1, <2>1, <2>2, QuietUse
<1> QED
  BY <1>1, <1>2, <1>3, <1>4, <1>5, <1>6 DEF Next

LEMMA InitiallyUsed == Init => UseInv
<1> SUFFICES ASSUME Init PROVE UseInv
  OBVIOUS
<1>1. SegmentInv
  BY Initially
<1>2. BlankInv /\ ExtentInv
  BY DEF Init, BlankInv, ExtentInv, Links
<1>3. ClaimInv
  BY DEF Init, ClaimInv, Claiming
<1>4. CleanInv /\ \A t \in Threads : OwnerInv(t)
  BY DEF Init, CleanInv, OwnerInv, Publishing, Linking
<1> QED
  BY <1>1, <1>2, <1>3, <1>4 DEF UseInv, BlockInv

LEMMA UseStays == Spec => []UseInv
BY InitiallyUsed, StepsKeepUseInv, PTL DEF Spec

\* Blocks that were given out never overlap, each lies within one page and
\* below freeptr, however many threads race for them and whoever dies before
\* its header is written (persistent_memory_allocator.cpp:681).
THEOREM BlocksStayIntact == Spec => []BlocksIntact
<1>1. UseInv => BlocksIntact
  <2> SUFFICES ASSUME UseInv, NEW r \in Refs, cookie[r] # "free"
               PROVE  /\ r + size[r] <= freeptr
                      /\ r \div PageSize = (r + size[r] - 1) \div PageSize
                      /\ \A s \in Refs : s # r /\ cookie[s] # "free"
                            => s + size[s] <= r \/ r + size[r] <= s
    BY DEF BlocksIntact
  <2>1. /\ Room(r, size[r])
        /\ \A s \in Refs \ {r} : cookie[s] # "free" => Apart(r, size[r], s, size[s])
    BY DEF UseInv, BlockInv, ExtentInv
  <2>2. r \in Nat /\ size[r] \in Nat
    BY Constants DEF UseInv, BlockInv, SegmentInv, SegTypes
  <2>3. PICK n : n = size[r]
    OBVIOUS
  <2>4. n \in Nat \ {0} /\ n <= PageFree(r)
    BY <2>1, <2>2, <2>3, PageRoom DEF Room
  <2>5. r \div PageSize = (r + n - 1) \div PageSize
    BY <2>2, <2>4, TakenFromPage
  <2> QED
    BY <2>1, <2>3, <2>5 DEF Room, Apart
<1> QED
  BY <1>1, UseStays, PTL

\* A block is used by one thread at a time, and a block that is free for reuse
\* has been cleared, whoever exchanges its type and dies while it clears it
\* (persistent_memory_allocator.cpp:565).
THEOREM UsedOnceAndClean == Spec => []HeldOnceAndClean
<1>1. UseInv => HeldOnceAndClean
  BY DEF UseInv, CleanInv, OwnerInv, HeldOnceAndClean, Threads
<1> QED
  BY <1>1, UseStays, PTL

-----------------------------------------------------------------------------
(* The chain of links.                                                       *)

\* A step of a thread leaves the others where they are.
LEMMA OnlyOneMoves ==
    ASSUME SegmentInv, NEW t \in Threads, WriterNext(t) \/ ReaderNext(t)
    PROVE  \A u \in Threads \ {t} : pc'[u] = pc[u] /\ loc'[u] = loc[u]
<1>0. pc \in [Threads -> PCs] /\ loc \in [Threads -> Locals]
  BY DEF SegmentInv, SegTypes, Locals
<1>1. \/ UNCHANGED pc
      \/ \E v : pc' = [pc EXCEPT ![t] = v]
  <2>1. CASE AllocateLoop(t)
    BY <2>1, LoopSteps DEF Return, Goto
  <2>2. CASE WriterNext(t) /\ ~AllocateLoop(t)
    BY <2>2 DEF WriterNext, Allocate, WasteRest, WriteHeader, MakeIterable, Publish, LoadTail,
         LinkAfterTail, SwingTail, HelpTail, Discard, Release, ClearMemory, FinishRelease,
         FindFree, Reuse, Return, Goto
  <2>3. CASE ReaderNext(t)
    BY <2>3 DEF ReaderNext, GetNext, LoadLast, LoadNext, AdvanceLast, CountRecord, Reset,
         Return, Goto
  <2> QED
    BY <2>1, <2>2, <2>3
<1>2. CASE AllocateLoop(t)
  <2>1. \A u \in Threads \ {t} : loc'[u] = loc[u]
    <3>1. ASSUME NEW n, \/ loc' = [loc EXCEPT ![t].old = freeptr, ![t].size = n]
                        \/ loc' = [loc EXCEPT ![t].size = n]
          PROVE  \A u \in Threads \ {t} : loc'[u] = loc[u]
      BY <1>0, <3>1
    <3>2. CASE Return(t) \/ UNCHANGED loc
      BY <1>0, <3>2 DEF Return
    <3> QED
      BY <1>2, <3>1, <3>2, LoopSteps
  <2> QED
    BY <1>0, <1>1, <2>1
<1>3. CASE ~AllocateLoop(t)
  <2>1. UNCHANGED loc \/ \E v : loc' = [loc EXCEPT ![t] = v]
    <3>1. CASE WriterNext(t)
      BY <1>3, <3>1 DEF WriterNext, Allocate, WasteRest, WriteHeader, MakeIterable, Publish,
         LoadTail, LinkAfterTail, SwingTail, HelpTail, Discard, Release, ClearMemory,
         FinishRelease, FindFree, Reuse, Return
    <3>2. CASE ReaderNext(t)
      BY <3>2 DEF ReaderNext, GetNext, LoadLast, LoadNext, AdvanceLast, CountRecord, Reset, Return
    <3> QED
      BY <3>1, <3>2
  <2> QED
    BY <1>0, <1>1, <2>1
<1> QED
  BY <1>2, <1>3

\* A step of a process stops its threads or leaves all where they are.
LEMMA ProcessesMove ==
    ASSUME NEW p \in Processes, Construct(p) \/ StoreMetadata(p) \/ Die(p), NEW u \in Threads
    PROVE  pc'[u] = "idle" \/ (pc'[u] = pc[u] /\ loc'[u] = loc[u])
BY DEF Construct, StoreMetadata, Die

Unlinked == {"loadTail", "link", "help"}

\* What a thread does between marking its block and linking it.
LEMMA UnlinkedSteps ==
    ASSUME SegmentInv, NEW t \in Threads, WriterNext(t) \/ ReaderNext(t), pc'[t] \in Unlinked
    PROVE  \/ /\ MakeIterable(t) /\ next[loc[t].ref] = Null /\ ValidBlock(loc[t].ref)
              /\ next' = [next EXCEPT ![loc[t].ref] = Queue] /\ UNCHANGED loc
           \/ /\ pc[t] \in Unlinked /\ loc'[t].ref = loc[t].ref /\ UNCHANGED next
<1>0. /\ pc \in [Threads -> PCs] /\ loc \in [Threads -> Locals]
  BY DEF SegmentInv, SegTypes, Locals
<1>1. CASE AllocateLoop(t)
  BY <1>0, <1>1, LoopSteps DEF Return, Goto, Unlinked
<1>2. CASE /\ WriterNext(t) /\ ~AllocateLoop(t) /\ ~MakeIterable(t)
           /\ ~Publish(t)
  BY <1>0, <1>2 DEF WriterNext, Allocate, WasteRest, WriteHeader, Discard, Release, ClearMemory,
         FinishRelease, FindFree, Reuse, Return, Goto, Unlinked
<1>3. CASE MakeIterable(t)
  BY <1>0, <1>3 DEF MakeIterable, Return, Goto, Unlinked
<1>4. CASE LoadTail(t)
  BY <1>0, <1>4 DEF LoadTail, At, Unlinked, segment, Locals
<1>5. CASE LinkAfterTail(t)
  BY <1>0, <1>5 DEF LinkAfterTail, At, Unlinked, Goto, Return, Locals
<1>6. CASE SwingTail(t)
  BY <1>0, <1>6 DEF SwingTail, Unlinked, Goto, Return
<1>7. CASE HelpTail(t)
  <2>1. loc'[t].ref = loc[t].ref
    BY <1>0, <1>7 DEF HelpTail, Locals
  <2> QED
    BY <1>7, <2>1 DEF HelpTail, At, Unlinked
<1>8. CASE ReaderNext(t)
  BY <1>0, <1>8 DEF ReaderNext, GetNext, LoadLast, LoadNext, AdvanceLast, CountRecord, Reset,
         Return, Goto, At, Unlinked
<1> QED
  BY <1>1, <1>2, <1>3, <1>4, <1>5, <1>6, <1>7, <1>8 DEF Publish

\* What happens to the links.
LEMMA LinkSteps ==
    ASSUME SegmentInv, [Next]_vars
    PROVE  \/ UNCHANGED next
           \/ next[Queue] = Null /\ next' = [next EXCEPT ![Queue] = Queue]
           \/ \E t \in Threads :
                 /\ pc[t] = "publish" /\ next[loc[t].ref] = Null /\ ValidBlock(loc[t].ref)
                 /\ next' = [next EXCEPT ![loc[t].ref] = Queue]
           \/ \E t \in Threads :
                 /\ pc[t] = "link" /\ pc'[t] = "swing" /\ next[loc[t].old] = Queue
                 /\ next' = [next EXCEPT ![loc[t].old] = loc[t].ref]
<1>1. ASSUME NEW t \in Writers, WriterNext(t), ~MakeIterable(t), ~LinkAfterTail(t)
      PROVE  UNCHANGED next
  BY <1>1 DEF WriterNext, Publish, Allocate, AllocateLoop, WasteRest, WriteHeader, LoadTail,
              SwingTail, HelpTail, Discard, Release, ClearMemory, FinishRelease, FindFree, Reuse,
              segment
<1>2. ASSUME NEW t \in Threads, MakeIterable(t)
      PROVE  \/ UNCHANGED next
             \/ /\ pc[t] = "publish" /\ next[loc[t].ref] = Null /\ ValidBlock(loc[t].ref)
                /\ next' = [next EXCEPT ![loc[t].ref] = Queue]
  BY <1>2 DEF MakeIterable, At
<1>3. ASSUME NEW t \in Threads, LinkAfterTail(t)
      PROVE  \/ UNCHANGED next
             \/ /\ pc[t] = "link" /\ pc'[t] = "swing" /\ next[loc[t].old] = Queue
                /\ next' = [next EXCEPT ![loc[t].old] = loc[t].ref]
  BY <1>3 DEF LinkAfterTail, At, Goto, SegmentInv, SegTypes
<1>4. ASSUME NEW t \in Readers, ReaderNext(t)
      PROVE  UNCHANGED next
  BY <1>4 DEF ReaderNext, GetNext, LoadLast, LoadNext, AdvanceLast, CountRecord, Reset, segment
<1>5. ASSUME NEW p \in Processes, Construct(p) \/ StoreMetadata(p) \/ Die(p)
      PROVE  \/ UNCHANGED next
             \/ next[Queue] = Null /\ next' = [next EXCEPT ![Queue] = Queue]
  BY <1>5 DEF Construct, StoreMetadata, Die, segment
<1>6. CASE UNCHANGED vars
  BY <1>6 DEF vars, segment
<1> QED
  BY <1>1, <1>2, <1>3, <1>4, <1>5, <1>6 DEF Next, Threads

LEMMA UnlinkedBefore ==
    ASSUME SegmentInv, [Next]_vars, NEW u \in Threads, pc'[u] \in Unlinked
    PROVE  /\ loc'[u].ref = loc[u].ref
           /\ \/ pc[u] \in Unlinked
              \/ /\ pc[u] = "publish" /\ next[loc[u].ref] = Null
                 /\ next' = [next EXCEPT ![loc[u].ref] = Queue]
<1>1. ASSUME NEW t \in Threads, WriterNext(t) \/ ReaderNext(t)
      PROVE  /\ loc'[u].ref = loc[u].ref
             /\ \/ pc[u] \in Unlinked
                \/ /\ pc[u] = "publish" /\ next[loc[u].ref] = Null
                   /\ next' = [next EXCEPT ![loc[u].ref] = Queue]
  <2>1. CASE u = t
    BY <1>1, <2>1, UnlinkedSteps DEF MakeIterable, At
  <2>2. CASE u # t
    BY <1>1, <2>2, OnlyOneMoves
  <2> QED
    BY <2>1, <2>2
<1>2. ASSUME NEW p \in Processes, Construct(p) \/ StoreMetadata(p) \/ Die(p)
      PROVE  loc'[u].ref = loc[u].ref /\ pc[u] \in Unlinked
  BY <1>2, ProcessesMove DEF Unlinked
<1>3. CASE UNCHANGED vars
  BY <1>3 DEF vars
<1> QED
  BY <1>1, <1>2, <1>3 DEF Next, Threads

\* A block stays a block.
LEMMA BlocksStay ==
    ASSUME UseInv, [Next]_vars, NEW r \in Refs, cookie[r] = "allocated"
    PROVE  cookie'[r] = "allocated"
<1>0. cookie \in [Refs -> {"free", "wasted", "allocated"}] /\ BlockInv
  BY DEF UseInv, BlockInv, SegmentInv, SegTypes
<1>1. ASSUME NEW t \in Threads, WasteRest(t) \/ WriteHeader(t)
      PROVE  cookie'[r] = "allocated"
  <2>1. Claiming(t)
    BY <1>1 DEF WasteRest, WriteHeader, At, Claiming
  <2>2. loc[t].old # r
    BY <1>0, <2>1, ClaimedIsFree
  <2>3. \/ UNCHANGED cookie
        \/ \E k : cookie' = [cookie EXCEPT ![loc[t].old] = k]
    BY <1>1 DEF WasteRest, WriteHeader
  <2> QED
    BY <1>0, <2>2, <2>3
<1>2. ASSUME NEW t \in Threads, WriterNext(t), ~WasteRest(t), ~WriteHeader(t)
      PROVE  UNCHANGED cookie
  BY <1>2 DEF WriterNext, Publish, Allocate, AllocateLoop, MakeIterable, LoadTail, LinkAfterTail,
              SwingTail, HelpTail, Discard, Release, ClearMemory, FinishRelease, FindFree, Reuse,
              segment
<1>3. ASSUME NEW t \in Threads, ReaderNext(t)
      PROVE  UNCHANGED cookie
  BY <1>3 DEF ReaderNext, GetNext, LoadLast, LoadNext, AdvanceLast, CountRecord, Reset, segment
<1>4. ASSUME NEW p \in Processes, Construct(p) \/ StoreMetadata(p) \/ Die(p)
      PROVE  UNCHANGED cookie
  BY <1>4 DEF Construct, StoreMetadata, Die, segment
<1>5. CASE UNCHANGED vars
  BY <1>5 DEF vars, segment
<1> QED
  BY <1>1, <1>2, <1>3, <1>4, <1>5 DEF Next, Threads

\* A link is never changed, and a marked block stays marked.
LEMMA LinksStay ==
    ASSUME SegmentInv, [Next]_vars, NEW r \in Links
    PROVE  /\ next[r] \in Refs => next'[r] = next[r]
           /\ next[r] # Null => next'[r] # Null
           /\ \/ next'[r] \in {next[r], Queue}
              \/ \E t \in Threads : /\ pc[t] = "link" /\ pc'[t] = "swing" /\ next[r] = Queue
                                    /\ next'[r] = loc[t].ref /\ loc[t].ref \in Refs
                                    /\ r = loc[t].old /\ next' = [next EXCEPT ![r] = loc[t].ref]
<1>0. /\ next \in [Links -> Links \cup {Null}] /\ Queue \notin Refs /\ Null \notin Refs
      /\ Queue # Null
  BY Constants DEF SegmentInv, SegTypes, Links
<1>1. CASE UNCHANGED next
  BY <1>1
<1>2. CASE next[Queue] = Null /\ next' = [next EXCEPT ![Queue] = Queue]
  BY <1>0, <1>2
<1>3. ASSUME NEW t \in Threads, next[loc[t].ref] = Null,
             next' = [next EXCEPT ![loc[t].ref] = Queue]
      PROVE  /\ next[r] \in Refs => next'[r] = next[r]
             /\ next[r] # Null => next'[r] # Null
             /\ next'[r] \in {next[r], Queue}
  BY <1>0, <1>3
<1>4. ASSUME NEW t \in Threads, pc[t] = "link", pc'[t] = "swing", next[loc[t].old] = Queue,
             next' = [next EXCEPT ![loc[t].old] = loc[t].ref]
      PROVE  /\ next[r] \in Refs => next'[r] = next[r]
             /\ next[r] # Null => next'[r] # Null
             /\ \/ next'[r] = next[r]
                \/ /\ next[r] = Queue /\ next'[r] = loc[t].ref /\ loc[t].ref \in Refs
                   /\ r = loc[t].old
  <2>1. loc[t].ref \in Refs /\ loc[t].old \in Links
    BY <1>4 DEF SegmentInv, PlaceInv, Linking
  <2> QED
    BY <1>0, <1>4, <2>1
<1> QED
  BY <1>1, <1>2, <1>3, <1>4, LinkSteps

ChainInv ==
    /\ \A r \in Refs : next[r] # Null => cookie[r] = "allocated"
    /\ \A r, s \in Links : next[r] = next[s] /\ next[r] \in Refs => r = s
    /\ \A t \in Threads : pc[t] \in Unlinked => \A r \in Links : next[r] # loc[t].ref

LEMMA StepsKeepChainInv ==
    ASSUME UseInv, ChainInv, [Next]_vars
    PROVE  ChainInv'
<1>0. /\ SegmentInv /\ BlockInv /\ next \in [Links -> Links \cup {Null}]
      /\ Queue \notin Refs /\ Null \notin Refs /\ Refs \subseteq Links /\ Queue # Null
  BY Constants DEF UseInv, BlockInv, SegmentInv, SegTypes, Links
<1>1. ASSUME NEW r \in Refs, next'[r] # Null
      PROVE  cookie'[r] = "allocated"
  <2>1. CASE next[r] # Null
    BY <2>1, BlocksStay DEF ChainInv
  <2>2. CASE next[r] = Null
    <3>1. r # Queue
      BY <1>0
    <3>2. ~ \E t \in Threads : /\ pc[t] = "link" /\ pc'[t] = "swing" /\ next[loc[t].old] = Queue
                               /\ next' = [next EXCEPT ![loc[t].old] = loc[t].ref]
      <4>1. SUFFICES ASSUME NEW t \in Threads, next[loc[t].old] = Queue,
                            next' = [next EXCEPT ![loc[t].old] = loc[t].ref]
                     PROVE  FALSE
        OBVIOUS
      <4>2. loc[t].old # r
        BY <1>0, <2>2, <4>1
      <4> QED
        BY <1>0, <1>1, <2>2, <4>1, <4>2
    <3>3. \E t \in Threads : /\ ValidBlock(loc[t].ref) /\ r = loc[t].ref
      BY <1>0, <1>1, <2>2, <3>1, <3>2, LinkSteps
    <3> QED
      BY <3>3, BlocksStay DEF ValidBlock
  <2> QED
    BY <2>1, <2>2
<1>2. ASSUME NEW t \in Threads, pc[t] = "link"
      PROVE  \A r \in Links : next[r] # loc[t].ref
  BY <1>2 DEF ChainInv, Unlinked
<1>3. ASSUME NEW r \in Links, NEW s \in Links, next'[r] = next'[s], next'[r] \in Refs
      PROVE  r = s
  <2>1. CASE \E t \in Threads : /\ pc[t] = "link" /\ next' = [next EXCEPT ![r] = loc[t].ref]
                                /\ next'[r] = loc[t].ref
    BY <1>0, <1>2, <1>3, <2>1
  <2>2. CASE \E t \in Threads : /\ pc[t] = "link" /\ next' = [next EXCEPT ![s] = loc[t].ref]
                                /\ next'[s] = loc[t].ref
    BY <1>0, <1>2, <1>3, <2>2
  <2>3. CASE next'[r] \in {next[r], Queue} /\ next'[s] \in {next[s], Queue}
    BY <1>0, <1>3, <2>3 DEF ChainInv
  <2> QED
    BY <1>0, <2>1, <2>2, <2>3, LinksStay
<1>4. ASSUME NEW u \in Threads, pc'[u] \in Unlinked, NEW r \in Links
      PROVE  next'[r] # loc'[u].ref
  <2>1. /\ loc'[u].ref = loc[u].ref /\ loc[u].ref \in Refs /\ held[u] = loc[u].ref
        /\ pc[u] \in Publishing
    <3>1. loc'[u].ref = loc[u].ref /\ pc[u] \in Publishing
      BY <1>0, <1>4, UnlinkedBefore DEF Unlinked, Publishing, Linking
    <3> QED
      BY <1>0, <3>1 DEF UseInv, OwnerInv, SegmentInv, PlaceInv, Publishing, Linking
  <2>2. CASE pc[u] \in Unlinked
    <3>1. next[r] # loc[u].ref
      BY <2>2 DEF ChainInv
    <3>2. ASSUME NEW t \in Threads, pc[t] = "link", pc'[t] = "swing", next'[r] = loc[t].ref
          PROVE  next'[r] # loc[u].ref
      <4>1. t # u
        BY <1>4, <3>2 DEF Unlinked
      <4>2. held[t] = loc[t].ref
        BY <3>2 DEF UseInv, OwnerInv, Publishing, Linking
      <4> QED
        BY <1>0, <2>1, <3>2, <4>1, <4>2 DEF UseInv, OwnerInv
    <3> QED
      BY <1>0, <2>1, <3>1, <3>2, LinksStay
  <2>3. CASE /\ next[loc[u].ref] = Null
             /\ next' = [next EXCEPT ![loc[u].ref] = Queue]
    <3>1. next[r] # loc[u].ref
      BY <1>0, <2>1, <2>3 DEF SegmentInv, MarkInv
    <3> QED
      BY <1>0, <2>1, <2>3, <3>1
  <2> QED
    BY <1>0, <1>4, <2>2, <2>3, UnlinkedBefore
<1> QED
  BY <1>1, <1>3, <1>4 DEF ChainInv

-----------------------------------------------------------------------------
(* Iterators follow the chain, and count no more than they deliver.          *)

Counting(p) == {t \in Readers : ProcessOf[t] = p /\ pc[t] = "count"}

\* The block before the i-th that the iterator of p has delivered.
Before(p, i) == IF i = 1 THEN Queue ELSE delivered[p][i - 1]

IterInv(p) ==
    /\ last[p] = Before(p, Len(delivered[p]) + 1)
    /\ \A i \in 1..Len(delivered[p]) : delivered[p][i] = next[Before(p, i)]
    /\ \A i, j \in 1..Len(delivered[p]) : delivered[p][i] = delivered[p][j] => i = j
    /\ count[p] + Cardinality(Counting(p)) <= Len(delivered[p])

ReadInv(t) ==
    /\ pc[t] \in Iterating => t \in Readers /\ loc[t].size <= count[ProcessOf[t]]
    /\ pc[t] \in {"loadNext", "advance"} /\ loc[t].old \in Refs => next[loc[t].old] # Null
    /\ pc[t] = "advance" => next[loc[t].old] = loc[t].new

ReadersInv ==
    /\ UseInv /\ ChainInv
    /\ \A p \in Processes : IterInv(p)
    /\ \A t \in Threads : ReadInv(t)

LEMMA CountingIsFinite ==
    /\ \A p : IsFiniteSet(Counting(p)) /\ Cardinality(Counting(p)) \in Nat
    /\ \A p : IsFiniteSet(Counting(p)') /\ Cardinality(Counting(p)') \in Nat
<1>1. ASSUME NEW p
      PROVE  /\ IsFiniteSet(Counting(p)) /\ Cardinality(Counting(p)) \in Nat
             /\ IsFiniteSet(Counting(p)') /\ Cardinality(Counting(p)') \in Nat
  <2>1. Counting(p) \in SUBSET Readers /\ Counting(p)' \in SUBSET Readers
    BY DEF Counting
  <2>2. IsFiniteSet(Readers)
    BY ThreadsAssumption
  <2>3. IsFiniteSet(Counting(p)) /\ IsFiniteSet(Counting(p)')
    BY <2>1, <2>2, FS_Subset
  <2> QED
    BY <2>3, FS_CardinalityType
<1> QED
  BY <1>1

\* The links, the iterators and the types of both.
LEMMA IterTypes ==
    ASSUME SegmentInv, NEW p \in Processes
    PROVE  /\ next \in [Links -> Links \cup {Null}] /\ Queue \in Links /\ Queue \notin Refs
           /\ Refs \subseteq Links /\ Null \notin Refs /\ Queue # Null
           /\ delivered[p] \in Seq(Refs) /\ Len(delivered[p]) \in Nat
           /\ \A i \in 1..Len(delivered[p]) : delivered[p][i] \in Refs /\ Before(p, i) \in Links
           /\ count[p] \in Nat /\ last[p] \in Links
<1>1. /\ delivered[p] \in Seq(Refs) /\ next \in [Links -> Links \cup {Null}]
      /\ count[p] \in Nat /\ last[p] \in Links
      /\ Queue \in Links /\ Queue \notin Refs
      /\ Refs \subseteq Links /\ Null \notin Refs /\ Queue # Null
  BY Constants DEF SegmentInv, SegTypes, Links
<1>2. ASSUME NEW i \in 1..Len(delivered[p])
      PROVE  delivered[p][i] \in Refs /\ Before(p, i) \in Links
  <2>1. delivered[p][i] \in Refs
    BY <1>1
  <2>2. CASE i = 1
    BY <1>1, <2>1, <2>2 DEF Before
  <2>3. CASE i # 1
    <3>1. i - 1 \in 1..Len(delivered[p])
      BY <1>1, <2>3
    <3>2. delivered[p][i - 1] \in Refs
      BY <1>1, <3>1
    <3> QED
      BY <1>1, <2>1, <2>3, <3>2 DEF Before
  <2> QED
    BY <2>2, <2>3
<1> QED
  BY <1>1, <1>2

\* An iterator that does not move.
LEMMA IteratorStays ==
    ASSUME ReadersInv, [Next]_vars, NEW p \in Processes,
           delivered'[p] = delivered[p], last'[p] = last[p],
           count'[p] + Cardinality(Counting(p)') <= Len(delivered[p])
    PROVE  IterInv(p)'
<1>0. SegmentInv /\ IterInv(p)
  BY DEF ReadersInv, UseInv, BlockInv
<1>1. \A i : Before(p, i)' = Before(p, i)
  BY DEF Before
<1>2. ASSUME NEW i \in 1..Len(delivered[p])
      PROVE  delivered[p][i] = next'[Before(p, i)]
  <2>1. /\ delivered[p][i] = next[Before(p, i)] /\ delivered[p][i] \in Refs
        /\ Before(p, i) \in Links
    BY <1>0, IterTypes DEF IterInv
  <2> QED
    BY <1>0, <2>1, LinksStay
<1>3. last'[p] = Before(p, Len(delivered[p]) + 1)
  BY <1>0 DEF IterInv
<1> QED
  BY <1>0, <1>1, <1>2, <1>3 DEF IterInv

LEMMA FewerCount ==
    ASSUME ReadersInv, NEW p \in Processes, Counting(p)' \subseteq Counting(p), count'[p] = count[p]
    PROVE  count'[p] + Cardinality(Counting(p)') <= Len(delivered[p])
<1>1. Cardinality(Counting(p)') <= Cardinality(Counting(p))
  <2>1. IsFiniteSet(Counting(p)) /\ Counting(p)' \in SUBSET Counting(p)
    BY CountingIsFinite
  <2> QED
    BY <2>1, FS_Subset
<1>2. /\ count[p] + Cardinality(Counting(p)) <= Len(delivered[p]) /\ SegmentInv
  BY DEF ReadersInv, IterInv, UseInv, BlockInv
<1>3. count[p] \in Nat /\ Len(delivered[p]) \in Nat
  BY <1>2, IterTypes
<1>4. Cardinality(Counting(p)) \in Nat /\ Cardinality(Counting(p)') \in Nat
  BY CountingIsFinite
<1> QED
  BY <1>1, <1>2, <1>3, <1>4

\* A fresh iterator.
LEMMA IteratorStarts ==
    ASSUME ReadersInv, NEW p \in Processes, FreshIterator(p), Counting(p)' = {}
    PROVE  /\ IterInv(p)'
           /\ \A q \in Processes \ {p} : /\ delivered'[q] = delivered[q] /\ last'[q] = last[q]
                                         /\ count'[q] = count[q]
<1>0. /\ last \in [Processes -> Links] /\ count \in [Processes -> Nat]
      /\ delivered \in [Processes -> Seq(Refs)]
  BY DEF ReadersInv, UseInv, BlockInv, SegmentInv, SegTypes
<1>1. delivered'[p] = <<>> /\ last'[p] = Queue /\ count'[p] = 0
  BY <1>0 DEF FreshIterator
<1>2. Cardinality(Counting(p)') = 0
  <2>1. PICK S : S = Counting(p)'
    OBVIOUS
  <2>2. Cardinality(S) = 0
    BY <2>1, FS_EmptySet
  <2> QED
    BY <2>1, <2>2
<1>3. IterInv(p)'
  <2>1. Len(delivered'[p]) = 0
    BY <1>1
  <2>2. Before(p, 1)' = Queue
    BY DEF Before
  <2> QED
    BY <1>1, <1>2, <2>1, <2>2 DEF IterInv
<1> QED
  BY <1>0, <1>3 DEF FreshIterator

LEMMA ReaderStays ==
    ASSUME ReadersInv, [Next]_vars, NEW u \in Threads, pc'[u] = pc[u], loc'[u] = loc[u],
           pc[u] \in Iterating => count[ProcessOf[u]] <= count'[ProcessOf[u]],
           count' \in [Processes -> Nat]
    PROVE  ReadInv(u)'
<1>0. /\ SegmentInv /\ ReadInv(u) /\ PlaceInv(u) /\ ProcessOf[u] \in Processes
      /\ loc \in [Threads -> Locals] /\ count \in [Processes -> Nat]
      /\ Refs \subseteq Links
  BY Constants DEF ReadersInv, UseInv, BlockInv, SegmentInv, SegTypes, Locals, Links
<1>1. pc'[u] \in Iterating => u \in Readers /\ loc'[u].size <= count'[ProcessOf[u]]
  <2>1. loc[u].size \in Nat /\ count[ProcessOf[u]] \in Nat /\ count'[ProcessOf[u]] \in Nat
    BY <1>0 DEF Locals
  <2> QED
    BY <1>0, <2>1 DEF ReadInv
<1>2. pc'[u] \in {"loadNext", "advance"} /\ loc'[u].old \in Refs => next'[loc'[u].old] # Null
  BY <1>0, LinksStay DEF ReadInv
<1>3. pc'[u] = "advance" => next'[loc'[u].old] = loc'[u].new
  BY <1>0, LinksStay DEF ReadInv, PlaceInv
<1> QED
  BY <1>1, <1>2, <1>3 DEF ReadInv

LEMMA WritersDoNotRead ==
    ASSUME SegmentInv, NEW t \in Writers, WriterNext(t)
    PROVE  UNCHANGED iterators /\ pc'[t] \notin Iterating
<1>0. pc \in [Threads -> PCs] /\ t \in Threads
  BY DEF SegmentInv, SegTypes, Threads
<1>1. CASE AllocateLoop(t)
  <2>1. UNCHANGED iterators /\ pc[t] = "loop"
    BY <1>1 DEF AllocateLoop, At
  <2>2. pc' = pc \/ \E v \in {"idle", "waste", "header"} : pc' = [pc EXCEPT ![t] = v]
    BY <1>0, <1>1, LoopSteps DEF Return, Goto
  <2> QED
    BY <1>0, <2>1, <2>2 DEF Iterating
<1>2. CASE ~AllocateLoop(t)
  BY <1>0, <1>2 DEF WriterNext, Publish, Allocate, WasteRest, WriteHeader, MakeIterable, LoadTail,
     LinkAfterTail, SwingTail, HelpTail, Discard, Release, ClearMemory, FinishRelease, FindFree,
     Reuse, iterators, Return, Goto, Iterating
<1> QED
  BY <1>1, <1>2

\* A step of a thread that moves no iterator and is not about to count.
LEMMA QuietIterators ==
    ASSUME ReadersInv, [Next]_vars, NEW t \in Threads, UNCHANGED iterators, pc'[t] # "count",
           \A u \in Threads \ {t} : pc'[u] = pc[u] /\ loc'[u] = loc[u]
    PROVE  /\ \A p \in Processes : IterInv(p)'
           /\ \A u \in Threads \ {t} : ReadInv(u)'
<1>1. ASSUME NEW p \in Processes PROVE IterInv(p)'
  <2>1. Counting(p)' \subseteq Counting(p)
    BY DEF Counting, Threads
  <2> QED
    BY <2>1, FewerCount, IteratorStays DEF iterators
<1>2. ASSUME NEW u \in Threads \ {t} PROVE ReadInv(u)'
  <2>1. count' = count /\ count \in [Processes -> Nat] /\ ProcessOf[u] \in Processes
    BY Constants DEF ReadersInv, UseInv, BlockInv, SegmentInv, SegTypes, iterators
  <2>2. count[ProcessOf[u]] \in Nat
    BY <2>1
  <2> QED
    BY <2>1, <2>2, ReaderStays
<1> QED
  BY <1>1, <1>2

LEMMA WritersKeepReaders ==
    ASSUME ReadersInv, UseInv', ChainInv', NEW t \in Writers, WriterNext(t)
    PROVE  ReadersInv'
<1>1. /\ SegmentInv /\ t \in Threads /\ [Next]_vars
  BY DEF ReadersInv, UseInv, BlockInv, Threads, Next
<1>2. UNCHANGED iterators /\ pc'[t] \notin Iterating
  BY <1>1, WritersDoNotRead
<1>3. ReadInv(t)'
  BY <1>2 DEF ReadInv, Iterating
<1>4. \A u \in Threads \ {t} : pc'[u] = pc[u] /\ loc'[u] = loc[u]
  BY <1>1, OnlyOneMoves
<1> QED
  BY <1>1, <1>2, <1>3, <1>4, QuietIterators DEF ReadersInv, Iterating

LEMMA ProcessesKeepReaders ==
    ASSUME ReadersInv, UseInv', ChainInv', NEW p \in Processes,
           Construct(p) \/ StoreMetadata(p) \/ Die(p)
    PROVE  ReadersInv'
<1>0. /\ SegmentInv /\ [Next]_vars /\ \A t \in Threads : ProcessOf[t] \in Processes
      /\ count \in [Processes -> Nat] /\ count' \in [Processes -> Nat] /\ Readers \subseteq Threads
  BY Constants DEF ReadersInv, UseInv, BlockInv, SegmentInv, SegTypes, Next, Threads
<1>1. CASE Construct(p)
  <2>1. /\ proc[p] \in {"out", "dead"} /\ FreshIterator(p) /\ UNCHANGED <<pc, loc>>
    BY <1>1 DEF Construct
  <2>2. ASSUME NEW u \in Threads, pc[u] # "idle" PROVE ProcessOf[u] # p
    BY <2>1, <2>2 DEF ReadersInv, UseInv, BlockInv, SegmentInv, PlaceInv
  <2>3. Counting(p)' = {}
    BY <1>0, <2>1, <2>2 DEF Counting
  <2>4. /\ IterInv(p)'
        /\ \A q \in Processes \ {p} : /\ delivered'[q] = delivered[q] /\ last'[q] = last[q]
                                      /\ count'[q] = count[q]
    BY <2>1, <2>3, IteratorStarts
  <2>5. ASSUME NEW q \in Processes \ {p} PROVE IterInv(q)'
    <3>1. Counting(q)' \subseteq Counting(q)
      BY <2>1 DEF Counting
    <3> QED
      BY <1>0, <2>4, <3>1, FewerCount, IteratorStays
  <2>6. ASSUME NEW u \in Threads PROVE ReadInv(u)'
    <3>1. CASE pc[u] = "idle"
      BY <2>1, <3>1 DEF ReadInv, Iterating
    <3>2. CASE pc[u] # "idle"
      <4>1. count'[ProcessOf[u]] = count[ProcessOf[u]]
        BY <1>0, <2>2, <2>4, <3>2
      <4>2. count[ProcessOf[u]] \in Nat
        BY <1>0
      <4> QED
        BY <1>0, <2>1, <4>1, <4>2, ReaderStays
    <3> QED
      BY <3>1, <3>2
  <2> QED
    BY <2>4, <2>5, <2>6 DEF ReadersInv
<1>2. CASE StoreMetadata(p) \/ Die(p)
  <2>1. /\ UNCHANGED iterators
        /\ \A u \in Threads : pc'[u] = "idle" \/ (pc'[u] = pc[u] /\ loc'[u] = loc[u])
    BY <1>2, ProcessesMove DEF StoreMetadata, Die
  <2>2. ASSUME NEW q \in Processes PROVE IterInv(q)'
    <3>1. Counting(q)' \subseteq Counting(q)
      BY <1>0, <2>1 DEF Counting
    <3> QED
      BY <1>0, <2>1, <3>1, FewerCount, IteratorStays DEF iterators
  <2>3. ASSUME NEW u \in Threads PROVE ReadInv(u)'
    <3>1. CASE pc'[u] = "idle"
      BY <3>1 DEF ReadInv, Iterating
    <3>2. CASE pc'[u] = pc[u] /\ loc'[u] = loc[u]
      <4>1. count'[ProcessOf[u]] = count[ProcessOf[u]] /\ count[ProcessOf[u]] \in Nat
        BY <1>0, <2>1 DEF iterators
      <4> QED
        BY <1>0, <3>2, <4>1, ReaderStays
    <3> QED
      BY <2>1, <3>1, <3>2
  <2> QED
    BY <2>2, <2>3 DEF ReadersInv
<1> QED
  BY <1>1, <1>2

\* What the tail end of the list of an iterator is.
LEMMA LastIsMarked ==
    ASSUME ReadersInv, NEW p \in Processes, last[p] \in Refs
    PROVE  next[last[p]] # Null
<1>0. /\ SegmentInv /\ IterInv(p) /\ MarkInv
  BY DEF ReadersInv, UseInv, BlockInv, SegmentInv
<1> DEFINE n == Len(delivered[p])
<1>1. n \in Nat /\ n # 0 /\ last[p] = delivered[p][n]
  <2>1. n \in Nat /\ last[p] = Before(p, n + 1) /\ Queue \notin Refs
    BY <1>0, IterTypes DEF IterInv
  <2>2. n + 1 = 1 <=> n = 0
    BY <2>1
  <2> QED
    BY <2>1, <2>2 DEF Before
<1>2. n \in 1..Len(delivered[p])
  BY <1>1
<1>3. last[p] = next[Before(p, n)] /\ Before(p, n) \in Links
  BY <1>0, <1>1, <1>2, IterTypes DEF IterInv
<1> QED
  BY <1>0, <1>3 DEF MarkInv

LEMMA ReadingKeepsReaders ==
    ASSUME ReadersInv, UseInv', ChainInv', NEW t \in Readers,
           GetNext(t) \/ LoadLast(t) \/ LoadNext(t)
    PROVE  ReadersInv'
<1>0. /\ SegmentInv /\ t \in Threads /\ [Next]_vars /\ ReadInv(t) /\ PlaceInv(t)
      /\ loc \in [Threads -> Locals] /\ pc \in [Threads -> PCs]
      /\ count \in [Processes -> Nat] /\ ProcessOf[t] \in Processes /\ Refs \subseteq Links
      /\ {"loadLast", "loadNext", "advance"} \subseteq PCs
  BY Constants DEF ReadersInv, UseInv, BlockInv, Threads, Next, SegmentInv, SegTypes, Locals,
     ReaderNext, PCs, Iterating, Links
<1>1. \A u \in Threads \ {t} : pc'[u] = pc[u] /\ loc'[u] = loc[u]
  BY <1>0, OnlyOneMoves DEF ReaderNext
<1>2. UNCHANGED iterators /\ UNCHANGED next
  BY DEF GetNext, LoadLast, LoadNext, segment, iterators
<1>3. pc'[t] # "count" /\ ReadInv(t)'
  <2>1. CASE GetNext(t)
    <3>1. pc'[t] = "loadLast" /\ loc'[t].size = count[ProcessOf[t]]
      BY <1>0, <2>1 DEF GetNext, Goto, Locals
    <3>2. loc'[t].size <= count'[ProcessOf[t]]
      BY <1>0, <1>2, <3>1 DEF iterators
    <3> QED
      BY <3>1, <3>2 DEF ReadInv
  <2>2. CASE LoadLast(t)
    <3>1. /\ pc[t] = "loadLast" /\ pc'[t] = "loadNext" /\ loc'[t].size = loc[t].size
          /\ loc'[t].old = last[ProcessOf[t]]
      BY <1>0, <2>2 DEF LoadLast, At, Goto, Locals
    <3>2. loc'[t].size <= count'[ProcessOf[t]]
      BY <1>0, <1>2, <3>1 DEF ReadInv, Iterating, iterators
    <3>3. loc'[t].old \in Refs => next'[loc'[t].old] # Null
      BY <1>0, <1>2, <3>1, LastIsMarked
    <3> QED
      BY <3>1, <3>2, <3>3 DEF ReadInv
  <2>3. CASE LoadNext(t)
    <3>1. pc[t] = "loadNext" /\ (Return(t) \/ /\ loc' = [loc EXCEPT ![t].new = next[loc[t].old]]
                                              /\ Goto(t, "advance"))
      BY <2>3 DEF LoadNext, At
    <3>2. CASE Return(t)
      BY <1>0, <3>2, Moves DEF ReadInv, Iterating
    <3>3. CASE loc' = [loc EXCEPT ![t].new = next[loc[t].old]] /\ Goto(t, "advance")
      <4>1. /\ pc'[t] = "advance" /\ loc'[t].size = loc[t].size /\ loc'[t].old = loc[t].old
            /\ loc'[t].new = next[loc[t].old]
        BY <1>0, <3>3 DEF Goto, Locals
      <4>2. loc'[t].size <= count'[ProcessOf[t]]
        BY <1>0, <1>2, <3>1, <4>1 DEF ReadInv, Iterating, iterators
      <4>3. loc'[t].old \in Refs => next'[loc'[t].old] # Null
        BY <1>0, <1>2, <3>1, <4>1 DEF ReadInv
      <4> QED
        BY <1>2, <4>1, <4>2, <4>3 DEF ReadInv
    <3> QED
      BY <3>1, <3>2, <3>3
  <2> QED
    BY <2>1, <2>2, <2>3
<1> QED
  BY <1>0, <1>1, <1>2, <1>3, QuietIterators DEF ReadersInv

\* The iterator takes the next link.
LEMMA IteratorAdvances ==
    ASSUME ReadersInv, NEW t \in Readers, pc[t] = "advance", UNCHANGED next,
           last[ProcessOf[t]] = loc[t].old,
           last' = [last EXCEPT ![ProcessOf[t]] = loc[t].new],
           delivered' = [delivered EXCEPT ![ProcessOf[t]] = Append(@, loc[t].new)],
           Goto(t, "count"), UNCHANGED count
    PROVE  IterInv(ProcessOf[t])'
<1> DEFINE p == ProcessOf[t]
           d == delivered[p]
           n == Len(d)
<1>0. /\ SegmentInv /\ IterInv(p) /\ t \in Threads /\ p \in Processes /\ ChainInv
      /\ last \in [Processes -> Links] /\ delivered \in [Processes -> Seq(Refs)]
      /\ pc \in [Threads -> PCs]
  BY Constants DEF ReadersInv, UseInv, BlockInv, Threads, SegmentInv, SegTypes
<1>1. /\ d \in Seq(Refs) /\ n \in Nat /\ loc[t].new \in Refs /\ last[p] = Before(p, n + 1)
      /\ next[last[p]] = loc[t].new /\ Queue \notin Refs /\ last[p] \in Links
  BY <1>0, IterTypes DEF ReadersInv, ReadInv, SegmentInv, PlaceInv, IterInv
<1>2. /\ delivered'[p] = Append(d, loc[t].new) /\ Len(delivered'[p]) = n + 1
      /\ delivered'[p][n + 1] = loc[t].new /\ last'[p] = loc[t].new
      /\ \A i \in 1..n : delivered'[p][i] = d[i]
  <2>1. delivered'[p] = Append(d, loc[t].new) /\ last'[p] = loc[t].new
    BY <1>0
  <2> QED
    BY <1>1, <2>1
<1>3. ASSUME NEW i \in 1..(n + 1) PROVE Before(p, i)' = Before(p, i)
  <2>1. CASE i = 1
    BY <2>1 DEF Before
  <2>2. CASE i # 1
    <3>1. i - 1 \in 1..n
      BY <1>1, <1>3, <2>2
    <3>2. delivered'[p][i - 1] = delivered[p][i - 1]
      BY <1>2, <3>1
    <3> QED
      BY <2>2, <3>2 DEF Before
  <2> QED
    BY <2>1, <2>2
<1>4. (last[p] = Before(p, Len(delivered[p]) + 1))'
  <2>1. PICK m : m = Len(delivered'[p])
    OBVIOUS
  <2>2. m = n + 1 /\ m + 1 # 1 /\ m + 1 - 1 = m
    BY <1>1, <1>2, <2>1
  <2>3. Before(p, m + 1)' = delivered'[p][m]
    BY <2>2 DEF Before
  <2> QED
    BY <1>2, <2>1, <2>2, <2>3
<1>5. ASSUME NEW i \in 1..(n + 1)
      PROVE  delivered'[p][i] = next'[Before(p, i)']
  <2>1. CASE i = n + 1
    BY <1>1, <1>2, <1>3, <1>5, <2>1
  <2>2. CASE i # n + 1
    <3>1. i \in 1..n
      BY <1>1, <1>5, <2>2
    <3> QED
      BY <1>0, <1>2, <1>3, <1>5, <3>1 DEF IterInv
  <2> QED
    BY <2>1, <2>2
\* The new block is none of the others: their predecessors differ.
<1>6. ASSUME NEW i \in 1..n
      PROVE  d[i] # loc[t].new
  <2>1. SUFFICES ASSUME d[i] = loc[t].new PROVE FALSE
    OBVIOUS
  <2>2. next[Before(p, i)] = next[last[p]] /\ next[last[p]] \in Refs /\ Before(p, i) \in Links
    BY <1>0, <1>1, <1>6, <2>1, IterTypes DEF IterInv
  <2>3. Before(p, i) = last[p]
    BY <1>0, <1>1, <2>2 DEF ChainInv
  <2>4. n \in 1..n /\ n + 1 # 1 /\ n + 1 - 1 = n
    BY <1>1, <1>6
  <2>5. last[p] = d[n] /\ d[n] \in Refs
    BY <1>1, <2>4 DEF Before
  <2>6. i # 1
    BY <1>1, <2>3, <2>5 DEF Before
  <2>7. d[i - 1] = d[n] /\ i - 1 \in 1..n
    BY <1>1, <1>6, <2>3, <2>5, <2>6 DEF Before
  <2>8. i - 1 = n
    BY <1>0, <2>4, <2>7 DEF IterInv
  <2> QED
    BY <1>1, <1>6, <2>8
<1>7. ASSUME NEW i \in 1..(n + 1), NEW j \in 1..(n + 1), delivered'[p][i] = delivered'[p][j]
      PROVE  i = j
  <2>1. (i \in 1..n \/ i = n + 1) /\ (j \in 1..n \/ j = n + 1)
    BY <1>1
  <2> QED
    BY <1>0, <1>2, <1>6, <1>7, <2>1 DEF IterInv
<1>8. count'[p] + Cardinality(Counting(p)') <= Len(delivered'[p])
  <2>1. Counting(p)' = Counting(p) \cup {t} /\ t \notin Counting(p)
    <3>1. /\ \A u \in Threads \ {t} : pc'[u] = pc[u]
          /\ pc'[t] = "count"
      BY <1>0, Moves DEF PCs, Iterating
    <3> QED
      BY <3>1 DEF Counting, Threads
  <2>2. IsFiniteSet(Counting(p)) /\ Cardinality(Counting(p)) \in Nat
    BY CountingIsFinite
  <2>3. Cardinality(Counting(p) \cup {t}) = Cardinality(Counting(p)) + 1
    BY <2>1, <2>2, FS_AddElement
  <2>4. Cardinality(Counting(p)') = Cardinality(Counting(p)) + 1
    BY <2>1, <2>3
  <2>5. count'[p] = count[p] /\ count[p] \in Nat /\ count[p] + Cardinality(Counting(p)) <= n
    BY <1>0, IterTypes DEF IterInv
  <2> QED
    BY <1>1, <1>2, <2>2, <2>4, <2>5
<1> HIDE DEF n, d
<1> QED
  BY <1>2, <1>4, <1>5, <1>7, <1>8 DEF IterInv

LEMMA AdvanceKeepsReaders ==
    ASSUME ReadersInv, UseInv', ChainInv', NEW t \in Readers, AdvanceLast(t)
    PROVE  ReadersInv'
<1> DEFINE p == ProcessOf[t]
<1>0. /\ SegmentInv /\ t \in Threads /\ [Next]_vars /\ ReadInv(t) /\ PlaceInv(t)
      /\ loc \in [Threads -> Locals] /\ pc \in [Threads -> PCs]
      /\ count \in [Processes -> Nat] /\ p \in Processes /\ Refs \subseteq Links
      /\ {"loadNext", "count"} \subseteq PCs /\ pc[t] = "advance"
      /\ last \in [Processes -> Links] /\ delivered \in [Processes -> Seq(Refs)]
      /\ \A u \in Threads : ProcessOf[u] \in Processes
  BY Constants DEF ReadersInv, UseInv, BlockInv, Threads, Next, SegmentInv, SegTypes, Locals,
     ReaderNext, PCs, Iterating, Links, AdvanceLast, At
<1>1. \A u \in Threads \ {t} : pc'[u] = pc[u] /\ loc'[u] = loc[u]
  BY <1>0, OnlyOneMoves DEF ReaderNext
<1>2. UNCHANGED <<segment, proc, distrusts, count, held, deaths>> /\ UNCHANGED next
  BY DEF AdvanceLast, segment
<1>3. CASE last[p] = loc[t].old
  <2>1. /\ last' = [last EXCEPT ![p] = loc[t].new]
        /\ delivered' = [delivered EXCEPT ![p] = Append(@, loc[t].new)]
        /\ Goto(t, "count") /\ UNCHANGED loc
    BY <1>3 DEF AdvanceLast
  <2>2. IterInv(p)'
    BY <1>0, <1>2, <1>3, <2>1, IteratorAdvances
  <2>3. pc'[t] = "count"
    BY <1>0, <2>1, Moves
  <2>4. ASSUME NEW q \in Processes \ {p} PROVE IterInv(q)'
    <3>1. delivered'[q] = delivered[q] /\ last'[q] = last[q] /\ count'[q] = count[q]
      BY <1>0, <1>2, <2>1
    <3>2. Counting(q)' \subseteq Counting(q)
      BY <1>1 DEF Counting, Threads
    <3> QED
      BY <1>0, <3>1, <3>2, FewerCount, IteratorStays
  <2>5. ASSUME NEW u \in Threads \ {t} PROVE ReadInv(u)'
    <3>1. count[ProcessOf[u]] \in Nat /\ count' = count
      BY <1>0, <1>2
    <3> QED
      BY <1>0, <1>1, <3>1, ReaderStays
  <2>6. ReadInv(t)'
    BY <1>0, <1>2, <2>1, <2>3 DEF ReadInv, Iterating
  <2> QED
    BY <2>2, <2>4, <2>5, <2>6 DEF ReadersInv
<1>4. CASE last[p] # loc[t].old
  <2>1. /\ loc' = [loc EXCEPT ![t].old = last[p]] /\ Goto(t, "loadNext")
        /\ UNCHANGED <<last, delivered>>
    BY <1>4 DEF AdvanceLast
  <2>2. /\ pc'[t] = "loadNext" /\ loc'[t].size = loc[t].size /\ loc'[t].old = last[p]
    BY <1>0, <2>1 DEF Locals, Goto
  <2>3. loc'[t].size <= count'[p]
    BY <1>0, <1>2, <2>2 DEF ReadInv, Iterating
  <2>4. loc'[t].old \in Refs => next'[loc'[t].old] # Null
    BY <1>0, <1>2, <2>2, LastIsMarked
  <2>5. ReadInv(t)'
    BY <2>2, <2>3, <2>4 DEF ReadInv
  <2> QED
    BY <1>0, <1>1, <1>2, <2>1, <2>2, <2>5, QuietIterators DEF ReadersInv, iterators
<1> QED
  BY <1>3, <1>4

LEMMA CountKeepsReaders ==
    ASSUME ReadersInv, UseInv', ChainInv', NEW t \in Readers, CountRecord(t)
    PROVE  ReadersInv'
<1> DEFINE p == ProcessOf[t]
<1>0. /\ SegmentInv /\ t \in Threads /\ [Next]_vars /\ pc[t] = "count"
      /\ count \in [Processes -> Nat] /\ p \in Processes /\ UNCHANGED <<last, delivered>>
      /\ \A u \in Threads : ProcessOf[u] \in Processes
      /\ count' \in [Processes -> Nat]
  BY Constants DEF ReadersInv, UseInv, BlockInv, Threads, Next, SegmentInv, SegTypes,
     ReaderNext, CountRecord, At
<1>1. /\ pc'[t] = "idle"
      /\ \A u \in Threads \ {t} : pc'[u] = pc[u] /\ loc'[u] = loc[u]
  BY <1>0, Moves DEF CountRecord
<1>2. UNCHANGED count \/ count' = [count EXCEPT ![p] = @ + 1]
  BY DEF CountRecord
<1>3. /\ \A q \in Processes \ {p} : count'[q] = count[q]
      /\ count'[p] <= count[p] + 1
      /\ \A q \in Processes : count[q] <= count'[q]
  <2>1. CASE UNCHANGED count
    <3>1. \A q \in Processes : count[q] \in Nat
      BY <1>0
    <3> QED
      BY <1>0, <2>1, <3>1
  <2>2. CASE count' = [count EXCEPT ![p] = @ + 1]
    <3>1. \A q \in Processes : count[q] \in Nat
      BY <1>0
    <3> QED
      BY <1>0, <2>2, <3>1
  <2> QED
    BY <1>2, <2>1, <2>2
<1>4. IterInv(p)'
  <2>1. Counting(p)' = Counting(p) \ {t} /\ t \in Counting(p)
    BY <1>0, <1>1 DEF Counting, Threads
  <2>2. IsFiniteSet(Counting(p)) /\ Cardinality(Counting(p)) \in Nat
    BY CountingIsFinite
  <2>3. Cardinality(Counting(p) \ {t}) = Cardinality(Counting(p)) - 1
    BY <2>1, <2>2, FS_RemoveElement
  <2>4. Cardinality(Counting(p)') = Cardinality(Counting(p)) - 1
    BY <2>1, <2>3
  <2>5. count[p] \in Nat /\ Len(delivered[p]) \in Nat
        /\ count[p] + Cardinality(Counting(p)) <= Len(delivered[p])
    BY <1>0, IterTypes DEF ReadersInv, IterInv
  <2>6. count'[p] \in Nat
    BY <1>0
  <2>7. count'[p] + Cardinality(Counting(p)') <= Len(delivered[p])
    BY <1>3, <2>2, <2>4, <2>5, <2>6
  <2> QED
    BY <1>0, <2>7, IteratorStays
<1>5. ASSUME NEW q \in Processes \ {p} PROVE IterInv(q)'
  <2>1. Counting(q)' \subseteq Counting(q)
    BY <1>1 DEF Counting, Threads
  <2> QED
    BY <1>0, <1>3, <2>1, FewerCount, IteratorStays
<1>6. ASSUME NEW u \in Threads PROVE ReadInv(u)'
  <2>1. CASE u = t
    BY <1>1, <2>1 DEF ReadInv, Iterating
  <2>2. CASE u # t
    BY <1>0, <1>1, <1>3, <2>2, ReaderStays
  <2> QED
    BY <2>1, <2>2
<1> QED
  BY <1>4, <1>5, <1>6 DEF ReadersInv

LEMMA ResetKeepsReaders ==
    ASSUME ReadersInv, UseInv', ChainInv', NEW t \in Readers, Reset(t)
    PROVE  ReadersInv'
<1> DEFINE p == ProcessOf[t]
<1>0. /\ SegmentInv /\ t \in Threads /\ [Next]_vars /\ UNCHANGED <<pc, loc>>
      /\ count \in [Processes -> Nat] /\ p \in Processes /\ FreshIterator(p)
      /\ \A u \in Threads : ProcessOf[u] \in Processes
      /\ count' \in [Processes -> Nat]
      /\ \A u \in Readers : ProcessOf[u] = p => pc[u] \notin Iterating
  BY Constants DEF ReadersInv, UseInv, BlockInv, Threads, Next, SegmentInv, SegTypes,
     ReaderNext, Reset
<1>1. Counting(p)' = {}
  BY <1>0 DEF Counting, Iterating
<1>2. /\ IterInv(p)'
      /\ \A q \in Processes \ {p} : /\ delivered'[q] = delivered[q] /\ last'[q] = last[q]
                                    /\ count'[q] = count[q]
  BY <1>0, <1>1, IteratorStarts
<1>3. ASSUME NEW q \in Processes \ {p} PROVE IterInv(q)'
  <2>1. Counting(q)' \subseteq Counting(q)
    BY <1>0 DEF Counting
  <2> QED
    BY <1>0, <1>2, <2>1, FewerCount, IteratorStays
<1>4. ASSUME NEW u \in Threads PROVE ReadInv(u)'
  <2>1. CASE pc[u] \in Iterating
    <3>1. ProcessOf[u] # p
      BY <1>0, <2>1 DEF ReadersInv, ReadInv
    <3>2. count'[ProcessOf[u]] = count[ProcessOf[u]] /\ count[ProcessOf[u]] \in Nat
      BY <1>0, <1>2, <3>1
    <3> QED
      BY <1>0, <3>2, ReaderStays
  <2>2. CASE pc[u] \notin Iterating
    BY <1>0, <2>2, ReaderStays
  <2> QED
    BY <2>1, <2>2
<1> QED
  BY <1>2, <1>3, <1>4 DEF ReadersInv

LEMMA StepsKeepReadersInv == ReadersInv /\ [Next]_vars => ReadersInv'
<1> SUFFICES ASSUME ReadersInv, [Next]_vars PROVE ReadersInv'
  OBVIOUS
<1>1. UseInv' /\ ChainInv'
  BY StepsKeepUseInv, StepsKeepChainInv DEF ReadersInv
<1>2. CASE UNCHANGED vars
  <2>1. UNCHANGED iterators /\ UNCHANGED <<pc, loc>>
    BY <1>2 DEF vars
  <2>2. ASSUME NEW p \in Processes PROVE IterInv(p)'
    <3>1. Counting(p)' \subseteq Counting(p)
      BY <2>1 DEF Counting
    <3> QED
      BY <2>1, <3>1, FewerCount, IteratorStays DEF iterators
  <2>3. ASSUME NEW u \in Threads PROVE ReadInv(u)'
    <3>1. count' = count /\ count \in [Processes -> Nat] /\ ProcessOf[u] \in Processes
      BY <2>1, Constants DEF ReadersInv, UseInv, BlockInv, SegmentInv, SegTypes, iterators
    <3>2. count[ProcessOf[u]] \in Nat
      BY <3>1
    <3> QED
      BY <2>1, <3>1, <3>2, ReaderStays
  <2> QED
    BY <1>1, <2>2, <2>3 DEF ReadersInv
<1>3. ASSUME NEW t \in Readers, ReaderNext(t) PROVE ReadersInv'
  BY <1>1, <1>3, ReadingKeepsReaders, AdvanceKeepsReaders, CountKeepsReaders, ResetKeepsReaders
     DEF ReaderNext
<1> QED
  BY <1>1, <1>2, <1>3, WritersKeepReaders, ProcessesKeepReaders DEF Next

LEMMA InitiallyRead == Init => ReadersInv
<1> SUFFICES ASSUME Init PROVE ReadersInv
  OBVIOUS
<1>1. UseInv
  BY InitiallyUsed
<1>2. ChainInv
  BY Constants DEF Init, ChainInv, Unlinked, Links
<1>3. ASSUME NEW p \in Processes PROVE IterInv(p)
  <2>1. delivered[p] = <<>> /\ last[p] = Queue /\ count[p] = 0 /\ Len(delivered[p]) = 0
    BY DEF Init
  <2>2. Before(p, 1) = Queue
    BY DEF Before
  <2>3. Counting(p) = {}
    BY DEF Init, Counting, Threads
  <2>4. Cardinality(Counting(p)) = 0
    BY <2>3, FS_EmptySet
  <2> QED
    BY <2>1, <2>2, <2>4 DEF IterInv
<1>4. ASSUME NEW t \in Threads PROVE ReadInv(t)
  BY DEF Init, ReadInv, Iterating
<1> QED
  BY <1>1, <1>2, <1>3, <1>4 DEF ReadersInv

\* A linked block fits below freeptr, and an iterator delivers no more blocks
\* than fit there.
LEMMA LinkedBlock ==
    ASSUME UseInv, ChainInv, NEW r \in Refs, next[r] # Null
    PROVE  /\ cookie[r] = "allocated" /\ r \in Nat /\ size[r] \in Nat /\ size[r] >= Header + 1
           /\ r + size[r] <= freeptr /\ freeptr \in Nat /\ freeptr <= MemSize
           /\ ValidBlock(r)
<1>0. /\ cookie[r] = "allocated" /\ r \in Nat /\ size[r] \in Nat
      /\ freeptr \in Nat /\ freeptr <= MemSize /\ MemSize \in Nat
  BY Constants DEF ChainInv, UseInv, BlockInv, SegmentInv, SegTypes, Offsets
<1>1. size[r] >= Header + 1 /\ r + size[r] <= freeptr
  BY <1>0 DEF UseInv, BlockInv, ExtentInv, Room
<1> QED
  BY <1>0, <1>1 DEF ValidBlock, Header

LEMMA DeliveredFit ==
    ASSUME ReadersInv, NEW p \in Processes
    PROVE  Len(delivered[p]) <= freeptr \div (Header + 1)
<1> DEFINE n == Len(delivered[p])
           m == freeptr \div (Header + 1)
           T == 0..(m - 1)
           f == [i \in 1..n |-> delivered[p][i] \div (Header + 1)]
<1>0. /\ SegmentInv /\ IterInv(p) /\ freeptr \in Nat /\ n \in Nat /\ m \in Nat /\ MarkInv
      /\ UseInv /\ ChainInv
  <2>1. SegmentInv /\ IterInv(p) /\ freeptr \in Nat /\ n \in Nat /\ MarkInv /\ UseInv /\ ChainInv
    BY IterTypes, Constants DEF ReadersInv, UseInv, BlockInv, SegmentInv, SegTypes
  <2> QED
    BY <2>1 DEF Header
<1>1. ASSUME NEW i \in 1..n
      PROVE  /\ delivered[p][i] \in Refs /\ delivered[p][i] \in Nat
             /\ cookie[delivered[p][i]] = "allocated"
             /\ size[delivered[p][i]] \in Nat /\ size[delivered[p][i]] >= Header + 1
             /\ delivered[p][i] + size[delivered[p][i]] <= freeptr
  <2>1. /\ delivered[p][i] \in Refs /\ delivered[p][i] = next[Before(p, i)]
        /\ Before(p, i) \in Links
    BY <1>0, IterTypes DEF IterInv
  <2>2. next[delivered[p][i]] # Null
    BY <1>0, <2>1 DEF MarkInv
  <2> QED
    BY <1>0, <2>1, <2>2, LinkedBlock
<1>2. f \in [1..n -> T]
  <2>1. ASSUME NEW i \in 1..n PROVE delivered[p][i] \div (Header + 1) \in T
    <3>1. PICK r : r = delivered[p][i]
      OBVIOUS
    <3>2. r \in Nat /\ r + 3 <= freeptr
      BY <1>0, <1>1, <2>1, <3>1 DEF Header
    <3>3. r \div 3 \in Nat /\ r \div 3 <= freeptr \div 3 - 1
      BY <1>0, <3>2
    <3> QED
      BY <1>0, <3>1, <3>3 DEF Header
  <2> QED
    BY <2>1
<1>3. ASSUME NEW i \in 1..n, NEW j \in 1..n, f[i] = f[j]
      PROVE  i = j
  <2>1. PICK r : r = delivered[p][i]
    OBVIOUS
  <2>2. PICK s : s = delivered[p][j]
    OBVIOUS
  <2>3. r \in Nat /\ s \in Nat /\ r \div 3 = s \div 3
    BY <1>1, <1>3, <2>1, <2>2 DEF Header
  <2>4. CASE r = s
    BY <1>0, <2>1, <2>2, <2>4 DEF IterInv
  <2>5. CASE r # s
    <3>1. Apart(r, size[r], s, size[s])
      BY <1>1, <2>1, <2>2, <2>5 DEF ReadersInv, UseInv, BlockInv, ExtentInv
    <3>2. s + 3 <= r \/ r + 3 <= s
      BY <1>1, <2>1, <2>2, <3>1 DEF Apart, Header
    <3> QED
      BY <2>3, <3>2
  <2> QED
    BY <2>4, <2>5
<1>4. f \in Injection(1..n, T)
  BY <1>2, <1>3 DEF Injection, IsInjective
<1>5. /\ IsFiniteSet(T) /\ Cardinality(T) = IF 0 > m - 1 THEN 0 ELSE m - 1 - 0 + 1
      /\ Cardinality(1..n) = IF 1 > n THEN 0 ELSE n - 1 + 1
  <2>1. 0 \in Int /\ 1 \in Int /\ m - 1 \in Int /\ n \in Int
    BY <1>0
  <2> QED
    BY <2>1, FS_Interval
<1>6. Cardinality(1..n) <= Cardinality(T)
  BY <1>4, <1>5, FS_Injection
<1> HIDE DEF n, m
<1>7. n <= m
  BY <1>0, <1>5, <1>6
<1> QED
  BY <1>7 DEF n, m

\* Who distrusts the segment has marked it as corrupt.
TrustInv == distrusts # {} => "corrupt" \in flags

\* No free part of a page is too small for a header.
RoomInv ==
    /\ freeptr # 0 => PageFree(freeptr) > Header
    /\ \A t \in Threads :
          pc[t] \in {"loop", "waste"} /\ loc[t].old # 0 => PageFree(loc[t].old) > Header

AccessInv == ReadersInv /\ TrustInv /\ RoomInv

\* freeptr moves from zero to the end of the metadata, and then by what is
\* taken from a page.
LEMMA FreeptrSteps ==
    ASSUME SegmentInv, [Next]_vars
    PROVE  \/ UNCHANGED freeptr
           \/ freeptr' = MetaSize
           \/ \E n \in Nat \ {0} :
                 /\ freeptr \in Refs /\ freeptr' = freeptr + n /\ n <= PageFree(freeptr)
                 /\ n = PageFree(freeptr) \/ PageFree(freeptr) - n >= Header + 1
<1>1. ASSUME NEW t \in Threads, AllocateLoop(t)
      PROVE  \/ UNCHANGED freeptr
             \/ \E n \in Nat \ {0} :
                   /\ freeptr \in Refs /\ freeptr' = freeptr + n /\ n <= PageFree(freeptr)
                   /\ n = PageFree(freeptr) \/ PageFree(freeptr) - n >= Header + 1
  BY <1>1, LoopSteps
<1>2. ASSUME NEW t \in Threads, WriterNext(t), ~AllocateLoop(t)
      PROVE  UNCHANGED freeptr
  BY <1>2 DEF WriterNext, Publish, Allocate, WasteRest, WriteHeader, MakeIterable, LoadTail,
     LinkAfterTail, SwingTail, HelpTail, Discard, Release, ClearMemory, FinishRelease, FindFree,
     Reuse, segment
<1>3. ASSUME NEW t \in Threads, ReaderNext(t)
      PROVE  UNCHANGED freeptr
  BY <1>3 DEF ReaderNext, GetNext, LoadLast, LoadNext, AdvanceLast, CountRecord, Reset, segment
<1>4. ASSUME NEW p \in Processes, Construct(p) \/ StoreMetadata(p) \/ Die(p)
      PROVE  UNCHANGED freeptr \/ freeptr' = MetaSize
  BY <1>4 DEF Construct, StoreMetadata, Die, segment
<1>5. CASE UNCHANGED vars
  BY <1>5 DEF vars, segment
<1> QED
  BY <1>1, <1>2, <1>3, <1>4, <1>5 DEF Next, Threads

\* Where the local copy of freeptr comes from.
LEMMA CopySteps ==
    ASSUME SegmentInv, [Next]_vars, NEW u \in Threads, pc'[u] \in {"loop", "waste"}
    PROVE  \/ loc'[u].old = freeptr
           \/ pc[u] \in {"loop", "waste"} /\ loc'[u].old = loc[u].old
<1>0. loc \in [Threads -> Locals] /\ pc \in [Threads -> PCs]
  BY DEF SegmentInv, SegTypes, Locals
<1>1. ASSUME NEW t \in Threads, WriterNext(t) \/ ReaderNext(t)
      PROVE  \/ loc'[u].old = freeptr
             \/ pc[u] \in {"loop", "waste"} /\ loc'[u].old = loc[u].old
  <2>1. CASE u # t
    BY <1>1, <2>1, OnlyOneMoves
  <2>2. CASE u = t /\ AllocateLoop(t)
    <3>1. pc[t] = "loop"
      BY <2>2 DEF AllocateLoop, At
    <3>2. CASE Return(t)
      BY <1>0, <2>2, <3>2, Moves
    <3>3. ASSUME NEW n, loc' = [loc EXCEPT ![t].old = freeptr, ![t].size = n]
          PROVE  loc'[t].old = freeptr
      BY <1>0, <3>3 DEF Locals
    <3>4. ASSUME NEW n, UNCHANGED loc \/ loc' = [loc EXCEPT ![t].size = n]
          PROVE  loc'[t].old = loc[t].old
      BY <1>0, <3>4 DEF Locals
    <3> QED
      BY <2>2, <3>1, <3>2, <3>3, <3>4, LoopSteps
  <2>3. CASE u = t /\ Allocate(t)
    <3>1. ASSUME NEW n, loc' = [loc EXCEPT ![t].size = n, ![t].old = freeptr]
          PROVE  loc'[t].old = freeptr
      BY <1>0, <3>1 DEF Locals
    <3> QED
      BY <2>3, <3>1 DEF Allocate
  <2>4. CASE u = t /\ WasteRest(t)
    BY <2>4 DEF WasteRest, At
  <2>5. CASE u = t /\ WriterNext(t) /\ ~AllocateLoop(t) /\ ~Allocate(t) /\ ~WasteRest(t)
    BY <1>0, <2>5 DEF WriterNext, Publish, WriteHeader, MakeIterable, LoadTail,
       LinkAfterTail, SwingTail, HelpTail, Discard, Release, ClearMemory, FinishRelease, FindFree,
       Reuse, Return, Goto
  <2>6. CASE u = t /\ ReaderNext(t)
    BY <1>0, <2>6 DEF ReaderNext, GetNext, LoadLast, LoadNext, AdvanceLast, CountRecord, Reset,
       Return, Goto, At
  <2> QED
    BY <1>1, <2>1, <2>2, <2>3, <2>4, <2>5, <2>6
<1>2. ASSUME NEW p \in Processes, Construct(p) \/ StoreMetadata(p) \/ Die(p)
      PROVE  pc[u] \in {"loop", "waste"} /\ loc'[u].old = loc[u].old
  BY <1>2, ProcessesMove
<1>3. CASE UNCHANGED vars
  BY <1>3 DEF vars
<1> QED
  BY <1>1, <1>2, <1>3 DEF Next, Threads

\* The first page has more room beside the metadata than a header takes.  The
\* constructor does not demand it, but with less AllocateImpl takes the rest
\* of that page for corruption (persistent_memory_allocator.cpp:685).
FirstPageHasRoom == PageFree(MetaSize) > Header

LEMMA StepsKeepRoomInv ==
    ASSUME FirstPageHasRoom, SegmentInv, RoomInv, [Next]_vars
    PROVE  RoomInv'
<1>1. ASSUME freeptr' # 0 PROVE PageFree(freeptr') > Header
  <2>1. CASE UNCHANGED freeptr
    BY <1>1, <2>1 DEF RoomInv
  <2>2. CASE freeptr' = MetaSize
    BY <2>2 DEF FirstPageHasRoom
  <2>3. ASSUME NEW n \in Nat \ {0}, freeptr \in Refs, freeptr' = freeptr + n,
               n <= PageFree(freeptr),
               n = PageFree(freeptr) \/ PageFree(freeptr) - n >= Header + 1
        PROVE  PageFree(freeptr') > Header
    <3>1. freeptr \in Nat /\ freeptr # 0
      BY <2>3, Constants DEF Refs, MetaSize
    <3>2. PageFree(freeptr) > Header /\ PageFree(freeptr) \in Nat
          /\ PageFree(freeptr) \in 1..PageSize
      BY <3>1, PageRoom DEF RoomInv
    <3>3. PageSize > Header
      BY <3>2, SizesAssumption DEF Header
    <3>4. CASE n = PageFree(freeptr)
      BY <2>3, <3>1, <3>3, <3>4, TakenFromPage
    <3>5. CASE n < PageFree(freeptr) /\ PageFree(freeptr) - n >= Header + 1
      <4>1. PageFree(freeptr + n) = PageFree(freeptr) - n
        BY <2>3, <3>1, <3>5, TakenFromPage
      <4> QED
        BY <2>3, <3>2, <3>5, <4>1 DEF Header
    <3> QED
      BY <2>3, <3>2, <3>4, <3>5 DEF Header
  <2> QED
    BY <2>1, <2>2, <2>3, FreeptrSteps
<1>2. ASSUME NEW u \in Threads, pc'[u] \in {"loop", "waste"}, loc'[u].old # 0
      PROVE  PageFree(loc'[u].old) > Header
  BY <1>2, CopySteps DEF RoomInv
<1>3. \A r : PageFree(r)' = PageFree(r)
  BY DEF PageFree
<1> QED
  BY <1>1, <1>2 DEF RoomInv, PageFree

LEMMA FlagSteps ==
    ASSUME SegmentInv, NEW t \in Threads, WriterNext(t) \/ ReaderNext(t)
    PROVE  \/ UNCHANGED distrusts /\ flags' \in {flags, flags \cup {"full"}}
           \/ SetCorrupt(ProcessOf[t])
<1>1. CASE AllocateLoop(t)
  BY <1>1, LoopSteps
<1>2. CASE WriterNext(t) /\ ~AllocateLoop(t)
  BY <1>2 DEF WriterNext, Publish, Allocate, WasteRest, WriteHeader, MakeIterable, LoadTail,
     LinkAfterTail, SwingTail, HelpTail, Discard, Release, ClearMemory, FinishRelease, FindFree,
     Reuse, segment, KeepFlags
<1>3. CASE ReaderNext(t)
  BY <1>3 DEF ReaderNext, GetNext, LoadLast, LoadNext, AdvanceLast, CountRecord, Reset, segment,
     KeepFlags
<1> QED
  BY <1>1, <1>2, <1>3

LEMMA StepsKeepTrustInv ==
    ASSUME SegmentInv, TrustInv, [Next]_vars
    PROVE  TrustInv'
<1>1. ASSUME NEW t \in Threads, WriterNext(t) \/ ReaderNext(t)
      PROVE  TrustInv'
  BY <1>1, FlagSteps DEF TrustInv, SetCorrupt
<1>2. ASSUME NEW p \in Processes, Construct(p)
      PROVE  TrustInv'
  <2>1. /\ distrusts' \in {distrusts \cup {p}, distrusts \ {p}}
        /\ flags' = IF p \in distrusts' THEN flags \cup {"corrupt"} ELSE flags
    BY <1>2 DEF Construct
  <2> QED
    BY <2>1 DEF TrustInv
<1>3. ASSUME NEW p \in Processes, StoreMetadata(p) \/ Die(p)
      PROVE  TrustInv'
  BY <1>3 DEF StoreMetadata, Die, TrustInv, segment
<1>4. CASE UNCHANGED vars
  BY <1>4 DEF vars, segment, TrustInv
<1> QED
  BY <1>1, <1>2, <1>3, <1>4 DEF Next, Threads

\* A thread has no reason to call SetCorrupt, but for what others have found.
LEMMA NothingLooksCorrupt ==
    ASSUME AccessInv, NEW t \in Threads, WriterNext(t) \/ ReaderNext(t), "corrupt" \notin flags
    PROVE  "corrupt" \notin flags'
<1>0. /\ ReadersInv /\ UseInv /\ BlockInv /\ SegmentInv /\ ChainInv /\ MetaInv /\ MarkInv
      /\ PlaceInv(t) /\ ReadInv(t) /\ ProcessOf[t] \in Processes
      /\ next \in [Links -> Links \cup {Null}] /\ Queue \notin Refs
      /\ freeptr \in Nat /\ Null \notin Refs
  BY Constants DEF AccessInv, ReadersInv, UseInv, BlockInv, SegmentInv, SegTypes, Links
<1>1. distrusts = {} /\ ~IsCorrupt(ProcessOf[t])
  BY DEF AccessInv, TrustInv, IsCorrupt
<1>2. ASSUME ~SetCorrupt(ProcessOf[t]) PROVE "corrupt" \notin flags'
  BY <1>0, <1>2, FlagSteps
<1>3. ASSUME NEW r \in Links, r # Queue, next[r] # Null
      PROVE  ValidBlock(r)
  BY <1>0, <1>3, LinkedBlock DEF Links
<1>4. CASE AllocateLoop(t)
  <2>1. ~(loc[t].old \in Refs /\ PageFree(loc[t].old) <= Header)
    <3>1. SUFFICES ASSUME loc[t].old \in Refs PROVE ~(PageFree(loc[t].old) <= Header)
      OBVIOUS
    <3>2. loc[t].old # 0 /\ loc[t].old \in Nat
      BY <3>1, Constants DEF Refs, MetaSize
    <3>3. pc[t] = "loop"
      BY <1>4 DEF AllocateLoop, At
    <3>4. PageFree(loc[t].old) > Header /\ PageFree(loc[t].old) \in Nat
      BY <3>2, <3>3, PageRoom DEF AccessInv, RoomInv
    <3> QED
      BY <3>4 DEF Header
  <2>2. flags' \in {flags, flags \cup {"full"}}
    BY <1>0, <1>1, <1>4, <2>1, LoopSteps
  <2> QED
    BY <2>2
<1>5. CASE WriteHeader(t)
  <2>1. /\ cookie[loc[t].old] = "free" /\ size[loc[t].old] = 0
        /\ type[loc[t].old] = "none" /\ next[loc[t].old] = Null
    BY <1>0, <1>5, ClaimedIsFree DEF WriteHeader, At, Claiming
  <2> QED
    BY <1>5, <2>1 DEF WriteHeader, KeepFlags
<1>6. CASE MakeIterable(t)
  BY <1>1, <1>6 DEF MakeIterable, KeepFlags
<1>7. CASE LinkAfterTail(t)
  <2>1. loc[t].old \in Links /\ next[loc[t].old] # Null
    BY <1>0, <1>7 DEF LinkAfterTail, At, PlaceInv
  <2> QED
    BY <1>3, <1>7, <2>1 DEF LinkAfterTail, KeepFlags
<1>8. CASE LoadNext(t)
  <2> DEFINE ref == loc[t].old
  <2>1. pc[t] = "loadNext" /\ ref \in Links
    BY <1>0, <1>8 DEF LoadNext, At, PlaceInv
  <2>2. next[ref] # Null
    <3>1. CASE ref = Queue
      BY <1>0, <1>1, <2>1, <3>1 DEF PlaceInv, MetaInv, Complete
    <3>2. CASE ref # Queue
      BY <1>0, <2>1, <3>2 DEF ReadInv, Links
    <3> QED
      BY <3>1, <3>2
  <2>3. CASE next[ref] = Queue
    BY <1>8, <2>3 DEF LoadNext, KeepFlags
  <2>4. CASE next[ref] # Queue
    <3>1. next[ref] \in Refs /\ next[next[ref]] # Null
      BY <1>0, <2>1, <2>2, <2>4 DEF Links, MarkInv
    <3>2. ValidBlock(next[ref])
      BY <1>0, <1>3, <3>1 DEF Links
    <3> QED
      BY <1>8, <3>2 DEF LoadNext, KeepFlags
  <2> QED
    BY <2>3, <2>4
<1>9. CASE CountRecord(t)
  <2> DEFINE p == ProcessOf[t]
  <2>1. pc[t] = "count" /\ t \in Readers /\ loc[t].size <= count[p]
    BY <1>0, <1>9 DEF CountRecord, At, ReadInv, Iterating
  <2>2. count[p] + Cardinality(Counting(p)) <= Len(delivered[p])
    BY <1>0 DEF ReadersInv, IterInv
  <2>3. Len(delivered[p]) <= freeptr \div (Header + 1)
    BY <1>0, DeliveredFit
  <2>4. loc[t].size \in Nat /\ count[p] \in Nat /\ Len(delivered[p]) \in Nat
    BY <1>0, IterTypes DEF SegmentInv, SegTypes
  <2>5. Cardinality(Counting(p)) \in Nat
    BY CountingIsFinite
  <2>6. ~(loc[t].size > freeptr \div (Header + 1))
    BY <1>0, <2>1, <2>2, <2>3, <2>4, <2>5 DEF Header
  <2> QED
    BY <1>9, <2>6 DEF CountRecord, KeepFlags
<1>10. CASE WriterNext(t) /\ ~AllocateLoop(t) /\ ~WriteHeader(t) /\ ~MakeIterable(t)
            /\ ~LinkAfterTail(t)
  BY <1>10 DEF WriterNext, Publish, Allocate, WasteRest, LoadTail, SwingTail, HelpTail, Discard,
     Release, ClearMemory, FinishRelease, FindFree, Reuse, segment
<1>11. CASE ReaderNext(t) /\ ~LoadNext(t) /\ ~CountRecord(t)
  BY <1>11 DEF ReaderNext, GetNext, LoadLast, AdvanceLast, Reset, segment
<1> QED
  BY <1>4, <1>5, <1>6, <1>7, <1>8, <1>9, <1>10, <1>11 DEF ReaderNext

\* What an iterator has counted fits into the local variable of its callers.
SizeInv == \A t \in Threads : loc[t].size \in Offsets

LEMMA StepsKeepSizeInv ==
    ASSUME ReadersInv, SizeInv, [Next]_vars
    PROVE  SizeInv'
<1>0. /\ SegmentInv /\ loc \in [Threads -> Locals] /\ PageSize \in Nat /\ MemSize \in Nat
      /\ PageSize <= MemSize /\ 0 \in Offsets /\ freeptr \in Nat /\ freeptr <= MemSize
  <2>1. /\ SegmentInv /\ loc \in [Threads -> Locals] /\ freeptr \in Offsets
    BY DEF ReadersInv, UseInv, BlockInv, SegmentInv, SegTypes, Locals
  <2> QED
    BY <2>1, Constants DEF Offsets
<1>1. ASSUME NEW n \in Nat, n <= PageSize PROVE n \in Offsets
  BY <1>0, <1>1 DEF Offsets
<1>2. ASSUME NEW t \in Threads, Return(t) \/ UNCHANGED loc PROVE SizeInv'
  BY <1>0, <1>2 DEF SizeInv, Return, NoLocals
<1>3. ASSUME NEW t \in Threads, NEW v,
             \/ loc' = [loc EXCEPT ![t].ref = v]
             \/ loc' = [loc EXCEPT ![t].old = v]
             \/ loc' = [loc EXCEPT ![t].new = v]
      PROVE  SizeInv'
  BY <1>0, <1>3 DEF SizeInv, Locals
<1>4. ASSUME NEW t \in Threads, NEW n \in Offsets,
             \/ loc' = [loc EXCEPT ![t].size = n]
             \/ loc' = [loc EXCEPT ![t].size = n, ![t].old = freeptr]
             \/ loc' = [loc EXCEPT ![t].old = freeptr, ![t].size = n]
      PROVE  SizeInv'
  BY <1>0, <1>4 DEF SizeInv, Locals
<1>5. ASSUME NEW t \in Threads, AllocateLoop(t) PROVE SizeInv'
  <2>1. ASSUME NEW n \in (Header + 1)..PageSize PROVE n \in Offsets
    BY <1>0, <1>1 DEF Header
  <2>2. ASSUME NEW n \in Nat \ {0}, freeptr \in Refs, n <= PageFree(freeptr) PROVE n \in Offsets
    <3>1. PageFree(freeptr) \in 1..PageSize
      BY <1>0, PageRoom
    <3> QED
      BY <1>0, <1>1, <2>2, <3>1
  <2> QED
    <3>1. CASE Return(t) \/ UNCHANGED loc
      BY <1>2, <1>5, <3>1
    <3>2. ASSUME NEW n \in (Header + 1)..PageSize,
                 loc' = [loc EXCEPT ![t].old = freeptr, ![t].size = n]
          PROVE  SizeInv'
      BY <1>4, <1>5, <2>1, <3>2
    <3>3. ASSUME NEW n \in Nat \ {0}, freeptr \in Refs, n <= PageFree(freeptr),
                 loc' = [loc EXCEPT ![t].size = n]
          PROVE  SizeInv'
      BY <1>4, <1>5, <2>2, <3>3
    <3> QED
      BY <1>0, <1>5, <3>1, <3>2, <3>3, LoopSteps
<1>6. ASSUME NEW t \in Threads, Allocate(t) PROVE SizeInv'
  <2>1. PICK n \in Requests : loc' = [loc EXCEPT ![t].size = n, ![t].old = freeptr]
    BY <1>6 DEF Allocate
  <2>2. n \in Offsets
    BY <1>0, <1>1, SizesAssumption DEF Header
  <2> QED
    BY <1>4, <2>1, <2>2
<1>7. ASSUME NEW t \in Threads, GetNext(t) PROVE SizeInv'
  <2> DEFINE p == ProcessOf[t]
  <2>1. p \in Processes /\ loc' = [loc EXCEPT ![t].size = count[p]]
    BY <1>7, Constants DEF GetNext
  <2>2. count[p] + Cardinality(Counting(p)) <= Len(delivered[p])
    BY <2>1 DEF ReadersInv, IterInv
  <2>3. Len(delivered[p]) <= freeptr \div (Header + 1)
    BY <2>1, DeliveredFit
  <2>4. count[p] \in Nat /\ Len(delivered[p]) \in Nat /\ Cardinality(Counting(p)) \in Nat
    BY <1>0, <2>1, IterTypes, CountingIsFinite
  <2>5. count[p] \in Offsets
    BY <1>0, <2>2, <2>3, <2>4 DEF Header, Offsets
  <2> QED
    BY <1>4, <2>1, <2>5
<1>8. ASSUME NEW t \in Threads, WriterNext(t), ~AllocateLoop(t), ~Allocate(t) PROVE SizeInv'
  BY <1>2, <1>3, <1>8 DEF WriterNext, Publish, WasteRest, WriteHeader, MakeIterable, LoadTail,
     LinkAfterTail, SwingTail, HelpTail, Discard, Release, ClearMemory, FinishRelease, FindFree,
     Reuse
<1>9. ASSUME NEW t \in Threads, ReaderNext(t), ~GetNext(t) PROVE SizeInv'
  BY <1>2, <1>3, <1>9 DEF ReaderNext, LoadLast, LoadNext, AdvanceLast, CountRecord, Reset
<1>10. ASSUME NEW p \in Processes, Construct(p) \/ StoreMetadata(p) \/ Die(p) PROVE SizeInv'
  <2>1. CASE UNCHANGED loc
    BY <2>1 DEF SizeInv
  <2>2. CASE loc' = [t \in Threads |-> IF ProcessOf[t] = p THEN NoLocals ELSE loc[t]]
    BY <1>0, <2>2 DEF SizeInv, NoLocals
  <2> QED
    BY <1>10, <2>1, <2>2 DEF Construct, StoreMetadata, Die
<1>11. CASE UNCHANGED vars
  BY <1>11 DEF vars, SizeInv
<1> QED
  BY <1>5, <1>6, <1>7, <1>8, <1>9, <1>10, <1>11 DEF Next, Threads

LEMMA ReadersStay == Spec => [](ReadersInv /\ SizeInv)
<1>1. Init => ReadersInv /\ SizeInv
  BY InitiallyRead, Constants DEF Init, SizeInv, NoLocals
<1>2. ReadersInv /\ SizeInv /\ [Next]_vars => (ReadersInv /\ SizeInv)'
  BY StepsKeepReadersInv, StepsKeepSizeInv
<1> QED
  BY <1>1, <1>2, PTL DEF Spec

\* All that is shared and all that threads remember keeps its type: freeptr and
\* what threads compute from it stay within the segment, references are those
\* of blocks (persistent_memory_allocator.cpp:666, 712, 873).
THEOREM TypesHold == Spec => []TypeOK
<1>1. ReadersInv /\ SizeInv => TypeOK
  <2> SUFFICES ASSUME ReadersInv, SizeInv PROVE TypeOK
    OBVIOUS
  <2>1. SegTypes
    BY DEF ReadersInv, UseInv, BlockInv, SegmentInv
  <2>2. loc \in [Threads -> [ref : Offsets, size : Offsets, old : Offsets, new : Offsets]]
    BY <2>1 DEF SegTypes, SizeInv
  <2> QED
    BY <2>1, <2>2, Constants DEF SegTypes, TypeOK, Links
<1> QED
  BY <1>1, ReadersStay, PTL

LEMMA AccessStays == FirstPageHasRoom => (Spec => []AccessInv)
<1> SUFFICES ASSUME FirstPageHasRoom PROVE Spec => []AccessInv
  OBVIOUS
<1>1. Init => AccessInv
  BY InitiallyRead DEF Init, AccessInv, TrustInv, RoomInv
<1>2. AccessInv /\ [Next]_vars => AccessInv'
  <2> SUFFICES ASSUME AccessInv, [Next]_vars PROVE AccessInv'
    OBVIOUS
  <2>1. SegmentInv
    BY DEF AccessInv, ReadersInv, UseInv, BlockInv
  <2> QED
    BY <2>1, StepsKeepReadersInv, StepsKeepRoomInv, StepsKeepTrustInv DEF AccessInv
<1> QED
  BY <1>1, <1>2, PTL DEF Spec

\* What threads and dying processes leave behind is never taken for corruption
\* where blocks are allocated, linked and iterated: only a constructor may find
\* that the process that created the segment died before it was done
\* (persistent_memory_allocator.cpp:416, 716, 728).
THEOREM OnlyConstructorsFindCorruption == FirstPageHasRoom => (Spec => CorruptionFoundOnAttach)
<1> SUFFICES ASSUME FirstPageHasRoom PROVE Spec => CorruptionFoundOnAttach
  OBVIOUS
<1>1. AccessInv /\ [Next]_vars =>
         [("corrupt" \notin flags /\ "corrupt" \in flags') =>
             \E p \in Processes : proc[p] \in {"out", "dead"} /\ proc'[p] # proc[p]]_vars
  <2> SUFFICES ASSUME AccessInv, Next, "corrupt" \notin flags, "corrupt" \in flags'
               PROVE  \E p \in Processes : proc[p] \in {"out", "dead"} /\ proc'[p] # proc[p]
    OBVIOUS
  <2>1. ASSUME NEW t \in Threads, WriterNext(t) \/ ReaderNext(t) PROVE FALSE
    BY <2>1, NothingLooksCorrupt
  <2>2. ASSUME NEW p \in Processes, StoreMetadata(p) \/ Die(p) PROVE FALSE
    BY <2>2 DEF StoreMetadata, Die, segment
  <2>3. PICK p \in Processes : Construct(p)
    BY <2>1, <2>2 DEF Next, Threads
  <2>4. proc[p] \in {"out", "dead"} /\ proc'[p] \in {"attached", "creating"}
    BY <2>3 DEF Construct, AccessInv, ReadersInv, UseInv, BlockInv, SegmentInv, SegTypes
  <2> QED
    BY <2>4
<1> QED
  BY <1>1, AccessStays, PTL DEF Spec, CorruptionFoundOnAttach

-----------------------------------------------------------------------------
(* Walks along the links.                                                    *)

LEMMA Least ==
    ASSUME NEW T \in SUBSET Nat, T # {}
    PROVE  \E x \in T : \A y \in T : x <= y
<1>1. IsWellFoundedOn(OpToRel(<, Nat), Nat)
  BY NatLessThanWellFounded
<1>2. PICK x \in T : \A y \in T : ~(<<y, x>> \in OpToRel(<, Nat))
  BY <1>1, WFMin
<1>3. \A y \in T : ~(y < x)
  BY <1>2 DEF OpToRel
<1>4. \A y \in T : x <= y
  BY <1>3
<1> QED
  BY <1>4

\* Hop for any links f.
Walk(f) == CHOOSE h : h = [n \in Nat |-> IF n = 0 THEN Queue ELSE f[h[n - 1]]]

\* The first n steps of it.
Walks(f, n, g) == g[0] = Queue /\ \A i \in 1..n : g[i] = f[g[i - 1]]

LEMMA WalksExist ==
    ASSUME NEW f, NEW m \in Nat
    PROVE  \E g : Walks(f, m, g)
<1> DEFINE T == {n \in Nat : ~ \E g : Walks(f, n, g)}
<1> SUFFICES ASSUME m \in T PROVE FALSE
  OBVIOUS
<1>1. PICK n \in T : \A k \in T : n <= k
  <2>1. T \in SUBSET Nat /\ T # {}
    OBVIOUS
  <2> HIDE DEF T
  <2> QED
    BY <2>1, Least
<1>2. n \in Nat /\ ~ \E g : Walks(f, n, g)
  OBVIOUS
<1>3. CASE n = 0
  <2>1. Walks(f, 0, [i \in 0..0 |-> Queue])
    BY DEF Walks
  <2> QED
    BY <1>2, <1>3, <2>1
<1>4. CASE n # 0
  <2>1. n - 1 \in Nat /\ n - 1 \notin T
    BY <1>1, <1>2, <1>4
  <2>2. PICK g : Walks(f, n - 1, g)
    BY <2>1
  <2>3. PICK h : h = [i \in 0..n |-> IF i < n THEN g[i] ELSE f[g[n - 1]]]
    OBVIOUS
  <2>4. h[0] = Queue
    BY <1>2, <1>4, <2>2, <2>3 DEF Walks
  <2>5. ASSUME NEW i \in 1..n PROVE h[i] = f[h[i - 1]]
    <3>1. i - 1 \in 0..n /\ i - 1 < n /\ i \in 0..n
      BY <1>2, <2>5
    <3>2. h[i - 1] = g[i - 1]
      BY <2>3, <3>1
    <3>3. CASE i = n
      BY <1>2, <2>3, <3>1, <3>2, <3>3
    <3>4. CASE i # n
      <4>1. i \in 1..(n - 1) /\ i < n
        BY <1>2, <2>5, <3>4
      <4> QED
        BY <2>2, <2>3, <3>1, <3>2, <4>1 DEF Walks
    <3> QED
      BY <3>3, <3>4
  <2>6. Walks(f, n, h)
    BY <2>4, <2>5 DEF Walks
  <2> QED
    BY <1>2, <2>6
<1> QED
  BY <1>3, <1>4

LEMMA WalksAgree ==
    ASSUME NEW f, NEW n \in Nat, NEW m \in Nat, NEW g, NEW h, Walks(f, n, g), Walks(f, m, h),
           NEW k \in Nat, k <= n, k <= m
    PROVE  g[k] = h[k]
<1> DEFINE T == {i \in 0..k : g[i] # h[i]}
<1> SUFFICES ASSUME k \in T PROVE FALSE
  OBVIOUS
<1>1. PICK i \in T : \A j \in T : i <= j
  <2>1. T \in SUBSET Nat /\ T # {}
    OBVIOUS
  <2> HIDE DEF T
  <2> QED
    BY <2>1, Least
<1>2. i \in 0..k /\ g[i] # h[i]
  OBVIOUS
<1>3. i # 0
  BY <1>2 DEF Walks
<1>4. i - 1 \in 0..k /\ i \in 1..n /\ i \in 1..m /\ ~(i <= i - 1)
  BY <1>2, <1>3
<1>5. g[i - 1] = h[i - 1]
  BY <1>1, <1>4
<1> QED
  BY <1>2, <1>4, <1>5 DEF Walks

LEMMA WalkUnfolds ==
    ASSUME NEW f
    PROVE  Walk(f)[0] = Queue /\ \A n \in Nat : Walk(f)[n + 1] = f[Walk(f)[n]]
<1> DEFINE G(n) == CHOOSE g : Walks(f, n, g)
<1>1. ASSUME NEW n \in Nat PROVE Walks(f, n, G(n))
  BY WalksExist
<1>2. PICK h : h = [n \in Nat |-> G(n)[n]]
  OBVIOUS
<1> HIDE DEF G
<1>3. ASSUME NEW n \in Nat
      PROVE  h[n] = IF n = 0 THEN Queue ELSE f[h[n - 1]]
  <2>1. CASE n = 0
    <3>1. G(0)[0] = Queue
      BY <1>1 DEF Walks
    <3> QED
      BY <1>2, <2>1, <3>1
  <2>2. CASE n # 0
    <3>1. n - 1 \in Nat /\ n \in 1..n /\ n - 1 <= n /\ n - 1 <= n - 1
      BY <2>2
    <3>2. Walks(f, n, G(n)) /\ Walks(f, n - 1, G(n - 1))
      BY <1>1, <3>1
    <3>3. G(n)[n] = f[G(n)[n - 1]]
      BY <3>1, <3>2 DEF Walks
    <3>4. G(n)[n - 1] = G(n - 1)[n - 1]
      BY <3>1, <3>2, WalksAgree
    <3>5. h[n] = G(n)[n] /\ h[n - 1] = G(n - 1)[n - 1]
      BY <1>2, <3>1
    <3> QED
      BY <2>2, <3>3, <3>4, <3>5
  <2> QED
    BY <2>1, <2>2
<1>4. h = [n \in Nat |-> IF n = 0 THEN Queue ELSE f[h[n - 1]]]
  <2>1. h = [n \in Nat |-> h[n]]
    BY <1>2
  <2> QED
    BY <1>3, <2>1
<1>5. Walk(f) = [n \in Nat |-> IF n = 0 THEN Queue ELSE f[Walk(f)[n - 1]]]
  BY <1>4 DEF Walk
<1>6. PICK w : w = Walk(f)
  OBVIOUS
<1>7. w = [n \in Nat |-> IF n = 0 THEN Queue ELSE f[w[n - 1]]]
  BY <1>5, <1>6
<1>8. w[0] = Queue
  BY <1>7
<1>9. ASSUME NEW n \in Nat PROVE w[n + 1] = f[w[n]]
  <2>1. n + 1 \in Nat /\ n + 1 # 0 /\ n + 1 - 1 = n
    OBVIOUS
  <2>2. w[n + 1] = f[w[n + 1 - 1]]
    BY <1>7, <2>1
  <2> QED
    BY <2>1, <2>2
<1> QED
  BY <1>6, <1>8, <1>9

LEMMA HopIsWalk == Hop = Walk(next) /\ Hop' = Walk(next')
BY DEF Hop, Walk

\* Links that form chains: no block follows two.
Chained(f) ==
    /\ f \in [Links -> Links \cup {Null}]
    /\ \A r, s \in Links : f[r] = f[s] /\ f[r] \in Refs => r = s

\* The first n steps from the queue lead to blocks.
Reaches(f, n) == \A i \in 1..n : Walk(f)[i] \in Refs

LEMMA WalkOnLinks ==
    ASSUME NEW f, NEW n \in Nat, Reaches(f, n), NEW i \in 0..n
    PROVE  Walk(f)[i] \in Links /\ (i # 0 => Walk(f)[i] = f[Walk(f)[i - 1]])
<1>1. CASE i = 0
  BY <1>1, WalkUnfolds DEF Links
<1>2. CASE i # 0
  <2>1. i \in 1..n /\ i - 1 \in Nat /\ i - 1 + 1 = i
    BY <1>2
  <2>2. Walk(f)[i - 1 + 1] = f[Walk(f)[i - 1]]
    BY <2>1, WalkUnfolds
  <2> QED
    BY <2>1, <2>2 DEF Reaches, Links
<1> QED
  BY <1>1, <1>2

\* They never lead to the same block twice.
LEMMA WalkIsSimple ==
    ASSUME NEW f, Chained(f), NEW n \in Nat, Reaches(f, n),
           NEW i \in 0..n, NEW j \in 0..n, i < j
    PROVE  Walk(f)[i] # Walk(f)[j]
<1> DEFINE T == {k \in 0..n : \E l \in 0..n : k < l /\ Walk(f)[k] = Walk(f)[l]}
<1> SUFFICES ASSUME Walk(f)[i] = Walk(f)[j] PROVE FALSE
  OBVIOUS
<1>1. PICK k \in T : \A l \in T : k <= l
  <2>1. T \in SUBSET Nat /\ i \in T
    OBVIOUS
  <2> HIDE DEF T
  <2> QED
    BY <2>1, Least
<1>2. PICK l \in 0..n : k < l /\ Walk(f)[k] = Walk(f)[l]
  OBVIOUS
<1>3. k \in 0..n /\ l \in 1..n /\ l # 0 /\ Walk(f)[l] \in Refs
  BY <1>2 DEF Reaches
<1>4. k # 0
  BY <1>2, <1>3, WalkUnfolds, Constants
<1>5. k - 1 \in 0..n /\ l - 1 \in 0..n /\ k - 1 < l - 1 /\ ~(k <= k - 1)
  BY <1>2, <1>3, <1>4
<1>6. /\ Walk(f)[k] = f[Walk(f)[k - 1]] /\ Walk(f)[l] = f[Walk(f)[l - 1]]
      /\ Walk(f)[k - 1] \in Links /\ Walk(f)[l - 1] \in Links
  BY <1>3, <1>4, <1>5, WalkOnLinks
<1>7. Walk(f)[k - 1] = Walk(f)[l - 1]
  BY <1>2, <1>3, <1>6 DEF Chained
<1>8. k - 1 \in T
  BY <1>5, <1>7
<1> QED
  BY <1>1, <1>5, <1>8

\* So they are no more than the blocks.
LEMMA WalkIsShort ==
    ASSUME NEW f, Chained(f), NEW n \in Nat, Reaches(f, n)
    PROVE  n <= MemSize
<1> DEFINE h == [i \in 1..n |-> Walk(f)[i]]
<1>1. MemSize \in Nat /\ Refs \subseteq 1..MemSize
  BY SizesAssumption DEF Refs, MetaSize
<1>2. h \in [1..n -> 1..MemSize]
  BY <1>1 DEF Reaches
<1>3. ASSUME NEW i \in 1..n, NEW j \in 1..n, h[i] = h[j]
      PROVE  i = j
  <2>1. i \in 0..n /\ j \in 0..n /\ i \in Nat /\ j \in Nat
    OBVIOUS
  <2>2. Walk(f)[i] = Walk(f)[j]
    BY <1>3
  <2>3. ~(i < j) /\ ~(j < i)
    BY <2>1, <2>2, WalkIsSimple
  <2> QED
    BY <2>1, <2>3
<1>4. h \in Injection(1..n, 1..MemSize)
  BY <1>2, <1>3 DEF Injection, IsInjective
<1>5. /\ IsFiniteSet(1..n) /\ Cardinality(1..n) = n
      /\ IsFiniteSet(1..MemSize) /\ Cardinality(1..MemSize) = MemSize
  <2>1. /\ IsFiniteSet(1..n) /\ Cardinality(1..n) = IF 1 > n THEN 0 ELSE n - 1 + 1
        /\ IsFiniteSet(1..MemSize)
        /\ Cardinality(1..MemSize) = IF 1 > MemSize THEN 0 ELSE MemSize - 1 + 1
    BY <1>1, FS_Interval
  <2> QED
    BY <1>1, <2>1
<1>6. Cardinality(1..n) <= Cardinality(1..MemSize)
  BY <1>4, <1>5, FS_Injection
<1> QED
  BY <1>5, <1>6

\* The walk comes to an end after n steps.
EndsAt(f, n) ==
    /\ f[Walk(f)[n]] \in {Queue, Null}
    /\ \A i \in 0..(n - 1) : ~(f[Walk(f)[i]] \in {Queue, Null})

LEMMA EndIsUnique ==
    ASSUME NEW f, NEW n \in Nat, NEW m \in Nat, EndsAt(f, n), EndsAt(f, m)
    PROVE  n = m
<1>1. ~(n < m) /\ ~(m < n)
  BY DEF EndsAt
<1> QED
  BY <1>1

LEMMA EndIsReached ==
    ASSUME NEW f, Chained(f), NEW n \in Nat, EndsAt(f, n)
    PROVE  Reaches(f, n)
<1> DEFINE T == {i \in 1..n : Walk(f)[i] \notin Refs}
<1> SUFFICES ASSUME NEW j \in T PROVE FALSE
  BY DEF Reaches
<1>1. PICK i \in T : \A k \in T : i <= k
  <2>1. T \in SUBSET Nat /\ T # {}
    OBVIOUS
  <2> HIDE DEF T
  <2> QED
    BY <2>1, Least
<1>2. i \in 1..n /\ i - 1 \in 0..(n - 1) /\ i - 1 \in Nat /\ i - 1 + 1 = i /\ i - 1 \in 0..(i - 1)
  OBVIOUS
<1>3. Reaches(f, i - 1)
  <2>1. ASSUME NEW k \in 1..(i - 1) PROVE Walk(f)[k] \in Refs
    <3>1. k \in 1..n /\ ~(i <= k)
      BY <1>2
    <3> QED
      BY <1>1, <3>1
  <2> QED
    BY <2>1 DEF Reaches
<1>4. Walk(f)[i - 1] \in Links
  BY <1>2, <1>3, WalkOnLinks
<1>5. f[Walk(f)[i - 1]] \in Refs
  BY <1>2, <1>4 DEF EndsAt, Chained, Links
<1>6. Walk(f)[i - 1 + 1] \in Refs
  BY <1>2, <1>5, WalkUnfolds
<1> QED
  BY <1>2, <1>6

\* Where a walk over blocks finds no other block it ends.
LEMMA EndsThere ==
    ASSUME NEW f, Chained(f), NEW n \in Nat, Reaches(f, n), f[Walk(f)[n]] \notin Refs
    PROVE  EndsAt(f, n)
<1>1. f[Walk(f)[n]] \in {Queue, Null}
  <2>1. Walk(f)[n] \in Links
    BY WalkOnLinks
  <2> QED
    BY <2>1 DEF Chained, Links
<1>2. ASSUME NEW i \in 0..(n - 1) PROVE ~(f[Walk(f)[i]] \in {Queue, Null})
  <2>1. i + 1 \in 1..n /\ i \in Nat
    OBVIOUS
  <2>2. f[Walk(f)[i]] \in Refs
    BY <2>1, WalkUnfolds DEF Reaches
  <2> QED
    BY <2>2, Constants DEF Links
<1> QED
  BY <1>1, <1>2 DEF EndsAt

LEMMA WalkEnds ==
    ASSUME NEW f, Chained(f)
    PROVE  \E n \in 0..MemSize : EndsAt(f, n)
<1> DEFINE T == {n \in Nat : f[Walk(f)[n]] \notin Refs}
<1>0. MemSize \in Nat
  BY Constants
<1>1. T # {}
  <2> SUFFICES ASSUME T = {} PROVE FALSE
    OBVIOUS
  <2>1. ASSUME NEW i \in 1..(MemSize + 1) PROVE Walk(f)[i] \in Refs
    <3>1. i - 1 \in Nat /\ i - 1 + 1 = i
      BY <1>0
    <3>2. f[Walk(f)[i - 1]] \in Refs
      BY <3>1
    <3>3. Walk(f)[i - 1 + 1] = f[Walk(f)[i - 1]]
      BY <3>1, WalkUnfolds
    <3> QED
      BY <3>1, <3>2, <3>3
  <2>2. MemSize + 1 <= MemSize
    BY <1>0, <2>1, WalkIsShort DEF Reaches
  <2> QED
    BY <1>0, <2>2
<1>2. PICK n \in T : \A k \in T : n <= k
  <2>1. T \in SUBSET Nat
    OBVIOUS
  <2> HIDE DEF T
  <2> QED
    BY <1>1, <2>1, Least
<1>3. n \in Nat /\ f[Walk(f)[n]] \notin Refs
  OBVIOUS
<1>4. Reaches(f, n)
  <2>1. ASSUME NEW i \in 1..n PROVE Walk(f)[i] \in Refs
    <3>1. i - 1 \in Nat /\ i - 1 + 1 = i /\ ~(n <= i - 1)
      BY <1>3
    <3>2. f[Walk(f)[i - 1]] \in Refs
      BY <1>2, <3>1
    <3>3. Walk(f)[i - 1 + 1] = f[Walk(f)[i - 1]]
      BY <3>1, WalkUnfolds
    <3> QED
      BY <3>1, <3>2, <3>3
  <2> QED
    BY <2>1 DEF Reaches
<1>5. EndsAt(f, n) /\ n <= MemSize
  BY <1>3, <1>4, EndsThere, WalkIsShort
<1> QED
  BY <1>0, <1>3, <1>5

\* Linked for any links.
Path(f) == [i \in 1..(CHOOSE n \in 0..MemSize : EndsAt(f, n)) |-> Walk(f)[i]]

LEMMA LinkedIsPath == Linked = Path(next) /\ Linked' = Path(next')
BY HopIsWalk DEF Linked, Ended, Path, EndsAt

LEMMA PathEnds ==
    ASSUME NEW f, Chained(f), NEW n \in Nat, EndsAt(f, n)
    PROVE  Path(f) = [i \in 1..n |-> Walk(f)[i]] /\ Path(f) \in Seq(Refs) /\ Len(Path(f)) = n
<1>1. (CHOOSE m \in 0..MemSize : EndsAt(f, m)) = n
  <2>1. PICK m : m = CHOOSE k \in 0..MemSize : EndsAt(f, k)
    OBVIOUS
  <2>2. m \in 0..MemSize /\ EndsAt(f, m)
    BY <2>1, WalkEnds
  <2>3. m \in Nat
    BY <2>2
  <2> QED
    BY <2>1, <2>2, <2>3, EndIsUnique
<1>2. Path(f) = [i \in 1..n |-> Walk(f)[i]]
  BY <1>1 DEF Path
<1>3. Reaches(f, n)
  BY EndIsReached
<1>4. PICK s : s = [i \in 1..n |-> Walk(f)[i]]
  OBVIOUS
<1>5. s \in [1..n -> Refs]
  BY <1>3, <1>4 DEF Reaches
<1> QED
  BY <1>2, <1>4, <1>5

\* What becomes of links: none is changed once it leads to a block.
Grows(f, g) == \A r \in Links : f[r] \in Refs => g[r] = f[r]

LEMMA WalkStays ==
    ASSUME NEW f, NEW g, Grows(f, g), NEW n \in Nat, Reaches(f, n)
    PROVE  Reaches(g, n) /\ \A i \in 0..n : Walk(g)[i] = Walk(f)[i]
<1> DEFINE T == {i \in 0..n : Walk(g)[i] # Walk(f)[i]}
<1>1. T = {}
  <2> SUFFICES ASSUME NEW j \in T PROVE FALSE
    OBVIOUS
  <2>1. PICK i \in T : \A k \in T : i <= k
    <3>1. T \in SUBSET Nat /\ T # {}
      OBVIOUS
    <3> HIDE DEF T
    <3> QED
      BY <3>1, Least
  <2>2. i \in 0..n /\ Walk(g)[i] # Walk(f)[i]
    OBVIOUS
  <2>3. i # 0
    BY <2>2, WalkUnfolds
  <2>4. i - 1 \in 0..n /\ i - 1 \in Nat /\ i - 1 + 1 = i /\ ~(i <= i - 1) /\ i \in 1..n
    BY <2>2, <2>3
  <2>5. Walk(g)[i - 1] = Walk(f)[i - 1]
    BY <2>1, <2>4
  <2>6. Walk(f)[i] = f[Walk(f)[i - 1]] /\ Walk(f)[i - 1] \in Links /\ Walk(f)[i] \in Refs
    BY <2>3, <2>4, WalkOnLinks DEF Reaches
  <2>7. g[Walk(f)[i - 1]] = Walk(f)[i]
    BY <2>6 DEF Grows
  <2>8. Walk(g)[i - 1 + 1] = g[Walk(g)[i - 1]]
    BY <2>4, WalkUnfolds
  <2> QED
    BY <2>2, <2>4, <2>5, <2>7, <2>8
<1>2. \A i \in 0..n : Walk(g)[i] = Walk(f)[i]
  BY <1>1
<1>3. Reaches(g, n)
  BY <1>2 DEF Reaches
<1> QED
  BY <1>2, <1>3

\* Nothing is linked: the path stays.
LEMMA PathStays ==
    ASSUME NEW f, NEW g, Chained(f), Chained(g), Grows(f, g),
           \A r \in Links : f[r] \notin Refs => g[r] \notin Refs
    PROVE  Path(g) = Path(f)
<1>1. PICK n \in 0..MemSize : EndsAt(f, n)
  BY WalkEnds
<1>2. n \in Nat /\ Reaches(f, n)
  BY <1>1, EndIsReached
<1>3. Reaches(g, n) /\ \A i \in 0..n : Walk(g)[i] = Walk(f)[i]
  BY <1>2, WalkStays
<1>4. EndsAt(g, n)
  <2>1. Walk(f)[n] \in Links /\ n \in 0..n
    BY <1>2, WalkOnLinks
  <2>2. f[Walk(f)[n]] \notin Refs
    BY <1>1, Constants DEF EndsAt, Links
  <2>3. g[Walk(g)[n]] \notin Refs
    BY <1>3, <2>1, <2>2
  <2> QED
    BY <1>2, <1>3, <2>3, EndsThere
<1>5. /\ Path(f) = [i \in 1..n |-> Walk(f)[i]]
      /\ Path(g) = [i \in 1..n |-> Walk(g)[i]]
  BY <1>1, <1>2, <1>4, PathEnds
<1> QED
  BY <1>2, <1>3, <1>5

\* A block r is linked after s.
LinksTo(f, g, s, r) == g = [f EXCEPT ![s] = r]

\* A block is linked after the last one: it is appended.
LEMMA PathGrows ==
    ASSUME NEW f, NEW g, Chained(f), Chained(g), NEW n \in Nat, EndsAt(f, n), NEW r \in Refs,
           LinksTo(f, g, Walk(f)[n], r), f[r] \notin Refs, \A s \in Links : f[s] # r
    PROVE  /\ Path(g) = Append(Path(f), r)
           /\ r \notin {Path(f)[i] : i \in DOMAIN Path(f)}
<1>0. Reaches(f, n) /\ n \in 0..n
  BY EndIsReached
<1>1. Walk(f)[n] \in Links /\ f \in [Links -> Links \cup {Null}]
  BY <1>0, WalkOnLinks DEF Chained
<1>2. f[Walk(f)[n]] \notin Refs /\ Queue \notin Refs /\ r \in Links
  BY Constants DEF EndsAt, Links
<1>3. Grows(f, g)
  BY <1>1, <1>2 DEF Grows, LinksTo
<1>4. Reaches(g, n) /\ \A i \in 0..n : Walk(g)[i] = Walk(f)[i]
  BY <1>0, <1>3, WalkStays
<1>5. Walk(g)[n + 1] = r
  <2>1. Walk(g)[n + 1] = g[Walk(g)[n]] /\ Walk(g)[n] = Walk(f)[n]
    BY <1>0, <1>4, WalkUnfolds
  <2> QED
    BY <1>1, <2>1 DEF LinksTo
<1>6. ASSUME NEW i \in 1..n PROVE Walk(f)[i] # r
  <2>1. i \in 0..n /\ i # 0 /\ i - 1 \in 0..n
    OBVIOUS
  <2>2. Walk(f)[i] = f[Walk(f)[i - 1]] /\ Walk(f)[i - 1] \in Links
    BY <1>0, <2>1, WalkOnLinks
  <2> QED
    BY <2>2
<1>7. Walk(f)[n] # r
  <2>1. CASE n = 0
    BY <1>2, <2>1, WalkUnfolds
  <2>2. CASE n # 0
    BY <1>6, <2>2
  <2> QED
    BY <2>1, <2>2
<1>8. Reaches(g, n + 1)
  <2>1. ASSUME NEW i \in 1..(n + 1) PROVE Walk(g)[i] \in Refs
    <3>1. CASE i = n + 1
      BY <1>5, <3>1
    <3>2. CASE i # n + 1
      <4>1. i \in 1..n
        BY <3>2
      <4> QED
        BY <1>4, <4>1 DEF Reaches
    <3> QED
      BY <3>1, <3>2
  <2> QED
    BY <2>1 DEF Reaches
<1>9. EndsAt(g, n + 1)
  <2>1. g[Walk(g)[n + 1]] \notin Refs
    BY <1>1, <1>2, <1>5, <1>7 DEF LinksTo
  <2>2. n + 1 \in Nat
    OBVIOUS
  <2> QED
    BY <1>8, <2>1, <2>2, EndsThere
<1>10. /\ Path(f) = [i \in 1..n |-> Walk(f)[i]] /\ Path(f) \in Seq(Refs) /\ Len(Path(f)) = n
       /\ Path(g) = [i \in 1..(n + 1) |-> Walk(g)[i]]
  BY <1>9, PathEnds
<1>11. Path(g) = Append(Path(f), r)
  <2>1. PICK s \in Seq(Refs) : s = Path(f)
    BY <1>10
  <2>2. Append(s, r) = [i \in 1..(n + 1) |-> IF i <= n THEN s[i] ELSE r]
    BY <1>10, <2>1
  <2>3. ASSUME NEW i \in 1..(n + 1) PROVE Walk(g)[i] = IF i <= n THEN s[i] ELSE r
    <3>1. CASE i = n + 1
      BY <1>5, <3>1
    <3>2. CASE i # n + 1
      <4>1. i \in 1..n /\ i \in 0..n
        BY <3>2
      <4> QED
        BY <1>4, <1>10, <2>1, <4>1
    <3> QED
      BY <3>1, <3>2
  <2> QED
    BY <1>10, <2>1, <2>2, <2>3
<1>12. r \notin {Path(f)[i] : i \in DOMAIN Path(f)}
  BY <1>6, <1>10
<1> QED
  BY <1>11, <1>12

\* The blocks that a walk comes by.
OnChain(f, r) == \E n \in Nat : Walk(f)[n] = r /\ Reaches(f, n)

LEMMA ChainStays ==
    ASSUME NEW f, NEW g, Grows(f, g), NEW r, OnChain(f, r)
    PROVE  OnChain(g, r)
<1>1. PICK n \in Nat : Walk(f)[n] = r /\ Reaches(f, n)
  BY DEF OnChain
<1>2. n \in 0..n
  BY <1>1
<1> QED
  BY <1>1, <1>2, WalkStays DEF OnChain

LEMMA ChainGoesOn ==
    ASSUME NEW f, NEW r, OnChain(f, r), f[r] \in Refs
    PROVE  OnChain(f, f[r])
<1>1. PICK n \in Nat : Walk(f)[n] = r /\ Reaches(f, n)
  BY DEF OnChain
<1>2. Walk(f)[n + 1] = f[r] /\ n + 1 \in Nat
  BY <1>1, WalkUnfolds
<1>3. Reaches(f, n + 1)
  <2>1. ASSUME NEW i \in 1..(n + 1) PROVE Walk(f)[i] \in Refs
    <3>1. i = n + 1 \/ i \in 1..n
      BY <1>1
    <3> QED
      BY <1>1, <1>2, <3>1 DEF Reaches
  <2> QED
    BY <2>1 DEF Reaches
<1> QED
  BY <1>2, <1>3 DEF OnChain

\* A block on the chain is the queue or follows another one.
LEMMA ChainComesFrom ==
    ASSUME NEW f, NEW r, OnChain(f, r)
    PROVE  r = Queue \/ \E s \in Links : f[s] = r
<1>1. PICK n \in Nat : Walk(f)[n] = r /\ Reaches(f, n)
  BY DEF OnChain
<1>2. CASE n = 0
  BY <1>1, <1>2, WalkUnfolds
<1>3. CASE n # 0
  <2>1. n \in 0..n /\ n - 1 \in 0..n
    BY <1>1, <1>3
  <2>2. Walk(f)[n] = f[Walk(f)[n - 1]] /\ Walk(f)[n - 1] \in Links
    BY <1>1, <1>3, <2>1, WalkOnLinks
  <2> QED
    BY <1>1, <2>2
<1> QED
  BY <1>2, <1>3

-----------------------------------------------------------------------------
(* Tails are on the chain, and what is not linked yet ends nothing.          *)

TailInv(t) ==
    /\ pc[t] \in {"link", "help"} => OnChain(next, loc[t].old)
    /\ pc[t] = "help" => OnChain(next, loc[t].new)
    /\ pc[t] = "swing" => OnChain(next, loc[t].ref)
    /\ pc[t] \in Unlinked => next[loc[t].ref] = Queue

LogInv ==
    /\ ReadersInv
    /\ tailptr # Null => OnChain(next, tailptr)
    /\ \A t \in Threads : TailInv(t)

LEMMA LinksGrow ==
    ASSUME UseInv, ChainInv, [Next]_vars
    PROVE  Chained(next) /\ Grows(next, next')
<1>1. SegmentInv
  BY DEF UseInv, BlockInv
<1>2. Chained(next)
  BY <1>1 DEF Chained, ChainInv, SegmentInv, SegTypes
<1>3. \A r \in Links : next[r] \in Refs => next'[r] = next[r]
  BY <1>1, LinksStay
<1>4. Grows(next, next')
  BY <1>3 DEF Grows
<1> QED
  BY <1>2, <1>4

\* How a thread comes to know a tail.
LEMMA TailSteps ==
    ASSUME SegmentInv, NEW t \in Threads, WriterNext(t) \/ ReaderNext(t),
           pc'[t] \in {"link", "help", "swing"}
    PROVE  \/ /\ pc[t] = "loadTail" /\ pc'[t] = "link" /\ loc'[t].old = tailptr
           \/ /\ pc[t] = "link" /\ pc'[t] = "swing" /\ loc'[t].ref = loc[t].ref
              /\ next' = [next EXCEPT ![loc[t].old] = loc[t].ref]
           \/ /\ pc[t] = "link" /\ pc'[t] = "help" /\ next[loc[t].old] # Queue
              /\ loc'[t].old = loc[t].old /\ loc'[t].new = next[loc[t].old]
           \/ /\ pc[t] = "help" /\ pc'[t] = "link" /\ loc'[t].old \in {loc[t].old, tailptr}
<1>0. /\ pc \in [Threads -> PCs] /\ loc \in [Threads -> Locals]
  BY DEF SegmentInv, SegTypes, Locals
<1>1. CASE AllocateLoop(t)
  BY <1>0, <1>1, LoopSteps DEF Return, Goto
<1>2. CASE /\ WriterNext(t) /\ ~AllocateLoop(t) /\ ~Publish(t)
  BY <1>0, <1>2 DEF WriterNext, Allocate, WasteRest, WriteHeader, Discard, Release, ClearMemory,
         FinishRelease, FindFree, Reuse, MakeIterable, Return, Goto
<1>3. CASE LoadTail(t)
  BY <1>0, <1>3 DEF LoadTail, At, Goto, Locals
<1>4. CASE LinkAfterTail(t)
  BY <1>0, <1>4 DEF LinkAfterTail, At, Goto, Return, Locals
<1>5. CASE SwingTail(t)
  BY <1>0, <1>5 DEF SwingTail, Goto, Return
<1>6. CASE HelpTail(t)
  BY <1>0, <1>6 DEF HelpTail, At, Goto, Locals
<1>7. CASE ReaderNext(t)
  BY <1>0, <1>7 DEF ReaderNext, GetNext, LoadLast, LoadNext, AdvanceLast, CountRecord, Reset,
         Return, Goto, At
<1> QED
  BY <1>1, <1>2, <1>3, <1>4, <1>5, <1>6, <1>7 DEF Publish

\* What happens to tailptr.
LEMMA TailptrSteps ==
    ASSUME [Next]_vars
    PROVE  \/ tailptr' \in {tailptr, Queue}
           \/ \E t \in Threads : pc[t] = "swing" /\ tailptr' = loc[t].ref
           \/ \E t \in Threads : pc[t] = "help" /\ tailptr' = loc[t].new
<1>1. ASSUME NEW t \in Writers, WriterNext(t), ~SwingTail(t), ~HelpTail(t)
      PROVE  UNCHANGED tailptr
  BY <1>1 DEF WriterNext, Publish, Allocate, AllocateLoop, WasteRest, WriteHeader, MakeIterable,
              LoadTail, LinkAfterTail, Discard, Release, ClearMemory, FinishRelease, FindFree,
              Reuse, segment
<1>2. ASSUME NEW t \in Threads, SwingTail(t)
      PROVE  tailptr' = tailptr \/ (pc[t] = "swing" /\ tailptr' = loc[t].ref)
  BY <1>2 DEF SwingTail, At
<1>3. ASSUME NEW t \in Threads, HelpTail(t)
      PROVE  tailptr' = tailptr \/ (pc[t] = "help" /\ tailptr' = loc[t].new)
  BY <1>3 DEF HelpTail, At
<1>4. ASSUME NEW t \in Readers, ReaderNext(t)
      PROVE  UNCHANGED tailptr
  BY <1>4 DEF ReaderNext, GetNext, LoadLast, LoadNext, AdvanceLast, CountRecord, Reset, segment
<1>5. ASSUME NEW p \in Processes, Construct(p) \/ StoreMetadata(p) \/ Die(p)
      PROVE  tailptr' \in {tailptr, Queue}
  BY <1>5 DEF Construct, StoreMetadata, Die, segment
<1>6. CASE UNCHANGED vars
  BY <1>6 DEF vars, segment
<1> QED
  BY <1>1, <1>2, <1>3, <1>4, <1>5, <1>6 DEF Next, Threads

\* A block that is not linked yet has no successor.
LEMMA UnlinkedEnds ==
    ASSUME LogInv, [Next]_vars, NEW u \in Threads, pc'[u] \in Unlinked
    PROVE  next'[loc'[u].ref] = Queue
<1>0. /\ SegmentInv /\ ChainInv /\ TailInv(u) /\ next \in [Links -> Links \cup {Null}]
      /\ Queue \notin Refs /\ Refs \subseteq Links
  BY Constants DEF LogInv, ReadersInv, UseInv, BlockInv, SegmentInv, SegTypes, Links
<1>1. CASE pc[u] \in Unlinked /\ loc'[u].ref = loc[u].ref
  <2>1. next[loc[u].ref] = Queue /\ loc[u].ref \in Refs
    BY <1>0, <1>1 DEF TailInv, SegmentInv, PlaceInv, Unlinked, Linking
  <2>2. ~ \E t \in Threads : pc[t] = "link" /\ loc[u].ref = loc[t].old
    <3> SUFFICES ASSUME NEW t \in Threads, pc[t] = "link", loc[u].ref = loc[t].old PROVE FALSE
      OBVIOUS
    <3>1. OnChain(next, loc[u].ref)
      BY DEF LogInv, TailInv
    <3>2. \E s \in Links : next[s] = loc[u].ref
      BY <1>0, <2>1, <3>1, ChainComesFrom
    <3> QED
      BY <1>0, <1>1, <3>2 DEF ChainInv
  <2> QED
    BY <1>0, <1>1, <2>1, <2>2, LinksStay
<1>2. CASE /\ pc[u] = "publish" /\ next' = [next EXCEPT ![loc[u].ref] = Queue]
           /\ loc'[u].ref = loc[u].ref
  <2>1. loc[u].ref \in Links
    BY <1>0, <1>2 DEF SegmentInv, PlaceInv
  <2> QED
    BY <1>0, <1>2, <2>1
<1> QED
  BY <1>0, <1>1, <1>2, UnlinkedBefore

LEMMA StepsKeepTail ==
    ASSUME LogInv, [Next]_vars, tailptr' # Null
    PROVE  OnChain(next', tailptr')
<1>1. Grows(next, next')
  BY LinksGrow DEF LogInv, ReadersInv
<1>2. OnChain(next', Queue)
  <2>1. 0 \in Nat /\ Reaches(next', 0)
    BY DEF Reaches
  <2> QED
    BY <2>1, WalkUnfolds DEF OnChain
<1>3. CASE tailptr' = tailptr
  BY <1>1, <1>3, ChainStays DEF LogInv
<1>4. ASSUME NEW t \in Threads, pc[t] = "swing" /\ tailptr' = loc[t].ref
      PROVE  OnChain(next', tailptr')
  BY <1>1, <1>4, ChainStays DEF LogInv, TailInv
<1>5. ASSUME NEW t \in Threads, pc[t] = "help" /\ tailptr' = loc[t].new
      PROVE  OnChain(next', tailptr')
  BY <1>1, <1>5, ChainStays DEF LogInv, TailInv
<1> QED
  BY <1>2, <1>3, <1>4, <1>5, TailptrSteps

LEMMA StepsKeepKnownTails ==
    ASSUME LogInv, [Next]_vars, NEW u \in Threads
    PROVE  /\ pc'[u] \in {"link", "help"} => OnChain(next', loc'[u].old)
           /\ pc'[u] = "help" => OnChain(next', loc'[u].new)
           /\ pc'[u] = "swing" => OnChain(next', loc'[u].ref)
<1>0. /\ SegmentInv /\ ChainInv /\ UseInv /\ TailInv(u) /\ PlaceInv(u)
      /\ next \in [Links -> Links \cup {Null}] /\ Queue \notin Refs /\ Queue # Null
      /\ Grows(next, next')
  BY Constants, LinksGrow DEF LogInv, ReadersInv, UseInv, BlockInv, SegmentInv, SegTypes, Links
<1>1. CASE pc'[u] = pc[u] /\ loc'[u] = loc[u]
  BY <1>0, <1>1, ChainStays DEF TailInv
<1>2. CASE pc'[u] = "idle"
  BY <1>2
<1>3. ASSUME WriterNext(u) \/ ReaderNext(u), pc'[u] \in {"link", "help", "swing"}
      PROVE  /\ pc'[u] \in {"link", "help"} => OnChain(next', loc'[u].old)
             /\ pc'[u] = "help" => OnChain(next', loc'[u].new)
             /\ pc'[u] = "swing" => OnChain(next', loc'[u].ref)
  <2>1. CASE pc[u] = "loadTail" /\ pc'[u] = "link" /\ loc'[u].old = tailptr
    <3>1. tailptr # Null
      BY <1>0, <2>1 DEF PlaceInv, Started, Linking, Complete
    <3>2. OnChain(next, tailptr)
      BY <3>1 DEF LogInv
    <3> QED
      BY <1>0, <2>1, <3>2, ChainStays
  <2>2. CASE /\ pc[u] = "link" /\ pc'[u] = "swing" /\ loc'[u].ref = loc[u].ref
             /\ next' = [next EXCEPT ![loc[u].old] = loc[u].ref]
    <3>1. OnChain(next, loc[u].old) /\ loc[u].old \in Links /\ loc[u].ref \in Refs
      BY <1>0, <2>2 DEF TailInv, PlaceInv, Linking
    <3>2. OnChain(next', loc[u].old)
      BY <1>0, <3>1, ChainStays
    <3>3. next'[loc[u].old] = loc[u].ref
      BY <1>0, <2>2, <3>1
    <3>4. OnChain(next', next'[loc[u].old])
      BY <3>1, <3>2, <3>3, ChainGoesOn
    <3> QED
      BY <2>2, <3>3, <3>4
  <2>3. CASE /\ pc[u] = "link" /\ pc'[u] = "help" /\ next[loc[u].old] # Queue
             /\ loc'[u].old = loc[u].old /\ loc'[u].new = next[loc[u].old]
    <3>1. /\ OnChain(next, loc[u].old) /\ loc[u].old \in Links
          /\ next[loc[u].old] # Null
      BY <1>0, <2>3 DEF TailInv, PlaceInv
    <3>2. next[loc[u].old] \in Refs
      BY <1>0, <2>3, <3>1 DEF Links
    <3>3. OnChain(next, next[loc[u].old])
      BY <3>1, <3>2, ChainGoesOn
    <3> QED
      BY <1>0, <2>3, <3>1, <3>3, ChainStays
  <2>4. CASE pc[u] = "help" /\ pc'[u] = "link" /\ loc'[u].old \in {loc[u].old, tailptr}
    <3>1. tailptr # Null /\ OnChain(next, loc[u].old)
      BY <1>0, <2>4 DEF PlaceInv, Started, Linking, Complete, TailInv
    <3>2. OnChain(next, tailptr)
      BY <3>1 DEF LogInv
    <3> QED
      BY <1>0, <2>4, <3>1, <3>2, ChainStays
  <2> QED
    BY <1>0, <1>3, <2>1, <2>2, <2>3, <2>4, TailSteps
<1>4. ASSUME NEW t \in Threads \ {u}, WriterNext(t) \/ ReaderNext(t)
      PROVE  pc'[u] = pc[u] /\ loc'[u] = loc[u]
  <2>1. t \in Threads /\ u \in Threads \ {t}
    OBVIOUS
  <2> QED
    BY <1>0, <1>4, <2>1, OnlyOneMoves
<1>5. ASSUME NEW p \in Processes, Construct(p) \/ StoreMetadata(p) \/ Die(p)
      PROVE  pc'[u] = "idle" \/ (pc'[u] = pc[u] /\ loc'[u] = loc[u])
  BY <1>5, ProcessesMove
<1>6. CASE UNCHANGED vars
  BY <1>1, <1>6 DEF vars
<1> QED
  BY <1>1, <1>2, <1>3, <1>4, <1>5, <1>6 DEF Next, Threads

LEMMA StepsKeepLogInv == LogInv /\ [Next]_vars => LogInv'
<1> SUFFICES ASSUME LogInv, [Next]_vars PROVE LogInv'
  OBVIOUS
<1>1. ReadersInv'
  BY StepsKeepReadersInv DEF LogInv
<1>2. (tailptr # Null => OnChain(next, tailptr))'
  BY StepsKeepTail
<1>3. ASSUME NEW t \in Threads PROVE TailInv(t)'
  BY <1>3, StepsKeepKnownTails, UnlinkedEnds DEF TailInv
<1> QED
  BY <1>1, <1>2, <1>3 DEF LogInv

LEMMA InitiallyLogged == Init => LogInv
BY InitiallyRead DEF Init, LogInv, TailInv, Unlinked

-----------------------------------------------------------------------------
(* The refinement of the log.                                                *)

\* What has been delivered is a beginning of the walk.
LEMMA DeliveredIsWalked ==
    ASSUME ReadersInv, NEW p \in Processes
    PROVE  /\ Reaches(next, Len(delivered[p]))
           /\ last[p] = Walk(next)[Len(delivered[p])]
<1>0. /\ SegmentInv /\ IterInv(p) /\ Len(delivered[p]) \in Nat
      /\ \A i \in 1..Len(delivered[p]) : delivered[p][i] \in Refs
      /\ \A i \in 1..Len(delivered[p]) : delivered[p][i] = next[Before(p, i)]
      /\ last[p] = Before(p, Len(delivered[p]) + 1)
  <2>1. SegmentInv /\ IterInv(p)
    BY DEF ReadersInv, UseInv, BlockInv
  <2> QED
    BY <2>1, IterTypes DEF IterInv
<1>1. PICK n \in Nat : n = Len(delivered[p])
  BY <1>0
<1> DEFINE T == {i \in 0..n : Before(p, i + 1) # Walk(next)[i]}
<1>2. ASSUME NEW i \in 1..n
      PROVE  Before(p, i + 1) = delivered[p][i]
  <2>1. i + 1 # 1 /\ i + 1 - 1 = i
    OBVIOUS
  <2> QED
    BY <2>1 DEF Before
<1>3. T = {}
  <2> SUFFICES ASSUME NEW j \in T PROVE FALSE
    OBVIOUS
  <2>1. PICK i \in T : \A k \in T : i <= k
    <3>1. T \in SUBSET Nat /\ T # {}
      OBVIOUS
    <3> HIDE DEF T
    <3> QED
      BY <3>1, Least
  <2>2. i \in 0..n /\ Before(p, i + 1) # Walk(next)[i]
    OBVIOUS
  <2>3. i # 0
    BY <2>2, WalkUnfolds DEF Before
  <2>4. i \in 1..n /\ i - 1 \in 0..n /\ i - 1 + 1 = i /\ ~(i <= i - 1) /\ i - 1 \in Nat
    BY <2>2, <2>3
  <2>5. Before(p, i - 1 + 1) = Walk(next)[i - 1]
    BY <2>1, <2>4
  <2>6. Before(p, i) = Walk(next)[i - 1]
    BY <2>4, <2>5
  <2>7. Before(p, i + 1) = next[Before(p, i)]
    BY <1>0, <1>1, <1>2, <2>4
  <2>8. Walk(next)[i - 1 + 1] = next[Walk(next)[i - 1]]
    BY <2>4, WalkUnfolds
  <2> QED
    BY <2>2, <2>4, <2>6, <2>7, <2>8
<1>4. \A i \in 0..n : Before(p, i + 1) = Walk(next)[i]
  BY <1>3
<1>5. ASSUME NEW i \in 1..n PROVE Walk(next)[i] \in Refs
  <2>1. i \in 0..n
    OBVIOUS
  <2> QED
    BY <1>0, <1>1, <1>2, <1>4, <2>1
<1>6. last[p] = Walk(next)[n]
  <2>1. n \in 0..n
    OBVIOUS
  <2> QED
    BY <1>0, <1>1, <1>4, <2>1
<1> QED
  BY <1>1, <1>5, <1>6 DEF Reaches

\* What happens to what has been delivered.
LEMMA DeliverySteps ==
    ASSUME [Next]_vars
    PROVE  \/ UNCHANGED delivered
           \/ /\ UNCHANGED next
              /\ \E p \in Processes : delivered' = [delivered EXCEPT ![p] = <<>>]
           \/ /\ UNCHANGED next
              /\ \E t \in Readers :
                    /\ pc[t] = "advance" /\ last[ProcessOf[t]] = loc[t].old
                    /\ delivered' = [delivered EXCEPT ![ProcessOf[t]] = Append(@, loc[t].new)]
<1>1. ASSUME NEW t \in Writers, WriterNext(t)
      PROVE  UNCHANGED delivered
  BY <1>1 DEF WriterNext, Publish, Allocate, AllocateLoop, WasteRest, WriteHeader, MakeIterable,
              LoadTail, LinkAfterTail, SwingTail, HelpTail, Discard, Release, ClearMemory,
              FinishRelease, FindFree, Reuse, iterators
<1>2. ASSUME NEW t \in Readers, GetNext(t) \/ LoadLast(t) \/ LoadNext(t) \/ CountRecord(t)
      PROVE  UNCHANGED delivered
  BY <1>2 DEF GetNext, LoadLast, LoadNext, CountRecord, iterators
<1>3. ASSUME NEW t \in Readers, AdvanceLast(t)
      PROVE  \/ UNCHANGED delivered
             \/ /\ UNCHANGED next /\ pc[t] = "advance" /\ last[ProcessOf[t]] = loc[t].old
                /\ delivered' = [delivered EXCEPT ![ProcessOf[t]] = Append(@, loc[t].new)]
  BY <1>3 DEF AdvanceLast, At, segment
<1>4. ASSUME NEW t \in Readers, Reset(t)
      PROVE  /\ UNCHANGED next /\ ProcessOf[t] \in Processes
             /\ delivered' = [delivered EXCEPT ![ProcessOf[t]] = <<>>]
  BY <1>4, Constants DEF Reset, FreshIterator, segment, Threads
<1>5. ASSUME NEW p \in Processes, Construct(p)
      PROVE  UNCHANGED next /\ delivered' = [delivered EXCEPT ![p] = <<>>]
  BY <1>5 DEF Construct, FreshIterator
<1>6. ASSUME NEW p \in Processes, StoreMetadata(p) \/ Die(p)
      PROVE  UNCHANGED delivered
  BY <1>6 DEF StoreMetadata, Die, iterators
<1>7. CASE UNCHANGED vars
  BY <1>7 DEF vars, iterators
<1> QED
  BY <1>1, <1>2, <1>3, <1>4, <1>5, <1>6, <1>7 DEF Next, ReaderNext

\* A step that links no block keeps the log.
LEMMA LogStays ==
    ASSUME LogInv, LogInv', [Next]_vars,
           ~ \E t \in Threads : pc[t] = "link" /\ pc'[t] = "swing" /\ next[loc[t].old] = Queue
                                /\ next' = [next EXCEPT ![loc[t].old] = loc[t].ref]
    PROVE  UNCHANGED Linked
<1>1. /\ SegmentInv /\ Queue \notin Refs /\ next \in [Links -> Links \cup {Null}]
      /\ UseInv /\ ChainInv /\ Null \notin Refs
  BY Constants DEF LogInv, ReadersInv, UseInv, BlockInv, SegmentInv, SegTypes, Links
<1>2. Chained(next) /\ Chained(next') /\ Grows(next, next')
  <2>1. (UseInv /\ ChainInv)'
    BY DEF LogInv, ReadersInv
  <2>2. Chained(next')
    BY <2>1 DEF UseInv, BlockInv, SegmentInv, SegTypes, Chained, ChainInv
  <2> QED
    BY <1>1, <2>2, LinksGrow
<1>3. \A r \in Links : next[r] \notin Refs => next'[r] \notin Refs
  BY <1>1, LinksStay
<1>4. Path(next') = Path(next)
  BY <1>2, <1>3, PathStays
<1> QED
  BY <1>4, LinkedIsPath

\* A step that links one appends it.
LEMMA LinkingAppends ==
    ASSUME LogInv, LogInv', [Next]_vars, NEW t \in Threads, pc[t] = "link",
           next[loc[t].old] = Queue, next' = [next EXCEPT ![loc[t].old] = loc[t].ref]
    PROVE  \E r \in Refs : Log!AppendRecord(r)
<1>1. /\ SegmentInv /\ Queue \notin Refs /\ next \in [Links -> Links \cup {Null}]
      /\ UseInv /\ ChainInv /\ PlaceInv(t) /\ TailInv(t)
  BY Constants DEF LogInv, ReadersInv, UseInv, BlockInv, SegmentInv, SegTypes, Links
<1>2. Chained(next) /\ Chained(next')
  <2>1. (UseInv /\ ChainInv)'
    BY DEF LogInv, ReadersInv
  <2>2. Chained(next')
    BY <2>1 DEF UseInv, BlockInv, SegmentInv, SegTypes, Chained, ChainInv
  <2> QED
    BY <1>1, <2>2, LinksGrow
<1>3. PICK n \in Nat : Walk(next)[n] = loc[t].old /\ Reaches(next, n)
  BY <1>1 DEF TailInv, OnChain
<1>4. EndsAt(next, n)
  BY <1>1, <1>2, <1>3, EndsThere
<1>5. /\ loc[t].ref \in Refs /\ next[loc[t].ref] = Queue
      /\ \A s \in Links : next[s] # loc[t].ref
  BY <1>1 DEF PlaceInv, Linking, TailInv, Unlinked, ChainInv
<1>6. LinksTo(next, next', Walk(next)[n], loc[t].ref)
  BY <1>3 DEF LinksTo
<1>7. /\ Path(next') = Append(Path(next), loc[t].ref)
      /\ loc[t].ref \notin {Path(next)[i] : i \in DOMAIN Path(next)}
  <2>1. PICK g : g = next'
    OBVIOUS
  <2>2. Chained(g) /\ LinksTo(next, g, Walk(next)[n], loc[t].ref)
    BY <1>2, <1>6, <2>1
  <2>3. next[loc[t].ref] \notin Refs
    BY <1>1, <1>5
  <2>4. /\ Path(g) = Append(Path(next), loc[t].ref)
        /\ loc[t].ref \notin {Path(next)[i] : i \in DOMAIN Path(next)}
    BY <1>2, <1>4, <1>5, <2>2, <2>3, PathGrows
  <2> QED
    BY <2>1, <2>4
<1>8. UNCHANGED delivered
  <2>1. next' # next
    <3>1. loc[t].old \in Links
      BY <1>1 DEF PlaceInv
    <3> QED
      BY <1>1, <1>5, <3>1
  <2> QED
    BY <2>1, DeliverySteps
<1>9. Log!AppendRecord(loc[t].ref)
  BY <1>7, <1>8, LinkedIsPath DEF Log!AppendRecord
<1> QED
  BY <1>5, <1>9

\* An iterator that advances delivers the next record of the log.
LEMMA AdvancingDelivers ==
    ASSUME LogInv, NEW t \in Readers, pc[t] = "advance", last[ProcessOf[t]] = loc[t].old,
           delivered' = [delivered EXCEPT ![ProcessOf[t]] = Append(@, loc[t].new)],
           UNCHANGED Linked
    PROVE  \E p \in Processes : Log!Deliver(p)
<1> DEFINE p == ProcessOf[t]
           n == Len(delivered[p])
<1>1. /\ ReadersInv /\ p \in Processes /\ UseInv /\ ChainInv /\ t \in Threads
      /\ next[loc[t].old] = loc[t].new /\ loc[t].new \in Refs
      /\ delivered \in [Processes -> Seq(Refs)]
  BY Constants DEF LogInv, ReadersInv, ReadInv, UseInv, BlockInv, SegmentInv, SegTypes, PlaceInv,
     Threads
<1>2. n \in Nat /\ Reaches(next, n) /\ last[p] = Walk(next)[n]
  <2>1. delivered[p] \in Seq(Refs)
    BY <1>1
  <2> QED
    BY <1>1, <2>1, DeliveredIsWalked
<1>3. Chained(next)
  BY <1>1 DEF Chained, ChainInv, UseInv, BlockInv, SegmentInv, SegTypes
<1>4. PICK m \in 0..MemSize : EndsAt(next, m)
  BY <1>3, WalkEnds
<1>5. m \in Nat /\ Linked = [i \in 1..m |-> Walk(next)[i]] /\ Len(Linked) = m
  <2>1. m \in Nat
    BY <1>4
  <2> QED
    BY <1>3, <1>4, <2>1, PathEnds, LinkedIsPath
<1> HIDE DEF p, n
<1>6. next[Walk(next)[n]] = loc[t].new
  BY <1>1, <1>2 DEF p
<1>7. n < m
  <2> SUFFICES ASSUME m <= n PROVE FALSE
    BY <1>2, <1>5
  <2>1. CASE m = n
    BY <1>1, <1>4, <1>6, <2>1, Constants DEF EndsAt, Links
  <2>2. CASE m < n
    <3>1. m + 1 \in 1..n
      BY <1>2, <1>5, <2>2
    <3>2. Walk(next)[m + 1] \in Refs /\ Walk(next)[m + 1] = next[Walk(next)[m]]
      BY <1>2, <1>5, <3>1, WalkUnfolds DEF Reaches
    <3> QED
      BY <1>4, <3>2, Constants DEF EndsAt, Links
  <2> QED
    BY <1>2, <1>5, <2>1, <2>2
<1>8. Linked[n + 1] = loc[t].new
  <2>1. n + 1 \in 1..m
    BY <1>2, <1>5, <1>7
  <2>2. Walk(next)[n + 1] = next[Walk(next)[n]]
    BY <1>2, WalkUnfolds
  <2> QED
    BY <1>5, <1>6, <2>1, <2>2
<1>9. delivered' = [delivered EXCEPT ![p] = Append(@, Linked[Len(@) + 1])]
  BY <1>8 DEF p, n
<1>10. Log!Deliver(p)
  BY <1>5, <1>7, <1>9 DEF Log!Deliver, n
<1> QED
  BY <1>1, <1>10 DEF p

\* The linked blocks are a log that only grows at its end, whoever dies between
\* linking a block and moving tailptr, and each iterator delivers it in order
\* without repeating or skipping a block, however its threads race
\* (persistent_memory_allocator.cpp:238, 792, 822;
\* persistent_memory_allocator.h:123, 461).
THEOREM SegmentImplementsLog == Spec => ImplementsLog
<1>1. Init => Log!Init
  <2> SUFFICES ASSUME Init PROVE Log!Init
    OBVIOUS
  <2>1. /\ next = [r \in Links |-> Null] /\ Queue \in Links /\ Null \notin Refs
        /\ delivered = [p \in Processes |-> <<>>]
    BY Constants DEF Init, Links
  <2>2. Chained(next)
    BY <2>1 DEF Chained
  <2>3. EndsAt(next, 0)
    <3>1. next[Walk(next)[0]] = Null
      BY <2>1, WalkUnfolds
    <3> QED
      BY <3>1 DEF EndsAt
  <2>4. Linked \in Seq(Refs) /\ Len(Linked) = 0
    BY <2>2, <2>3, PathEnds, LinkedIsPath
  <2>5. Linked = <<>>
    BY <2>4
  <2> QED
    BY <2>1, <2>5 DEF Log!Init
<1>2. LogInv /\ LogInv' /\ [Next]_vars => [Log!Next]_<<Linked, delivered>>
  <2> SUFFICES ASSUME LogInv, LogInv', [Next]_vars
               PROVE  Log!Next \/ (UNCHANGED Linked /\ UNCHANGED delivered)
    OBVIOUS
  <2>1. CASE \E t \in Threads : pc[t] = "link" /\ pc'[t] = "swing" /\ next[loc[t].old] = Queue
                                /\ next' = [next EXCEPT ![loc[t].old] = loc[t].ref]
    <3>1. \E r \in Refs : Log!AppendRecord(r)
      BY <2>1, LinkingAppends
    <3> QED
      BY <3>1 DEF Log!Next
  <2>2. CASE ~ \E t \in Threads : pc[t] = "link" /\ pc'[t] = "swing" /\ next[loc[t].old] = Queue
                                  /\ next' = [next EXCEPT ![loc[t].old] = loc[t].ref]
    <3>1. UNCHANGED Linked
      BY <2>2, LogStays
    <3>2. ASSUME NEW p \in Processes, delivered' = [delivered EXCEPT ![p] = <<>>]
          PROVE  Log!Restart(p)
      BY <3>1, <3>2 DEF Log!Restart
    <3>3. ASSUME NEW t \in Readers, pc[t] = "advance", last[ProcessOf[t]] = loc[t].old,
                 delivered' = [delivered EXCEPT ![ProcessOf[t]] = Append(@, loc[t].new)]
          PROVE  \E p \in Processes : Log!Deliver(p)
      BY <3>1, <3>3, AdvancingDelivers
    <3> QED
      BY <3>1, <3>2, <3>3, DeliverySteps DEF Log!Next
  <2> QED
    BY <2>1, <2>2
<1>3. Spec => []LogInv
  BY InitiallyLogged, StepsKeepLogInv, PTL DEF Spec
<1> QED
  BY <1>1, <1>2, <1>3, PTL DEF Spec, ImplementsLog, Log!Spec
=============================================================================
