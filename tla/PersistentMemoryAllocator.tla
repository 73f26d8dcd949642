---------------------- MODULE PersistentMemoryAllocator ----------------------
(***************************************************************************)
(* A memory segment that processes share and that outlives them: creation  *)
(* and attachment, lock-free allocation in pages, the lock-free queue of   *)
(* iterable blocks, iterators shared by the threads of a process, and      *)
(* blocks recycled by changing their type.  A step is one access to the    *)
(* shared memory; a process may die between any two of them and another    *)
(* one may attach to what it left.  Sizes and offsets count units of       *)
(* kAllocAlignment, 8 bytes; sizes include the block header.               *)
(***************************************************************************)
EXTENDS Naturals, Sequences, FiniteSets

CONSTANTS
    Writers,     \* threads that allocate blocks, publish and recycle them
    Readers,     \* threads that iterate
    Processes,
    ProcessOf,   \* the process each thread belongs to
    MemSize,     \* mem_size_
    PageSize,    \* mem_page_
    Requests,    \* the sizes asked for, rounded up and with the header
    Mortal,      \* the processes that may die
    MaxDeaths    \* bound on the deaths

Header == 2      \* sizeof(BlockHeader)
MetaSize == 8    \* sizeof(SharedMetadata)
Queue == 6       \* kReferenceQueue
Null == 0        \* kReferenceNull

Threads == Writers \cup Readers
Refs == MetaSize..(MemSize - 1)
Offsets == 0..MemSize

ASSUME ThreadsAssumption ==
    /\ ProcessOf \in [Threads -> Processes]
    /\ IsFiniteSet(Readers)
    /\ Mortal \subseteq Processes
ASSUME SizesAssumption ==
    /\ MemSize \in Nat /\ PageSize \in Nat \ {0} /\ MemSize >= MetaSize
    /\ MemSize % PageSize = 0
    /\ Requests \subseteq (Header + 1)..PageSize
    /\ MaxDeaths \in Nat

VARIABLES
    meta,      \* the metadata stored so far, besides the pointers
    freeptr, tailptr, flags,   \* SharedMetadata
    size, cookie, type, next,  \* BlockHeader of each block, and of the queue
    dirty,     \* the blocks whose contents are not all zero
    proc,      \* what each process is doing
    distrusts, \* the processes whose corrupt_ is set
    last, count,  \* last_record_ and record_count_ of each process's iterator
    delivered,    \* what it has delivered (history)
    pc, loc,   \* where each thread is, and its local variables
    held,      \* the block each thread uses (Null: none)
    deaths     \* deaths so far

segment == <<meta, freeptr, tailptr, flags, size, cookie, type, next, dirty>>
iterators == <<last, count, delivered>>
vars == <<segment, proc, distrusts, iterators, pc, loc, held, deaths>>

Plain == {"cookie", "size", "version"}   \* metadata stored without ordering
Fields == Plain \cup {"queueCookie", "state"}
Types == {"none", "object", "free", "transitioning"}
Iterating == {"loadLast", "loadNext", "advance", "count"}
PCs == {"idle", "loop", "waste", "header", "publish", "loadTail", "link", "swing",
        "help", "exchange", "clear", "finish"} \cup Iterating
NoLocals == [ref |-> Null, size |-> 0, old |-> 0, new |-> 0]

TypeOK ==
    /\ meta \subseteq Fields
    /\ freeptr \in Offsets /\ tailptr \in Refs \cup {Null, Queue}
    /\ flags \subseteq {"corrupt", "full"}
    /\ size \in [Refs -> Offsets]
    /\ cookie \in [Refs -> {"free", "wasted", "allocated"}]
    /\ type \in [Refs -> Types]
    /\ next \in [Refs \cup {Queue} -> Refs \cup {Null, Queue}]
    /\ dirty \subseteq Refs
    /\ proc \in [Processes -> {"out", "creating", "attached", "dead"}]
    /\ distrusts \subseteq Processes
    /\ last \in [Processes -> Refs \cup {Queue}]
    /\ count \in [Processes -> Nat]
    /\ delivered \in [Processes -> Seq(Refs)]
    /\ pc \in [Threads -> PCs]
    /\ loc \in [Threads -> [ref : Offsets, size : Offsets, old : Offsets,
                            new : Offsets]]
    /\ held \in [Threads -> Refs \cup {Null}]
    /\ deaths \in 0..MaxDeaths

Init ==
    /\ meta = {} /\ freeptr = 0 /\ tailptr = Null /\ flags = {}
    /\ size = [r \in Refs |-> 0]
    /\ cookie = [r \in Refs |-> "free"]
    /\ type = [r \in Refs |-> "none"]
    /\ next = [r \in Refs \cup {Queue} |-> Null]
    /\ dirty = {}
    /\ proc = [p \in Processes |-> "out"]
    /\ distrusts = {}
    /\ last = [p \in Processes |-> Queue]
    /\ count = [p \in Processes |-> 0]
    /\ delivered = [p \in Processes |-> <<>>]
    /\ pc = [t \in Threads |-> "idle"]
    /\ loc = [t \in Threads |-> NoLocals]
    /\ held = [t \in Threads |-> Null]
    /\ deaths = 0

-----------------------------------------------------------------------------
(* Processes: creation of the segment, attachment, death.                    *)

\* SetCorrupt called in process p: the local and the shared flag.
SetCorrupt(p) ==
    /\ distrusts' = distrusts \cup {p}
    /\ flags' = flags \cup {"corrupt"}

KeepFlags == UNCHANGED <<distrusts, flags>>

IsCorrupt(p) == p \in distrusts \/ "corrupt" \in flags

\* Mutation of Complete: tailptr, which is stored last, is not looked at.
CompleteButTail == Plain \cup {"queueCookie"} \subseteq meta /\ freeptr # 0

\* What an allocator that attaches looks for in the metadata.
Complete ==
    /\ Plain \cup {"queueCookie"} \subseteq meta
    /\ freeptr # 0 /\ tailptr # Null /\ next[Queue] # Null

Pristine == meta = {} /\ freeptr = 0 /\ tailptr = Null /\ flags = {} /\ next[Queue] = Null

FreshIterator(p) ==
    /\ last' = [last EXCEPT ![p] = Queue]
    /\ count' = [count EXCEPT ![p] = 0]
    /\ delivered' = [delivered EXCEPT ![p] = <<>>]

\* A new process constructs an allocator.  The segment is shared only once a
\* constructor has finished, or its process has died and left a file behind.
Construct(p) ==
    /\ proc[p] \in {"out", "dead"}
    /\ \A q \in Processes : proc[q] # "creating"
    /\ FreshIterator(p)
    /\ distrusts' = IF ("cookie" \in meta /\ ~Complete) \/ ("cookie" \notin meta /\ ~Pristine)
                    THEN distrusts \cup {p} ELSE distrusts \ {p}
    /\ flags' = IF p \in distrusts' THEN flags \cup {"corrupt"} ELSE flags
    /\ proc' = [proc EXCEPT ![p] = IF "cookie" \in meta THEN "attached" ELSE "creating"]
    /\ UNCHANGED <<meta, freeptr, tailptr, size, cookie, type, next, dirty,
                   pc, loc, held, deaths>>

\* The stores of the constructor: the plain ones in any order before freeptr,
\* then those of the queue, of tailptr and of memory_state.
StoreMetadata(p) ==
    /\ proc[p] = "creating"
    /\ \/ /\ \E f \in Plain \ meta : meta' = meta \cup {f}
          /\ UNCHANGED <<freeptr, tailptr, next, proc>>
       \/ /\ Plain \subseteq meta /\ freeptr = 0
          /\ freeptr' = MetaSize
          /\ UNCHANGED <<meta, tailptr, next, proc>>
       \/ /\ freeptr # 0 /\ "queueCookie" \notin meta
          /\ meta' = meta \cup {"queueCookie"}
          /\ UNCHANGED <<freeptr, tailptr, next, proc>>
       \/ /\ "queueCookie" \in meta /\ next[Queue] = Null
          /\ next' = [next EXCEPT ![Queue] = Queue]
          /\ UNCHANGED <<meta, freeptr, tailptr, proc>>
       \/ /\ next[Queue] # Null /\ tailptr = Null
          /\ tailptr' = Queue
          /\ UNCHANGED <<meta, freeptr, next, proc>>
       \/ /\ tailptr # Null
          /\ meta' = meta \cup {"state"}
          /\ proc' = [proc EXCEPT ![p] = "attached"]
          /\ UNCHANGED <<freeptr, tailptr, next>>
    /\ UNCHANGED <<flags, size, cookie, type, dirty, distrusts, iterators, pc, loc,
                   held, deaths>>

\* A process dies, with its threads wherever they are.
Die(p) ==
    /\ p \in Mortal /\ proc[p] \in {"creating", "attached"}
    /\ deaths < MaxDeaths
    /\ deaths' = deaths + 1
    /\ proc' = [proc EXCEPT ![p] = "dead"]
    /\ pc' = [t \in Threads |-> IF ProcessOf[t] = p THEN "idle" ELSE pc[t]]
    /\ loc' = [t \in Threads |-> IF ProcessOf[t] = p THEN NoLocals ELSE loc[t]]
    /\ held' = [t \in Threads |-> IF ProcessOf[t] = p THEN Null ELSE held[t]]
    /\ UNCHANGED <<segment, distrusts, iterators>>

-----------------------------------------------------------------------------
(* Allocate.                                                                 *)

At(t, place) == proc[ProcessOf[t]] = "attached" /\ pc[t] = place

Goto(t, place) == pc' = [pc EXCEPT ![t] = place]

Return(t) == Goto(t, "idle") /\ loc' = [loc EXCEPT ![t] = NoLocals]

\* AllocateImpl has rounded the request up and loads freeptr.
Allocate(t) ==
    /\ At(t, "idle") /\ held[t] = Null
    /\ \E n \in Requests :
        loc' = [loc EXCEPT ![t].size = n, ![t].old = freeptr]
    /\ Goto(t, "loop")
    /\ UNCHANGED <<segment, proc, distrusts, iterators, held, deaths>>

\* Mutation of TooLarge: only the start of the block is looked at.
StartsOutside(offset, n) == offset > MemSize
TooLarge(offset, n) == offset + n > MemSize

PageFree(offset) == PageSize - (offset % PageSize)

\* The block's size in its page: no slice too small for a block is left.
Fit(n, room) == IF room - n < Header + 1 THEN room ELSE n

\* Mutation of Advance: freeptr is stored instead of exchanged.
AdvanceBlindly(t, n, place) ==
    /\ freeptr' = loc[t].old + n
    /\ loc' = [loc EXCEPT ![t].size = n]
    /\ Goto(t, place)

\* freeptr.compare_exchange_strong: on failure the thread has the new value,
\* and keeps the size it had come to.
Advance(t, n, place) ==
    IF freeptr = loc[t].old
    THEN /\ freeptr' = freeptr + n
         /\ loc' = [loc EXCEPT ![t].size = IF place = "waste" THEN @ ELSE n]
         /\ Goto(t, place)
    ELSE /\ loc' = [loc EXCEPT ![t].old = freeptr,
                               ![t].size = IF place = "waste" THEN @ ELSE n]
         /\ UNCHANGED <<freeptr, pc>>

\* One round of the loop up to the exchange.
AllocateLoop(t) ==
    LET old == loc[t].old
        n == loc[t].size
        room == PageFree(old)
    IN
    /\ At(t, "loop")
    /\ \/ /\ IsCorrupt(ProcessOf[t])
          /\ SetCorrupt(ProcessOf[t])
          /\ Return(t)
          /\ UNCHANGED freeptr
       \/ /\ ~IsCorrupt(ProcessOf[t])
          /\ TooLarge(old, n)
          /\ flags' = flags \cup {"full"}
          /\ Return(t)
          /\ UNCHANGED <<freeptr, distrusts>>
       \/ /\ ~IsCorrupt(ProcessOf[t])
          /\ ~TooLarge(old, n)
          /\ IF n <= room THEN Advance(t, Fit(n, room), "header") /\ KeepFlags
             ELSE IF room > Header THEN Advance(t, room, "waste") /\ KeepFlags
             ELSE SetCorrupt(ProcessOf[t]) /\ Return(t) /\ UNCHANGED freeptr
    /\ UNCHANGED <<meta, tailptr, size, cookie, type, next, dirty, proc, iterators,
                   held, deaths>>

\* The header of the rest of a page; the thread still has the old freeptr.
WasteRest(t) ==
    /\ At(t, "waste")
    /\ size' = [size EXCEPT ![loc[t].old] = PageFree(loc[t].old)]
    /\ cookie' = [cookie EXCEPT ![loc[t].old] = "wasted"]
    /\ Goto(t, "loop")
    /\ UNCHANGED <<meta, freeptr, tailptr, flags, type, next, dirty, proc,
                   distrusts, iterators, loc, held, deaths>>

\* The new block must be all zero; its header is written, its reference is
\* returned and the caller fills it.  Nobody else knows of the block yet.
WriteHeader(t) ==
    LET ref == loc[t].old IN
    /\ At(t, "header")
    /\ IF size[ref] # 0 \/ cookie[ref] # "free" \/ type[ref] # "none" \/ next[ref] # Null
       THEN /\ SetCorrupt(ProcessOf[t])
            /\ Return(t)
            /\ UNCHANGED <<size, cookie, type, dirty, held>>
       ELSE /\ size' = [size EXCEPT ![ref] = loc[t].size]
            /\ cookie' = [cookie EXCEPT ![ref] = "allocated"]
            /\ type' = [type EXCEPT ![ref] = "object"]
            /\ dirty' = dirty \cup {ref}
            /\ held' = [held EXCEPT ![t] = ref]
            /\ loc' = [loc EXCEPT ![t].ref = ref]
            /\ Goto(t, "publish")
            /\ KeepFlags
    /\ UNCHANGED <<meta, freeptr, tailptr, next, proc, iterators, deaths>>

-----------------------------------------------------------------------------
(* MakeIterable.                                                             *)

\* GetBlock accepts the reference of an allocated block.
ValidBlock(ref) ==
    /\ ref \in Refs
    /\ cookie[ref] = "allocated"
    /\ size[ref] >= Header /\ ref + size[ref] <= MemSize

\* The owner publishes its new block: it becomes a new tail, still unlinked.
MakeIterable(t) ==
    LET ref == loc[t].ref IN
    /\ At(t, "publish")
    /\ IF IsCorrupt(ProcessOf[t])
       THEN SetCorrupt(ProcessOf[t]) /\ Return(t) /\ UNCHANGED next
       ELSE /\ KeepFlags
            /\ IF ~ValidBlock(ref) \/ next[ref] # Null
               THEN Return(t) /\ UNCHANGED next
               ELSE /\ next' = [next EXCEPT ![ref] = Queue]
                    /\ Goto(t, "loadTail")
                    /\ UNCHANGED loc
    /\ UNCHANGED <<meta, freeptr, tailptr, size, cookie, type, dirty, proc, iterators,
                   held, deaths>>

LoadTail(t) ==
    /\ At(t, "loadTail")
    /\ loc' = [loc EXCEPT ![t].old = tailptr]
    /\ Goto(t, "link")
    /\ UNCHANGED <<segment, proc, distrusts, iterators, held, deaths>>

\* Mutation of LinkAfterTail: the link is stored, not exchanged.
LinkBlindly(t) ==
    LET tail == loc[t].old IN
    /\ At(t, "link")
    /\ next' = [next EXCEPT ![tail] = loc[t].ref]
    /\ Goto(t, "swing")
    /\ UNCHANGED <<meta, freeptr, tailptr, flags, size, cookie, type, dirty, proc,
                   distrusts, iterators, loc, held, deaths>>

\* block->next.compare_exchange_strong on the block the thread takes for the
\* tail.
LinkAfterTail(t) ==
    LET tail == loc[t].old IN
    /\ At(t, "link")
    /\ IF tail # Queue /\ ~ValidBlock(tail)
       THEN SetCorrupt(ProcessOf[t]) /\ Return(t) /\ UNCHANGED next
       ELSE /\ KeepFlags
            /\ IF next[tail] = Queue
               THEN /\ next' = [next EXCEPT ![tail] = loc[t].ref]
                    /\ Goto(t, "swing")
                    /\ UNCHANGED loc
               ELSE /\ loc' = [loc EXCEPT ![t].new = next[tail]]
                    /\ Goto(t, "help")
                    /\ UNCHANGED next
    /\ UNCHANGED <<meta, freeptr, tailptr, size, cookie, type, dirty, proc, iterators,
                   held, deaths>>

\* tailptr.compare_exchange_strong; whether it succeeds does not matter.
SwingTail(t) ==
    /\ At(t, "swing")
    /\ tailptr' = IF tailptr = loc[t].old THEN loc[t].ref ELSE tailptr
    /\ Return(t)
    /\ UNCHANGED <<meta, freeptr, flags, size, cookie, type, next, dirty, proc,
                   distrusts, iterators, held, deaths>>

\* Mutation of HelpTail: the tail is only loaded again, for its own thread
\* will move it.
ReloadTail(t) ==
    /\ At(t, "help")
    /\ loc' = [loc EXCEPT ![t].old = tailptr]
    /\ Goto(t, "link")
    /\ UNCHANGED <<segment, proc, distrusts, iterators, held, deaths>>

\* The thread that linked the tail may have died before it moved tailptr: it
\* is moved for it.  After a successful exchange the old tail is tried again.
HelpTail(t) ==
    /\ At(t, "help")
    /\ IF tailptr = loc[t].old
       THEN tailptr' = loc[t].new /\ UNCHANGED loc
       ELSE loc' = [loc EXCEPT ![t].old = tailptr] /\ UNCHANGED tailptr
    /\ Goto(t, "link")
    /\ UNCHANGED <<meta, freeptr, flags, size, cookie, type, next, dirty, proc,
                   distrusts, iterators, held, deaths>>

-----------------------------------------------------------------------------
(* ChangeType: blocks are released, with their contents cleared, and reused. *)

\* The owner lets go of an unpublished block (PersistentHistogramAllocator::
\* FinalizeHistogram when it lost the race to register it).
Discard(t) ==
    /\ At(t, "publish")
    /\ type' = [type EXCEPT ![loc[t].ref] = "none"]
    /\ held' = [held EXCEPT ![t] = Null]
    /\ Return(t)
    /\ UNCHANGED <<meta, freeptr, tailptr, flags, size, cookie, next, dirty, proc,
                   distrusts, iterators, deaths>>

\* ReleaseObjectReference: from "object" to "free", clearing the memory; the
\* block is of a third type while that lasts.
Release(t) ==
    /\ At(t, "idle") /\ held[t] # Null
    /\ type[held[t]] = "object"
    /\ type' = [type EXCEPT ![held[t]] = "transitioning"]
    /\ Goto(t, "clear")
    /\ UNCHANGED <<meta, freeptr, tailptr, flags, size, cookie, next, dirty, proc,
                   distrusts, iterators, loc, held, deaths>>

ClearMemory(t) ==
    /\ At(t, "clear")
    /\ dirty' = dirty \ {held[t]}
    /\ Goto(t, "finish")
    /\ UNCHANGED <<meta, freeptr, tailptr, flags, size, cookie, type, next, proc,
                   distrusts, iterators, loc, held, deaths>>

FinishRelease(t) ==
    /\ At(t, "finish")
    /\ type' = [type EXCEPT ![held[t]] = IF @ = "transitioning" THEN "free" ELSE @]
    /\ held' = [held EXCEPT ![t] = Null]
    /\ Return(t)
    /\ UNCHANGED <<meta, freeptr, tailptr, flags, size, cookie, next, dirty, proc,
                   distrusts, iterators, deaths>>

\* GetObjectReference has come upon a block of the free type ...
FindFree(t) ==
    /\ At(t, "idle") /\ held[t] = Null
    /\ \E r \in Refs :
        /\ type[r] = "free"
        /\ loc' = [loc EXCEPT ![t].ref = r]
    /\ Goto(t, "exchange")
    /\ UNCHANGED <<segment, proc, distrusts, iterators, held, deaths>>

\* Mutation of Reuse: the type is stored, not exchanged.
ReuseBlindly(t) ==
    LET ref == loc[t].ref IN
    /\ At(t, "exchange")
    /\ type' = [type EXCEPT ![ref] = "object"]
    /\ dirty' = dirty \cup {ref}
    /\ held' = [held EXCEPT ![t] = ref]
    /\ Return(t)
    /\ UNCHANGED <<meta, freeptr, tailptr, flags, size, cookie, next, proc,
                   distrusts, iterators, deaths>>

\* ... and takes it, unless another thread was faster; it then writes to it.
Reuse(t) ==
    LET ref == loc[t].ref IN
    /\ At(t, "exchange")
    /\ IF type[ref] = "free"
       THEN /\ type' = [type EXCEPT ![ref] = "object"]
            /\ dirty' = dirty \cup {ref}
            /\ held' = [held EXCEPT ![t] = ref]
       ELSE UNCHANGED <<type, dirty, held>>
    /\ Return(t)
    /\ UNCHANGED <<meta, freeptr, tailptr, flags, size, cookie, next, proc,
                   distrusts, iterators, deaths>>

-----------------------------------------------------------------------------
(* Iterator::GetNext and Reset.                                              *)

GetNext(t) ==
    /\ At(t, "idle")
    /\ loc' = [loc EXCEPT ![t].size = count[ProcessOf[t]]]
    /\ Goto(t, "loadLast")
    /\ UNCHANGED <<segment, proc, distrusts, iterators, held, deaths>>

LoadLast(t) ==
    /\ At(t, "loadLast")
    /\ loc' = [loc EXCEPT ![t].old = last[ProcessOf[t]]]
    /\ Goto(t, "loadNext")
    /\ UNCHANGED <<segment, proc, distrusts, iterators, held, deaths>>

\* No next block, or an invalid one, ends the call.
LoadNext(t) ==
    LET ref == loc[t].old IN
    /\ At(t, "loadNext")
    /\ IF (ref # Queue /\ ~ValidBlock(ref)) \/ next[ref] = Queue
       THEN Return(t) /\ KeepFlags
       ELSE IF ValidBlock(next[ref])
       THEN /\ loc' = [loc EXCEPT ![t].new = next[ref]]
            /\ Goto(t, "advance")
            /\ KeepFlags
       ELSE SetCorrupt(ProcessOf[t]) /\ Return(t)
    /\ UNCHANGED <<meta, freeptr, tailptr, size, cookie, type, next, dirty, proc,
                   iterators, held, deaths>>

\* last_record_.compare_exchange_strong decides which of the threads that
\* share the iterator returns the block.
AdvanceLast(t) ==
    LET p == ProcessOf[t] IN
    /\ At(t, "advance")
    /\ IF last[p] = loc[t].old
       THEN /\ last' = [last EXCEPT ![p] = loc[t].new]
            /\ delivered' = [delivered EXCEPT ![p] = Append(@, loc[t].new)]
            /\ Goto(t, "count")
            /\ UNCHANGED loc
       ELSE /\ loc' = [loc EXCEPT ![t].old = last[p]]
            /\ Goto(t, "loadNext")
            /\ UNCHANGED <<last, delivered>>
    /\ UNCHANGED <<segment, proc, distrusts, count, held, deaths>>

\* More records than blocks fit below freeptr would mean a loop; else the
\* record is counted.
CountRecord(t) ==
    LET p == ProcessOf[t] IN
    /\ At(t, "count")
    /\ IF loc[t].size > freeptr \div (Header + 1)
       THEN SetCorrupt(p) /\ UNCHANGED count
       ELSE KeepFlags /\ count' = [count EXCEPT ![p] = @ + 1]
    /\ Return(t)
    /\ UNCHANGED <<meta, freeptr, tailptr, size, cookie, type, next, dirty, proc,
                   last, delivered, held, deaths>>

\* Reset, which is not called while another thread uses the iterator.
Reset(t) ==
    /\ At(t, "idle")
    /\ \A u \in Readers : ProcessOf[u] = ProcessOf[t] => pc[u] \notin Iterating
    /\ FreshIterator(ProcessOf[t])
    /\ UNCHANGED <<segment, proc, distrusts, pc, loc, held, deaths>>

-----------------------------------------------------------------------------
Publish(t) == LoadTail(t) \/ LinkAfterTail(t) \/ SwingTail(t) \/ HelpTail(t)

WriterNext(t) ==
    \/ Allocate(t) \/ AllocateLoop(t) \/ WasteRest(t) \/ WriteHeader(t)
    \/ MakeIterable(t) \/ Publish(t) \/ Discard(t)
    \/ Release(t) \/ ClearMemory(t) \/ FinishRelease(t) \/ FindFree(t) \/ Reuse(t)

ReaderNext(t) ==
    \/ GetNext(t) \/ LoadLast(t) \/ LoadNext(t) \/ AdvanceLast(t) \/ CountRecord(t)
    \/ Reset(t)

Next ==
    \/ \E p \in Processes : Construct(p) \/ StoreMetadata(p) \/ Die(p)
    \/ \E t \in Writers : WriterNext(t)
    \/ \E t \in Readers : ReaderNext(t)

Spec == Init /\ [][Next]_vars

\* A thread that publishes a block goes on, unless its process dies.  Nothing
\* else has to happen.
Fairness == \A t \in Writers : WF_vars(Publish(t))

LiveSpec == Spec /\ Fairness

-----------------------------------------------------------------------------
\* The list is a ring through the queue: the block n links away from it.
Hop[n \in Nat] == IF n = 0 THEN Queue ELSE next[Hop[n - 1]]

Ended(n) == next[Hop[n]] \in {Queue, Null}

\* The blocks that can be reached from the queue.
Linked ==
    [i \in 1..(CHOOSE n \in 0..MemSize : Ended(n) /\ \A i \in 0..(n - 1) : ~Ended(i))
        |-> Hop[i]]

\* The linked blocks are a log that only grows at its end, whoever dies where,
\* and each iterator delivers it in order without repeating or skipping a
\* block, however its threads race
\* (persistent_memory_allocator.h: "its position in iteration can never
\* change", "the same reference will not be returned twice").
Log == INSTANCE IterableLog WITH
           log <- Linked, delivered <- delivered, Records <- Refs
ImplementsLog == Log!Spec

\* Blocks that were given out do not overlap, lie within one page and below
\* freeptr, however many threads race for them and whoever dies before its
\* header is written (persistent_memory_allocator.cpp:681).
BlocksIntact ==
    \A r \in Refs : cookie[r] # "free" =>
        /\ r + size[r] <= freeptr
        /\ r \div PageSize = (r + size[r] - 1) \div PageSize
        /\ \A s \in Refs : s # r /\ cookie[s] # "free"
              => s + size[s] <= r \/ r + size[r] <= s

\* What threads and dying processes leave behind is never taken for
\* corruption: only a constructor may find the segment corrupt, if the
\* process that created it died before it was done
\* (persistent_memory_allocator.cpp:416, 716, 728).
CorruptionFoundOnAttach ==
    [][("corrupt" \notin flags /\ "corrupt" \in flags') =>
          \E p \in Processes : proc[p] \in {"out", "dead"} /\ proc'[p] # proc[p]]_vars

\* A block is used by one thread at a time, and a block that is free for reuse
\* has been cleared (persistent_memory_allocator.cpp:565).
HeldOnceAndClean ==
    /\ \A t, u \in Writers : t # u /\ held[t] # Null => held[t] # held[u]
    /\ \A r \in Refs : type[r] = "free" => r \notin dirty

\* A MakeIterable call links its block, even if another process has died
\* between linking a block and moving tailptr: no thread waits for another
\* one to go on, unless its own process dies or corruption was found
\* (persistent_memory_allocator.cpp:822).
MakeIterableSucceeds ==
    \A t \in Writers : pc[t] = "link" ~> pc[t] \in {"swing", "idle"}
=============================================================================
