--------------------- MODULE MCPersistentMemoryAllocator ---------------------
(***************************************************************************)
(* An instance of PersistentMemoryAllocator for TLC: the first writer has  *)
(* a process of its own, all other threads share the other process.        *)
(***************************************************************************)
EXTENDS PersistentMemoryAllocator

CONSTANTS w1, p1, p2

MCProcessOf == [t \in Threads |-> IF t = w1 THEN p1 ELSE p2]
=============================================================================
