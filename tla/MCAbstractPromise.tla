-------------------------- MODULE MCAbstractPromise --------------------------
(***************************************************************************)
(* An instance of AbstractPromise for TLC: one dependent of two            *)
(* prerequisites (Promises::All, or kAny) and one of the first of them.    *)
(***************************************************************************)
EXTENDS AbstractPromise

CONSTANTS p1, p2, d1, d2

MCNeeds == [d \in Dependents |-> IF d = d1 THEN <<p1, p2>> ELSE <<p1>>]
=============================================================================
