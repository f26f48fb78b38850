-------------------------- MODULE MCCdiAllocation --------------------------
(* CdiAllocation on small instances.  Neither ids nor classes are named by an *)
(* action, so both may be permuted.                                           *)
EXTENDS CdiAllocation, TLC

Symmetry == Permutations(Ids) \union Permutations(Classes)
=============================================================================
