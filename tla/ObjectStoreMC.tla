--------------------------- MODULE ObjectStoreMC ---------------------------
(***************************************************************************)
(* Instances of ObjectStore for TLC.                                       *)
(***************************************************************************)
EXTENDS ObjectStore, TLC

CONSTANTS a, b

\* Two values of different size.
MCSize == [d \in Contents |-> CASE d = a -> 1 [] d = b -> 2 [] d = Torn -> 0]

Symmetry ==
  Permutations(Objs) \cup Permutations(Putters) \cup Permutations(Pollers)
  \cup Permutations(Spillers)
=============================================================================
