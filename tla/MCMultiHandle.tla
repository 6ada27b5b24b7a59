--------------------------- MODULE MCMultiHandle ---------------------------
(* TLC instances of MultiHandle. *)
EXTENDS MultiHandle, TLC

\* Nothing tells two multis, easies, addresses or transfers apart.
Symmetry ==
  Permutations(Multis) \cup Permutations(Easies) \cup Permutations(Ptrs)
    \cup Permutations(Transfers)
=============================================================================
