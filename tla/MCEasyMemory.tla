---------------------------- MODULE MCEasyMemory ----------------------------
(* TLC instances of EasyMemory. *)
EXTENDS EasyMemory, TLC

\* Nothing tells two objects of a kind apart.
Symmetry ==
  Permutations(Easies) \cup Permutations(ToFrees) \cup Permutations(Lists)
    \cup Permutations(Mimes)
=============================================================================
