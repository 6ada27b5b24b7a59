--------------------------- MODULE MCCurlRequest ---------------------------
(* TLC instances of CurlRequest. *)
EXTENDS CurlRequest, TLC

\* Curls and requests are interchangeable for the invariants.
Symmetry == Permutations(Curls) \cup Permutations(Requests)
=============================================================================
