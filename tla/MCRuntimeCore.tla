--------------------------- MODULE MCRuntimeCore ---------------------------
(***************************************************************************)
(* Instances of RuntimeCore for TLC.                                       *)
(***************************************************************************)
EXTENDS RuntimeCore, TLC

Symmetry == Permutations(Requests) \cup Permutations(Sids) \cup Permutations(Keys)
=============================================================================
