------------------------------- MODULE MCRecentf -------------------------------
(***************************************************************************)
(* Instances of Recentf: instances and files are interchangeable.          *)
(***************************************************************************)
EXTENDS Recentf

Symmetry == Permutations(Instances) \cup Permutations(Files)
=============================================================================
