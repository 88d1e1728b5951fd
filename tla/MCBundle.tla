------------------------------ MODULE MCBundle ------------------------------
(***************************************************************************)
(* Bounded instances of Bundle.  No action tells two commits or two edits  *)
(* apart.                                                                  *)
(***************************************************************************)
EXTENDS Bundle, TLC

Symmetry == Permutations(Commits) \cup Permutations(Edits)
=============================================================================
