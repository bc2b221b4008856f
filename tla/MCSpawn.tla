------------------------------ MODULE MCSpawn ------------------------------
(***************************************************************************)
(* Instances of Spawn for TLC.                                             *)
(***************************************************************************)
EXTENDS Spawn, TLC

\* The guests are interchangeable, where no liveness is checked.
Symmetry == Permutations(Guests)
=============================================================================
