------------------------------ MODULE MCStore ------------------------------
(***************************************************************************)
(* Instances of Store for TLC.                                             *)
(***************************************************************************)
EXTENDS Store, TLC

\* Contents are their own hash, up to a tag that no content has.
TaggedHash(b) == <<"blake3", b>>

Symmetry == Permutations(Writers) \cup Permutations(Chunk)
=============================================================================
