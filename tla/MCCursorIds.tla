----------------------------- MODULE MCCursorIds -----------------------------
(* CursorIds for TLC.  No definition of it tells handles, queries, lists of *)
(* datatypes or sequence bytes apart.                                       *)
EXTENDS CursorIds, TLC

Symmetry == Permutations(Handles) \cup Permutations(Queries)
              \cup Permutations(BindTypes) \cup Permutations(Seqs)

=============================================================================
