--------------------------- MODULE MCCachedReads ---------------------------
(***************************************************************************)
(* Small instances of CachedReads.                                         *)
(***************************************************************************)
EXTENDS CachedReads, TLC

\* Generations run the same code, and so do readers.
Symmetry == Permutations(Generations) \cup Permutations(Readers)

=============================================================================
