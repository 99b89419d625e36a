----------------------------- MODULE MCJournal -----------------------------
(* Small instances of the segment store.                                   *)
EXTENDS Journal, TLC

Symmetry == Permutations(Procs) \cup Permutations(Keys)
=============================================================================
