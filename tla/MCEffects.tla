----------------------------- MODULE MCEffects -----------------------------
(* Small instances of the effect saga.                                     *)
EXTENDS Effects, TLC

Symmetry == Permutations(Procs) \cup Permutations(Keys)
=============================================================================
