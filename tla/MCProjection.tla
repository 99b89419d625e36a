---------------------------- MODULE MCProjection ----------------------------
(* Small instances of the projection, the checkpoint and the cache.        *)
EXTENDS Projection, TLC

Symmetry == Permutations(Requests)
=============================================================================
