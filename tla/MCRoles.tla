------------------------------ MODULE MCRoles ------------------------------
(* Small instances of the role leases.                                     *)
EXTENDS Roles, TLC

Symmetry == Permutations(Sessions)
=============================================================================
