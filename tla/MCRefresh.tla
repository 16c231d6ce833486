------------------------------ MODULE MCRefresh ------------------------------
(* Refresh on small instances.                                             *)
EXTENDS Refresh, TLC

WorkerSymmetry == Permutations(Workers)

=============================================================================
