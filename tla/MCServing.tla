------------------------------ MODULE MCServing ------------------------------
(* Serving on small instances.                                             *)
EXTENDS Serving, TLC

WorkerSymmetry == Permutations(Workers)

=============================================================================
