------------------------------- MODULE MCLoop -------------------------------
(* Instances of Loop, with the evaluation that reads it, for TLC. *)
EXTENDS Evaluation

\* Request threads are interchangeable.
WorkerSymmetry == Permutations(Workers)
=============================================================================
