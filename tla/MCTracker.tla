------------------------------ MODULE MCTracker ------------------------------
(* Tracker on small instances.                                             *)
EXTENDS Tracker, TLC

\* Accounts, workers, statuses and details are only compared for equality.
Interchangeable ==
    Permutations(Users) \cup Permutations(Workers)
        \cup Permutations(Statuses) \cup Permutations(Details)

=============================================================================
