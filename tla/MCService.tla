----------------------------- MODULE MCService -----------------------------
(* Instances of Service for TLC. *)
EXTENDS Service

\* Nothing said at all, as in GET /profile; "yes" and "no" each way round, one
\* with a field left out; and an explicit null for both.
SomeBodies ==
    {[needs_sponsorship |-> "unset", open_to_relocate |-> "unset"],
     [needs_sponsorship |-> "yes", open_to_relocate |-> "no"],
     [needs_sponsorship |-> "no", open_to_relocate |-> "unset"],
     [needs_sponsorship |-> "unknown", open_to_relocate |-> "unknown"]}

\* Nobody has registered, or one user has.
NoneOrOne ==
    {{}, {[id |-> 1, email |-> CHOOSE e \in Emails : TRUE,
           password |-> CHOOSE p \in Passwords : TRUE]}}

\* Every recommendation was made for user 1.
FirstOwns == [r \in Recs |-> 1]
=============================================================================
