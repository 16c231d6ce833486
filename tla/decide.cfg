\* Two requests at once: explained through a shared cache, plain, or ranked.
SPECIFICATION FairSpec
CONSTANTS
    Requests = {r1, r2}
    Scorings = {s1}
    Postings <- MCPostings
    Candidates <- MCCandidates
    Explained <- MCExplained
    Pools <- MCPools
    Limits = {1, 2}
    Replies <- MCReplies
    MaxRetries = 2
    Timeout = 30
    Patience = 30
    MaxRequests = 2
INVARIANTS TypeOK Grounded OwnWords CallBudget SponsorDeadEnd StrictestReading
           RisksNeverVeto MoreEvidenceNeverHurts EligibleFirst
PROPERTIES EveryRequestIsAnswered
CHECK_DEADLOCK FALSE
