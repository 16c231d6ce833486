\* One answer of the provider that no clause of complete catches.
SPECIFICATION Spec
CONSTANTS
    Requests = {r1, r2}
    Scorings = {s1}
    Postings <- MCPostings
    Candidates <- MCCandidates
    Explained <- MCExplained
    Pools <- MCPools
    Limits = {1, 2}
    Replies <- MCReplies
    MaxRetries = 2
    Timeout = 30
    Patience = 30
    MaxRequests = 2
INVARIANTS NeverRaises
CHECK_DEADLOCK FALSE
