\* Three requests at once over a pool of two connections.
SPECIFICATION FairSpec
CONSTANTS
    Emails = {e1}
    Passwords = {p1, p2}
    Users = {1, 2}
    Accounts <- NoneOrOne
    Recs = {r1}
    Owner <- FirstOwns
    Bodies <- SomeBodies
    Workers = {w1, w2, w3}
    Limit = 2
    Analytics = TRUE
    NULL = NULL
    MaxRequests = 3
INVARIANTS AckIsDurable RegisteredCanLogin
PROPERTIES ProfileSurvives EveryRequestIsAnswered
CHECK_DEADLOCK FALSE
