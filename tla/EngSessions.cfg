\* A sender and the accept thread, two sessions, claims not trusted.
SPECIFICATION FairSpec
CONSTANTS
    s1 = s1  c1 = c1  c2 = c2  n1 = n1  n2 = n2
    Nodes = {n1, n2}
    NoNode = NoNode
    Senders = {s1}
    Target <- Targets
    Addrs = {"a1"}
    NoAddr = NoAddr
    Conns = {c1, c2}
    NoConn = NoConn
    MaxSessions = 1
    BusySlack = 1
    MaxNegotiating = 1
    MaxReconnect = 1
    TrustClaims = FALSE
INVARIANTS
    SessionsBounded ClaimedIsListed
PROPERTIES
    SendReturns DoneIsFreed
CHECK_DEADLOCK FALSE  \* the sessions of the pool are used up
