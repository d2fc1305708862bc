\* A session that ends while it is still being started.
SPECIFICATION Spec
CONSTANTS
    s1 = s1  c1 = c1  c2 = c2  n1 = n1  n2 = n2
    Nodes = {n1}
    NoNode = NoNode
    Senders = {s1}
    Target <- Targets
    Addrs = {"a1"}
    NoAddr = NoAddr
    Conns = {c1, c2}
    NoConn = NoConn
    MaxSessions = 2
    BusySlack = 0
    MaxNegotiating = 1
    MaxReconnect = 1
    TrustClaims = FALSE
INVARIANTS
    FreedIsLetGo
CHECK_DEADLOCK FALSE  \* the sessions of the pool are used up
