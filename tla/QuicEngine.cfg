\* Two senders, two connections, one of which the peer may have opened.
SPECIFICATION QuicEngineFairSpec
CONSTANTS
    n1 = n1
    Nodes = {n1}
    NoNode = NoNode
    Peers = {n1}
    Senders = {s1, s2}
    Target <- ToOne
    MaxConns = 2
INVARIANTS
    HeldIsNotFreed
PROPERTIES
    BundleIsSettled FailedConnIsFreed DaemonEnds
CHECK_DEADLOCK FALSE  \* the daemon ends
