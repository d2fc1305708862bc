\* Two senders, three bundles of two lengths, a peer that may say anything.
SPECIFICATION Spec
CONSTANTS
    b1 = b1  b2 = b2  b3 = b3  s1 = s1  s2 = s2
    Bundles = {b1, b2, b3}
    NoBundle = NoBundle
    Senders = {s1, s2}
    Length <- Lengths
    TransferMtu = 2
    TxWindow = 2
    TxWindowBytes = 2
    PeerLens = {1, 2, 3}
    MaxTransfers = 2
SYMMETRY TxSymmetry
INVARIANTS
    Custody SentWasWritten NoStranded XmitHoldsTail WindowInOrder NoUseAfterFree
CHECK_DEADLOCK FALSE  \* a freed session takes no further step
