\* Two bundles over each of the three protocols.
SPECIFICATION StoresFairSpec
CONSTANTS
    b1 = b1  b2 = b2
    Bundles = {b1, b2}
    NoBundle = NoBundle
    BatchMax = 2
    MaxFaults = 1
    MaxMail = 2
    Body <- Bodies
    MailModes <- Modes
    Own = {b1}
    MaxRows = 2
    MaxPause = 1
INVARIANTS
    KeptUntilAcquired OutIsInOnePlace
PROPERTIES
    EndsDrained HeldIsAcquired
CHECK_DEADLOCK FALSE  \* the messages and rows of the bounds are used up
