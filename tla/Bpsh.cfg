\* A REPL and two one-shot clients; pipes that hold one chunk.
SPECIFICATION MCSpec
CONSTANTS
    Clients = {"repl", "shot", "feed"}
    OneShot = {"shot", "feed"}
    MaxFaults = 1
    PipeCap = 1
    OutLimit = 1
    OutLen <- Lens
    MaxIdle = 1
    StdinLen <- Stdin
    Commands <- Typed
    Plans <- MCPlans
INVARIANTS
    ExitAfterAllOutput
PROPERTIES
    AnswersCome QuitEnds
CHECK_DEADLOCK FALSE  \* clients and daemon end
