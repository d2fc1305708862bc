\* A claim that routes under -E none.
SPECIFICATION Spec
CONSTANTS
    Base = 8
    Magic <- MCMagic
    Configs <- MCConfigs
    NodeOf <- MCNodeOf
    MaxNodeId = 4
    MaxExt = 16
    RxBufSize = 30
    Direct = 12
INVARIANTS
    UnauthenticatedNotRouted
