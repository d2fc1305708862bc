\* Ends that differ from a common configuration in a respect or two.
SPECIFICATION Spec
CONSTANTS
    Base = 8
    Magic <- MCMagic
    Configs <- MCConfigs
    NodeOf <- MCNodeOf
    MaxNodeId = 4
    MaxExt = 16
    RxBufSize = 30
    Direct = 12
INVARIANTS
    SecuredAsConfigured
    RoutedIfEntitled
    ReadAsSent
PROPERTIES
    EndsInStep
