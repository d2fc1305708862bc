\* Two bundles over two runs of zclo, into a receiver with room for one stream.
SPECIFICATION TunnelFairSpec
CONSTANTS
    b1 = b1  b2 = b2
    Bundles = {b1, b2}
    NoBundle = NoBundle
    ChunkBytes = 2
    MaxCuts = 4
    MaxRuns = 2
    Streams = {1, 2}
    MaxStreams = 1
    MaxBuf = 2
INVARIANTS
    ZclCustody InOrderOnce DecodedFromStart
PROPERTIES
    BufferEmpties EndsSettled
CHECK_DEADLOCK FALSE  \* zclo may have ended for good and nothing be on its way
