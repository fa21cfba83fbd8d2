SPECIFICATION Spec
CONSTANTS
    Regions = {"password", "confirm", "key"}
    Extents <- MCExtents
    Word = 64
    MinMemory = 8
    MaxMemory = 24
    MinIterations = 1
    MaxIterations = 2
    MinParallelism = 1
    MaxParallelism = 2
    MinChunk = 2
    MaxChunk = 4
    MaxLegacy = 80
    CommandLines <- MCCommandLines
    Current <- MCCurrent
    Streams <- MCStreams
    None = None
INVARIANTS
    TypeOK
    WorkBounded
    Authentic
    Accepted
    SecretsGone
    ExitStatus
PROPERTY Ends
