\* A script with two nested buffers, two resources and a shutdown function.
SPECIFICATION Spec
CONSTANTS
    MaxPrinted = 3
    MaxLevels = 2
    ChunkSizes = {0, 2}
    MaxResources = 2
    MaxRefs = 2
    MaxFunctions = 1
    MaxCalls = 6
    NULL = NULL
INVARIANTS
    WriterMatchesLevel
    OutputExact
    AllSent
    ResourcesExact
