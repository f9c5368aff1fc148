SPECIFICATION Spec
CONSTANTS
    Limits = {1}
    DefaultLimit = 2
    Sizes <- AskedSizes
    MaxPageSize = 2
    PageSize = 2
    MaxBots = 5
    MaxFiles = 2
    MaxRows = 4
    MaxStores = 2
INVARIANTS ListComplete TranscriptComplete
