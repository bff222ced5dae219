CONSTANTS
    Sizes = {0, 2}
    MaxCalls = 2
    Kinds = {"response", "old", "head", "request"}
    Lens = {1, 3}
    Clients = {c1, c2}
    Names = {"a", "b"}
    FileSizes = {0, 1, 2, 3}
    MaxCacheSize = 2
    MaxFileSize = 2
    MaxEdits = 1
    Methods = {"GET", "HEAD"}
    MaxRoutes = 3
    MaxSegments = 2
    SendLens = {2}
SPECIFICATION ProtocolsSpec
INVARIANTS  CacheAccounted   
CHECK_DEADLOCK FALSE
