SPECIFICATION SSpec
CONSTANTS
    r1 = r1
    r2 = r2
    k1 = k1
    k2 = k2
    cheap = cheap
    dear = dear
    Ids = {r1, r2}
    Keys = {k1, k2}
    Prices <- MCPrices
    Amounts = {cheap, dear}
    Stored <- MCStored
    Editors = {e1}
    Uploads = {u1}
    KeyUploads = {}
    Files <- MCFiles
    Changes <- MCChanges
    MaxAttempts = 1
    Faults = {"index", "db"}
    RedisFails = TRUE
    Seed <- MCSeed
    Searches = {s1, s2}
    Filters <- MCFilters
    Scopes = {"search", "meta"}
    None = None
SYMMETRY Symmetry
CHECK_DEADLOCK FALSE
INVARIANTS
    SearchTypeOK
    CacheAgrees
    CacheInv
