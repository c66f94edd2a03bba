SPECIFICATION HSpec
CONSTANTS
    r1 = r1
    r2 = r2
    r3 = r3
    k1 = k1
    k2 = k2
    cheap = cheap
    dear = dear
    odd = odd
    Ids = {r1, r2, r3}
    Keys = {k1, k2}
    Prices <- MCPrices
    Amounts = {cheap, dear, odd}
    Stored <- MCStored
    Editors = {e1}
    Uploads = {u1, u2}
    KeyUploads = {u1, u2}
    Files <- MCFiles
    Changes <- MCChanges
    MaxAttempts = 2
    Faults = {"index", "crash"}
    Seed <- MCSeed
    None = None
SYMMETRY Symmetry
CHECK_DEADLOCK FALSE
INVARIANTS
    IndexAgrees
    InStep
    FeedAccounting
