SPECIFICATION Spec
CONSTANTS
    CacheKeys = {a, b, c}
    Values = {v, w}
    MaxSize = 2
    TTL = 2
    MaxTime = 4
    Absent = Absent
    Cells <- MCCells
    MaxLines = 3
    Chunk = 2
    MaxPrice = 3
    Blank = Blank
    Text = Text
    NoRow = NoRow
    ann = ann
    bob = bob
    Users = {ann, bob}
    KeyNames = {n1}
    Settings <- MCSettings
    Lifetime = 1
    Scopes <- MCScopes
    MaxTokens = 1
    MaxMinute = 2
    None = None
    sA = sA
    sB = sB
    Stores = {sA, sB}
    Empty = Empty
    NoDay = NoDay
    Records <- MCRecords
    RequestsMade <- MCRequestsMade
    PageSize = 2
    Workers = {wA, wB}
    Lifespan = 2
    Patience = 1
    LastTick = 3
    LastVersion = 2
    Never = Never
    People = {pA, pB}
    price = price
    tA = tA
    tB = tB
    half = half
    Fields = {sku, price}
    Texts = {tA, tB, half}
    Savable <- MCSavable
    Kept <- MCKept
    Fixed <- MCFixed
    NoText = NoText
    MaxSaves = 2
    Closed = Closed
    Runs = {rA, rB}
    Products = 4
    StoreCount = 2
    ChunkSizes = {1, 2, 3}
    MaxChunk = 2
    LastDay = 1
SYMMETRY MCSymmetry
CHECK_DEADLOCK FALSE
INVARIANTS
    PartsTypeOK
    EvictsLeastRecent
    RowsLeadBack
    ChunkIsTheUnit
    GrantsAreRightful
    SettingsWin
    PagesAgree
    StalenessIsBounded
    NothingTypedIsLost
    SeedIsRepeatable
PROPERTY ImplementsCache
