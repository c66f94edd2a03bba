SPECIFICATION Spec
CONSTANTS
    r1 = r1
    r2 = r2
    r3 = r3
    k1 = k1
    k2 = k2
    cheap = cheap
    dear = dear
    odd = odd
    bad = bad
    Ids = {r1, r2, r3}
    Keys = {k1, k2}
    Prices <- MCPrices
    Amounts = {cheap, dear, odd, bad}
    Stored <- MCStored
    Editors = {e1, e2}
    Uploads = {u1}
    KeyUploads = {}
    Files <- MCFiles
    Changes <- MCOddChanges
    MaxAttempts = 2
    Faults = {"db", "index", "crash"}
    Seed <- MCSeed
    None = None
SYMMETRY Symmetry
CHECK_DEADLOCK FALSE
INVARIANTS
    TypeOK
    UniqueBusinessKey
    AuditTrail
    ValuesTraceable
    AnswersHonest
PROPERTY ImplementsCatalog
