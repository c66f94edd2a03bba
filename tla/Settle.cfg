SPECIFICATION SettleSpec
CONSTANTS
    r1 = r1
    r2 = r2
    r3 = r3
    k1 = k1
    k2 = k2
    cheap = cheap
    dear = dear
    odd = odd
    bad = bad
    Ids = {r1, r2, r3}
    Keys = {k1, k2}
    Prices <- MCPrices
    Amounts = {cheap, dear, odd, bad}
    Stored <- MCStored
    Editors = {e1}
    Uploads = {u1}
    KeyUploads = {}
    Files <- MCFiles
    Changes <- MCChanges
    MaxAttempts = 3
    Faults = {"index"}
    Seed <- MCSeed
    None = None
    s1 = s1
    m1 = m1
    x1 = x1
    f1 = f1
    Requests = {s1, m1, x1, f1}
    KindOf <- MCKindOf
    Slots = 1
    Threads = 1
    Connections = 1
    ImportAttempts = 2
    Logins = {l1, l2}
    Accounts = {ann, bob}
    AccountRoles = {"editor", "uploader"}
    Null = Null
CHECK_DEADLOCK FALSE
INVARIANTS
    SettleTypeOK
    SlotsAccounted
    WaitsEmptyHanded
    SessionIsOne
PROPERTIES
    EverythingEnds
