SPECIFICATION RSpec
CONSTANTS
    r1 = r1
    k1 = k1
    cheap = cheap
    dear = dear
    Ids = {r1}
    Keys = {k1}
    Prices <- MCPrices
    Amounts = {cheap, dear}
    Stored <- MCStored
    ExpiredKeys = {k1}
    Editors = {e1}
    Uploads = {}
    KeyUploads = {}
    Files = {}
    Changes <- MCChanges
    MaxAttempts = 1
    Faults = {}
    Seed <- MCSeed
    None = None
CHECK_DEADLOCK FALSE
PROPERTY ExpiredArePurged
