SPECIFICATION StartSpec
CONSTANTS
    w1 = w1
    w2 = w2
    boss = boss
    guest = guest
    Workers = {w1, w2}
    Emails = {boss, guest}
    Roles = {"admin", "viewer"}
    Seeds <- MCSeeds
    RowIds = {1, 2}
    RowKeys = {k1, k2}
    MaxAttempts = 2
    MaxFaults = 0
    PartitionSettings <- MCPartitionSettings
    None = None
CHECK_DEADLOCK FALSE
PROPERTY PartitioningServes
