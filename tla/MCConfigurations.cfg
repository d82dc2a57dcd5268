SPECIFICATION Spec
CONSTANTS
    Configs <- ConflictingConfigs
    Sessions = {s1}
    Leases = {l1, l2}
    Grants <- OneLeaseEach
    l1 = l1
    l2 = l2
    MaxLapsed = 1
    None = None
CONSTRAINT Faulty
INVARIANTS
    CleanupHeld
    EnforcedIsRecorded
PROPERTIES
    NoRollback
    NoTunnelWhileCleanupOwed
