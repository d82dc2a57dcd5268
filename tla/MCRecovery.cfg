SPECIFICATION FairSpec
CONSTANTS
    Configs <- LivenessConfigs
    Sessions = {s1}
    Leases = {l1, l2}
    Grants <- OneLease
    l1 = l1
    l2 = l2
    MaxLapsed = 1
    None = None
PROPERTIES
    CleanupCompletes ExpiryEnforced
