SPECIFICATION Spec
CONSTANTS
    Configs <- SessionConfigs
    Sessions = {s1, s2}
    Leases = {l1, l2}
    Grants <- OneLease
    l1 = l1
    l2 = l2
    MaxLapsed = 1
    None = None
SYMMETRY SessionSymmetry
CONSTRAINT Faulty
INVARIANTS
    DisabledMeansClosed
PROPERTIES
    SessionNotAbandoned
    LedgerSpec
