SPECIFICATION FairSpec
CONSTANTS
    Plans = {t1, t2}
    Profiles = {p1, p2}
    Subs = {u1, u2}
    Configs <- MixedConfigs
    t1 = t1
    t2 = t2
    p1 = p1
    p2 = p2
    Broken = Broken
    None = None
INVARIANTS
    InForceIsAccepted
    ClearedStaysCleared
PROPERTIES
    TunnelChangesWhenQuiet
    StartedUnderPolicy
    DriftNoticed
