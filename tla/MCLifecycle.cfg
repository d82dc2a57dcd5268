SPECIFICATION FairSpec
CONSTANTS
    Sessions = {s1, s2}
    Uplinks = {u1, u2}
    None = None
INVARIANTS
    TeardownIsForTheSession
PROPERTIES
    LossEndsSession
