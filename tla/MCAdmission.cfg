SPECIFICATION Spec
INVARIANTS KeysAccounted ActiveKeyKept InstalledIsSelected
 
CONSTANTS
    Ids = {i1, i2}
    Exports = {e1, e2}
    Profiles = {p1}
    Policies = {c1}
    None = None
    QueueLimit = 2
    PriorLimit = 1
CONSTRAINT NotStray
SYMMETRY Symmetry
