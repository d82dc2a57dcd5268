SPECIFICATION FairSpec
PROPERTIES FilesAreCollected ActivationIsRecorded
CONSTANTS
    Ids = {i1}
    Exports = {e1, e2}
    Profiles = {p1}
    Policies = {c1}
    None = None
    QueueLimit = 2
    PriorLimit = 2
