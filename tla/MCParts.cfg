SPECIFICATION FairSpec
CONSTANTS
  Plans = {p1, p2}
  Resolving = {p1}
  Tasks = {t1, t2, t3}
  MaxVersion = 3
  MaxAttempts = 2
  Nothing = Nothing
  Rest = Rest
  None = None
INVARIANTS
  DisabledIsDrained IngressIsInspected OneInstallation BudgetKept
PROPERTIES
  SystemsKeepPromise ForeignKept DarwinRecovers RetryIsMade TasksEnd OnlySignedSuccessors
CHECK_DEADLOCK FALSE
