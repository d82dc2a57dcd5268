SPECIFICATION FairSpec
CONSTANTS
  Plans = {p1}
  Nothing = Nothing
  Rest = Rest
PROPERTY WindowsRecovers
CHECK_DEADLOCK FALSE
