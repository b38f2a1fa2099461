SPECIFICATION MCSpec
CONSTANTS
  ProductID = {p1}
  ProcessContract = {"SP", "PP"}
  Color = {white}
  Tag = {t1}
  Note = {""}
  InfoName = {}
  None = None
  MayFail = {"Sorting"}
  MaxCallbacks = 2
  MaxCopies = 1
  MaxInstances = 1
  MaxFaults = 2
  MaxKills = 0
  MaxPending = 9
INVARIANTS
  StepsFollowSuccess
  EndsAreJustified
  WorkingMachinesAreAllowed
CHECK_DEADLOCK FALSE
