SPECIFICATION MCSpec
CONSTANTS
  ProductID = {p1}
  ProcessContract = {"SP"}
  Color = {white}
  Tag = {t1}
  Note = {""}
  InfoName = {}
  None = None
  MayFail = {"StoreProduct"}
  MaxCallbacks = 1
  MaxCopies = 1
  MaxInstances = 1
  MaxFaults = 0
  MaxKills = 0
  MaxPending = 9
INVARIANT SuccessMeansAllTasks
CHECK_DEADLOCK FALSE
