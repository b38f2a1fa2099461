SPECIFICATION MCSpec
CONSTANTS
  ProductID = {p1}
  ProcessContract = {"SP"}
  Color = {white}
  Tag = {t1}
  Note = {""}
  InfoName = {}
  None = None
  MayFail = {"GetInfo", "FetchContainer", "StoreProduct"}
  MaxCallbacks = 2
  MaxCopies = 2
  MaxInstances = 1
  MaxFaults = 2
  MaxKills = 1
  MaxPending = 5
INVARIANTS
  ToldAtMostOnce
PROPERTIES
  ImplementsProcess
CHECK_DEADLOCK FALSE
