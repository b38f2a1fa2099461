SPECIFICATION LiveSpec
CONSTANTS
  ProductID = {p1}
  ProcessContract = {"SP", "PP"}
  Color = {white}
  Tag = {t1}
  Note = {""}
  InfoName = {}
  None = None
  MayFail = {"GetInfo", "FetchContainer", "StoreProduct", "FetchProduct", "Sorting"}
  MaxCallbacks = 2
  MaxCopies = 1
  MaxInstances = 1
  MaxFaults = 1
  MaxKills = 0
  MaxPending = 9
PROPERTY InstancesEnd
CHECK_DEADLOCK FALSE
