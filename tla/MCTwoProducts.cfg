SPECIFICATION MCSpec
CONSTANTS
  ProductID = {p1, p2}
  ProcessContract = {"SP"}
  Color = {white}
  Tag = {t1, t2}
  Note = {""}
  InfoName = {}
  None = None
  MayFail = {"GetInfo", "FetchContainer", "StoreProduct"}
  MaxCallbacks = 1
  MaxCopies = 1
  MaxInstances = 2
  MaxFaults = 0
  MaxKills = 0
  MaxPending = 9
SYMMETRY MCSymmetry
INVARIANTS
  
  ProductsLeadToTheirLatestProcess
CHECK_DEADLOCK FALSE
