SPECIFICATION MCSpec
CONSTANTS
  ProductID = {p1}
  ProcessContract = {"SP"}
  Color = {red}
  Tag = {t1}
  Note = {""}
  InfoName = {}
  None = None
  MaxInstances = 1
  MaxTasks = 2
  MaxOperations = 3
  MaxOdd = 1
INVARIANTS
  ComponentsKeepTheirPromises
  
PROPERTIES
  InstancesAreLedgers
  
CHECK_DEADLOCK FALSE
