SPECIFICATION MCSpec
CONSTANTS
  mock = mock
  owner = owner
  client = client
  process = process
  Temperature = Temperature
  MachineContract = {mock}
  Caller = {owner, client, process}
  machineOwner <- MCMachineOwner
  machineDID <- MCMachineDID
  Process = {process}
  ProductID = {p1}
  TaskName = {TaskWithProduct}
  ParamName = {taskInput}
  Param = {one}
  Note = {noProduct}
  InfoName = {serial}
  Info = {x1}
  ReadingType = {Temperature}
  AlertReading <- MCAlertReading
  AlertReadingType <- MCAlertReadingType
  None = None
  MaxTasks = 2
  MaxReadings = 1
INVARIANTS
  TypeOK
  StatusMatchesTimestamps
  FailuresAlertOnce
  IndexedTasksMatch
PROPERTY SettledTasksAreFinal
