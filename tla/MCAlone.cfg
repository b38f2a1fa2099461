SPECIFICATION MCSpec
CONSTANTS
  Key = {k1, k2, k3, k4, k5}
  Name = {n1, n2, n3}
  Contract = {c1, c2}
  NoName = NoName
  Zero = Zero
  ProductID = {p1, p2}
  Address = {user, contract}
  Account = {user}
  OpName = {Sorting, Identify}
  Value = {v1}
  InfoName = {weight}
  Identification = Identify
  None = None
  MaxOperations = 3
  MaxInfo = 1
  MaxRecords = 3
  MachineEmitter = {VGR}
  ProcessEmitter = {Supplying}
  MaxBlocks = 3
  MaxPastEvents = 2
  MaxSearches = 2
  MaxInstances = 2
  LastStep = 2
  KnownProduct = {w1, w2}
  MaxMoves = 2
  MaxComputations = 3
  MaxSending = 1
  MaxRequests = 2
  Network = {ganache, rinkeby, mainnet}
  DeployedOn = {ganache, rinkeby}
  MaxLoads = 2
  Credential = {valid, forged, garbled}
  Verified = {valid}
  Decodable = {valid, forged}
  NoContracts = NoContracts
  NoText = NoText
INVARIANTS
  PointersAgree
  LabelsLeadBack
  
  IDsAreBijective
  HistoriesAgree
  TablesShowWhatWasCounted
  LiveRowsFollowTheChain
  
  
  SentInputsAreValid
  ShownIsSound
PROPERTIES
  ImplementsSet
  NamesAreForever
  ProvenanceIsPermanent
  ListsSettle
CHECK_DEADLOCK FALSE
