SPECIFICATION MCSpec
CONSTANTS
  Machine = {"VGR", "HBW", "MPO", "SLD"}
  MaxCopies = 2
  MaxCallbacks = 2
  MaxInputs = 2
  MaxFaults = 1
  MaxDeployments = 2
INVARIANTS
  CurrentTaskIsUnderWay
  CredentialsTellTheChain
PROPERTIES
  RequestsAreAnswered
  OperationsGetCredentials
CHECK_DEADLOCK FALSE
