SPECIFICATION MCSpec
CONSTANTS
  ProductID = {p1, p2}
  ProcessContract = {"SP", "PP"}
  Color = {red}
  Tag = {t1}
  Note = {""}
  InfoName = {}
  None = None
  mnemonic <- MCMnemonic
  MaxSeeds = 2
INVARIANTS
  SeededIsInit
  AcceptedProcessesAreWired
  ProductsFollowTheMnemonic
CHECK_DEADLOCK FALSE
