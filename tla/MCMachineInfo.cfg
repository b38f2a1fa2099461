SPECIFICATION TablesSpec
CONSTANT MaxRecords = 3
INVARIANT MachineInfoIsShown
CHECK_DEADLOCK FALSE
