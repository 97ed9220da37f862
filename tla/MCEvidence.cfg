SPECIFICATION Spec
CONSTANTS
  Writers = {w1, w2}
  Capacity = 3
  TailRecords = 2
  MaxWrites = 4
  Starts <- MCStarts
  Requests <- MCRequests
  MaxFaults <- MCMaxFaults
  t1 = t1
  t2 = t2
  Tools <- MCTools
  Paths <- MCPaths
  Options <- MCOptions
  Supplied <- MCSupplied
  MaxTouches = 2
SYMMETRY Interchangeable
INVARIANT TailIsTruthful
INVARIANT VerdictIsBorneOut
INVARIANT ToolIsTruthful
CHECK_DEADLOCK FALSE
