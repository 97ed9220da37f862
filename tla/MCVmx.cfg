SPECIFICATION Spec
CONSTANTS
  N = 2
  Regions = {r1, r2, r3}
  NoRegion = none
  Slots = 2
  ControlFields = {"Primary", "Secondary"}
  Allowed0 <- MCAllowed0
  Allowed1 <- MCAllowed1
  Values <- MCValues
  Features = {"NestedVmx", "Ept", "Vpid", "VirtualTlbFlush"}
  EptpEntries = 1
  VpidCount = 1
  Operands <- MCOperands
  Descriptors <- MCDescriptors
  ShadowFields <- MCFields
  Writable = {0, 1}
  Configs <- MCConfigs
  FieldCounts = {0, 2, 3}
  MaxGeneration = 2
  ControlWords <- MCControlWords
  Vmcs12s <- MCVmcs12s
  Capabilities <- MCCapabilities
  Policies <- MCPolicies
  Word = 32
  LowWord = 16
  PageSize = 4
  MaxLength = 6
  Frames <- MCFrames
SYMMETRY Interchangeable
INVARIANT VcpuInv
INVARIANT OwnershipIsTruthful
INVARIANT BuildIsExact
INVARIANT AccessIsExact
PROPERTY ParkedIsFinal
PROPERTY NestedStateIsConsistent
PROPERTY ShadowKeepsGenerations
CHECK_DEADLOCK FALSE
