SPECIFICATION Spec
CONSTANTS
  e1 = e1
  e2 = e2
  c1 = c1
  c2 = c2
  d1 = d1
  g1 = g1
  g2 = g2
  Slots <- MCEntries
  Cpus <- MCCpus
  Downs = {d1}
  VpidMaximum = 2
  MaxGeneration = 2
  Deadline = 1
  PageShift = 7
  OrderShift = 1
  PhysicalBits = 9
  WordBits = 10
  MaxPages = 2
  Gpas <- MCGpas
  Roots <- MCRoots
  Rates <- MCRates
  HookCpus <- MCCpus
  Txns <- MCEntries
  MaxEptGeneration = 3
  MaxTime = 2
  Leases <- MCLeases
  HookRequests <- MCHookRequests
  Devices = {d1}
  AssignmentSlots <- MCEntries
  Owners <- MCOwners
  Domains <- MCDomains
  Profiles <- MCProfiles
  Features <- MCFeatures
  MaxIommuGeneration = 2
  IommuPageShift = 2
  MaxBits = 5
  DomainBits = 4
  MaxMsix = 2
  QueueDepth = 2
  MaxSequence = 3
  MaxQueueGeneration = 2
  FirstExternal = 3
  VectorCount = 6
  ClassSize = 2
  Sources <- MCSources
  TimeBits = 4
  FractionBits = 2
  Offsets <- MCOffsets
  Scales <- MCScales
  Steps <- MCSteps
  Minima <- MCMinima
  MaxDrift = 8
  MaxCalibrations = 2
  MaxVcpus = 2
  MaxMappings = 2
  MaxRuns = 1
  PartitionGenerations <- MCGenerations
  WhpFeatures <- MCWhpFeatures
  Flags <- MCFlags
  GpaMappings <- MCMappings
  Reasons <- MCReasons
SYMMETRY Interchangeable
INVARIANT TimedOutCanBeQuarantined
CHECK_DEADLOCK FALSE
