SPECIFICATION Spec
CONSTANTS
  N = 2
  Machines <- MCMachines
  OsStates <- MCOsStates
  FrameMax = 9
  MaxDrift = 1
  Inputs <- MCInputs
  MaxFaults = 2
  ProcessorCount = 2
  Kinds <- MCKinds
  Limits = {1, 2}
  Payloads <- MCPayloads
  Places <- MCPlaces
  Expected = {0, 1, 2}
  Requests <- MCRequests
  MaxSamples = 2
  Hosts <- MCHosts
  CpuidPolicies <- MCCpuidPolicies
  MsrPolicies <- MCMsrPolicies
  Msrs = {"Tsc", "Efer"}
  Values = {{}, {"a"}, {"a", "b"}}
  BlobSize = 3
  Allowed <- MCAllowed
INVARIANT LoadKeepsItsContract
INVARIANT MatrixSpeaksForAll
INVARIANT PolicyIsConsistent
PROPERTY SetupIsTruthful
PROPERTY ProbeIsTruthful
PROPERTY DumpIsTruthful
CHECK_DEADLOCK FALSE
