SPECIFICATION Spec
CONSTANTS
  MaxRip = 2
  Components <- MCComponents
  XsavesMask <- MCXsavesMask
  Files = {f1, f2}
  Threads = {t1, t2}
  MaxSessions = 2
  GenerationWidth = 2
  MaxClient = 2
  MaxOpens = 3
  Features <- MCFeatures
  Generations <- MCGenerations
  Observations <- MCObservations
  Hosts <- MCHosts
SYMMETRY Interchangeable
INVARIANT SessionsArePrivate
INVARIANT GateFailsClosed
PROPERTY ExitsKeepTheGuest
PROPERTY LeasesFollowThePlatform
CHECK_DEADLOCK FALSE
