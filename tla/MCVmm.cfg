CONSTANT N = 2
CONSTANT RetryLimit = 2
SPECIFICATION Spec
INVARIANT VmmInv
INVARIANT StorageRetained
INVARIANT RunningIsWhole
INVARIANT StagedLaunchInOrder
INVARIANT CoordinatorOffTarget
INVARIANT OneStopAtATime
INVARIANT StopSuccessIsProof
INVARIANT CrashBlobOwned
INVARIANT OrderInv
PROPERTY QuarantineIsFinal
PROPERTY UsesVcpu
PROPERTY ImplementsOwnership
CHECK_DEADLOCK FALSE
