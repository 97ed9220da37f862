CONSTANT N = 2
CONSTANT RetryLimit = 1
SPECIFICATION FairSpec
PROPERTY CoordinatorSettles
CHECK_DEADLOCK FALSE
