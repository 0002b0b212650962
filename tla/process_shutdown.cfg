CONSTANTS
    Names = {v1}
    Tasks = {t1, t2}
    Nodes = {a}
    NoNode = NoNode
    Kind = "ceph"
    Repo = "postgres"
    MaxAttempts = 1
    MaxFaults = 0
    MaxDuration = 31
    Saturates = FALSE
    RetryPolicies <- MCRetryPolicies
    MaxSleeps = 5
SPECIFICATION FairProcessSpec
INVARIANTS
    ProcessTypeOK
    NoUseAfterClose
    NothingLeftOpen
    BackoffIsBounded
PROPERTIES
    ShutdownEnds
CHECK_DEADLOCK FALSE
