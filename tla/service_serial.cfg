CONSTANTS
    Names = {v1}
    Tasks = {t1, t2, t3}
    Nodes = {a, b}
    NoNode = NoNode
    Kind = "ceph"
    Repo = "postgres"
    MaxAttempts = 2
    MaxFaults = 2
SPECIFICATION SerialSpec
SYMMETRY Symmetry
INVARIANTS
    StableStateIsTrue
    MountIsNamed
    OneAtWork
PROPERTIES
    FollowsFsm
    ImplementsLifecycle
