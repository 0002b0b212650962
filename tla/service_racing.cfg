CONSTANTS
    Names = {v1}
    Tasks = {t1, t2}
    Nodes = {a, b}
    NoNode = NoNode
    Kind = "ceph"
    Repo = "postgres"
    MaxAttempts = 2
    MaxFaults = 1
SPECIFICATION Spec
SYMMETRY Symmetry
INVARIANTS
    TypeOK
    NodeRecorded
    OneCreator
    DeletedMeansGone
    DrainedMeansQuiet
