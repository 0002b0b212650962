CONSTANTS
    Names = {v1}
    Tasks = {t1}
    Nodes = {a}
    NoNode = NoNode
    Kind = "ceph"
    Repo = "postgres"
    MaxAttempts = 1
    MaxFaults = 1
    CephOnlys = {"ignore", "import"}
    MaxRestarts = 1
SPECIFICATION FairFeatureSpec
INVARIANTS
    FeatureTypeOK
    DrainedMeansReconciled
    NothingToImport
    DeletedMeansGone
PROPERTIES
    StartupEnds
