CONSTANTS
    Names = {v1}
    Tasks = {t1}
    Nodes = {a}
    NoNode = NoNode
    Kind = "ceph"
    Repo = "postgres"
    MaxAttempts = 1
    MaxFaults = 0
    CephOnlys = {"ignore"}
    MaxRestarts = 1
SPECIFICATION FairPatientSpec
PROPERTIES
    UnfinishedMovesOn
