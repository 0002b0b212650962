CONSTANTS
    Names = {v1}
    Tasks = {t1}
    Nodes = {a}
    NoNode = NoNode
    Kind = "ceph"
    Repo = "inmemory"
    MaxAttempts = 1
    MaxFaults = 2
    Streams = {s1}
    Capacity = 3
SPECIFICATION FairStreamSpec
INVARIANTS
    StreamTypeOK
    EndIsComing
    AuditKeepsUp
PROPERTIES
    StreamsEnd
