CONSTANTS
    Names = {v1}
    Tasks = {t1, t2}
    Nodes = {a, b}
    NoNode = NoNode
    Kind = "ceph"
    Repo = "inmemory"
    MaxAttempts = 2
    MaxFaults = 1
SPECIFICATION FairHttpSpec
INVARIANTS
    HttpTypeOK
    BodyIsAboutRequest
    Attended
PROPERTIES
    AcceptanceIsTrue
    RequestsAnswered
    TasksFinish
    Settles
