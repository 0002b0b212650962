CONSTANTS
    Names = {v1}
    Tasks = {t1, t2}
    Nodes = {}
    NoNode = NoNode
    Kind = "mock"
    Repo = "inmemory"
    MaxAttempts = 2
    MaxFaults = 0
SPECIFICATION Spec
PROPERTIES
    FollowsFsm
