CONSTANTS
    Names = {v1}
    Tasks = {t1}
    Nodes = {a, b}
    NoNode = NoNode
    Kind = "mock"
    Repo = "inmemory"
    MaxAttempts = 2
    MaxFaults = 0
SPECIFICATION Spec
SYMMETRY Symmetry
INVARIANTS
    RowNamesMount
