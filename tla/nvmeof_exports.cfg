CONSTANTS
    Names = {v1, v2}
    Backends = {"ceph", "mock"}
    MaxFailures = 3
    MaxCrashes = 2
SPECIFICATION TargetSpec
INVARIANTS
    TargetTypeOK
    ListedIsServed
    NothingIsLeftInSilence
PROPERTIES
    DeviceIsStable
