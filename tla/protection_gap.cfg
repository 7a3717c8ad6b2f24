SPECIFICATION Spec
CONSTANTS
    Program <- Targets
    Scenarios = {"setlocale"}
    MaxObjects = 20
INVARIANTS NothingInUseCollected
