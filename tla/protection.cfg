SPECIFICATION Spec
CONSTANTS
    Program <- Targets
    Scenarios = {"string", "parse", "raw", "io", "sort", "encoding", "character", "datetime", "format", "eval"}
    MaxObjects = 20
INVARIANTS NothingInUseCollected StackBalanced CallsRooted
