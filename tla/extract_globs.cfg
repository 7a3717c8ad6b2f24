SPECIFICATION Spec
CONSTANTS
    Program <- Closures
    Matches <- Globs
    Slots = {"extract"}
    Eager = {}
INVARIANT EmptiedOnExit
