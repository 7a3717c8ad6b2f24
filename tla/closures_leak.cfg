SPECIFICATION Spec
CONSTANTS
    Program <- Closures
    Matches <- Globs
    Slots = {"write", "chunks", "gzcon"}
    Eager = {}
INVARIANT ClosesOnExit
