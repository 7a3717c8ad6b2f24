SPECIFICATION LeftoversSpec
CONSTANTS
    Program <- Closures
    Matches <- Globs
    Slots = {"reader", "chunks", "gzcon", "pushback", "write", "text", "unserialize", "extract", "unz", "palette", "options"}
    Eager = {"reader", "pushback", "text", "unz", "palette"}
    NCalls = 17
    FirstUtf8Call = 15
    MayFail = TRUE
INVARIANTS PlainNamesRemoved ViewsAgree RightUnlessMissed
PROPERTIES EagerLeavesNothing DeferredReleased
