SPECIFICATION Spec
CONSTANTS
    Attempts = 5
    MaxRevision = 2
    Parts = {1, 2}
    NPatches = 3
    NFixes = 2
    TwoHunks = {1, 2}
    MaxReruns = 1
CHECK_DEADLOCK FALSE
INVARIANTS CheckoutResumed RerunAgrees StrictTakesAll
