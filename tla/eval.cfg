\* A budget of four polls over at most three expressions: an input can spend
\* it inside one expression, across two, or finish with some of it left.
SPECIFICATION FairSpec
CONSTANTS
    Budget   = 4
    MaxExprs = 3
INVARIANTS
    OffBetweenInputs
    NeverUnlimited
    CutAtFirstPoll
PROPERTIES
    InputEnds
