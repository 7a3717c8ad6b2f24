SPECIFICATION FairSpec
CONSTANTS
    Root = fuzzer
    Timeout = 2
    Sub = 2
    PollMax = 1
    InputMod = 4
    FirstInput = 2
    MaxInputs = 2
    Lenient = TRUE
CHECK_DEADLOCK FALSE
INVARIANTS ClockBracketed YoungTickNeedsDelay DumpOnlyOutOfTime FinishedNotReported DumpNotStale LabelOfThisInput ClockNotTorn
PROPERTIES HungInputReported HeldTickLetGo
