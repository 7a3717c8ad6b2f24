SPECIFICATION ScansSpec
CONSTANTS
    strptime = strptime
    format = format
    other = other
    NoCall = NoCall
    Calls <- MCCalls
    SlotOf <- MCSlotOf
    MaxLabels = 2
    LabelMax = 14
    Ellipsis = 3
    Indent = 1
    Room = 6
    MaxLine = 3
    HeaderMin = 4
    Bytes = {65, 127, 128, 143, 144, 159, 160, 191, 193, 194, 223, 224, 237, 239, 240, 244, 245}
    MaxBytes = 4
    Limit = 20
    Saturated = 200
    Repeats <- MCRepeats
    Nesting = 2
    Characters = {40, 45, 47, 60}
    MaxLength = 5
    MaxTable = 21
    MaxLines = 3
    MaxInput = 6
    NInputs = 2
    MaxDepth = 2
    MaxNodes = 12
    Width = 3
    Objects <- MCObjects
    Sources <- MCSources
CHECK_DEADLOCK FALSE
INVARIANTS TextFits NamesItsSlots ExactlyUtf8 DecodesUtf8 CountsEveryRepeat ClosedExpansionBounded CountsEveryEntry LinesOfInput RefusesExactly
