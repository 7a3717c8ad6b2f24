SPECIFICATION Spec
CONSTANTS
    NCalls = 17
    FirstUtf8Call = 15
    MayFail = TRUE
INVARIANT RightLocale
