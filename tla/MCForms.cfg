SPECIFICATION Spec
CONSTANTS
    Page <- Pages
    Rows = 3
    Cols = 4
    Char = {"a", "w"}
    Wide = {"w"}
    Handle = {1}
    U64 = 9
    CHECKBOX_MAX_LEN = 2
    MaxKeys = 4
    MaxUpdates = 1
CHECK_DEADLOCK FALSE
INVARIANTS FocusOnScreen TabGoesRound SelectorInside ScreenIsCurrent
PROPERTIES InputKept TypedAppears
