SPECIFICATION Spec
CONSTANTS
    a = a
    b = b
    c = c
    h = h
    t = t
    u = u
    NoAddr = NoAddr
    NoText = NoText
    Addr <- MCAddr
    BigAddr <- MCBigAddr
    Handle <- MCHandle
    Text <- MCText
    AppSlot = {0}
    BigSlot = 9
    SliceId = {0}
    Version = {1, 2}
    MaxSessions = 2
    MaxCalls = 3
    MaxRuns = 2
CHECK_DEADLOCK FALSE
INVARIANT OpenAnswersAsked
