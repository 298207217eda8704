SPECIFICATION DevFairSpec
CONSTANTS
    Terms = {0, 1}
    BufSize = 3
    Letters <- MCLetters
    Completions = {3}
    InRead = {"enter"}
    ClockUsers = {0, 1}
INVARIANTS TypeOK CopyStaysInside WholeLineOnce ReturnsAfterTick
PROPERTIES LineArrives RtcReturns
