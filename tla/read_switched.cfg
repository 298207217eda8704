SPECIFICATION DevSpec
CONSTANTS
    Terms = {0, 1}
    BufSize = 3
    Letters <- MCLetters
    Completions = {3}
    InRead = {"enter", "switch"}
    ClockUsers = {}
INVARIANT OwnKeyboard
