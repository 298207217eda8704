SPECIFICATION Spec
CONSTANTS
    Terms = {0, 1}
    Rows = 2
    Cols = 2
    Chars = {"a", "sp"}
    NL = "nl"
    SP = "sp"
    Texts <- MCTexts
    Notes <- MCNotes
    Full <- MCFull
    Drawers = {1}
    Overlaps = {}
    MaxInk = 3
CONSTRAINT InkBound
INVARIANT TypeOK
PROPERTY OneScreenEach
