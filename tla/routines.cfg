SPECIFICATION Spec
CONSTANTS
    BlockSize = 2
    NameLen = 2
    NumDirs = 5
    LineSize = 5
    MaxBlock = 2
    InodeCount = 1
    MaxString = 6
    MaxFile = 7
    HexDigits = 2
    WordSize = 4
    MemTop = 11
    BufSize = 3
    Writers = {1, 2}
    Dir <- MCDir
    Disk <- MCDisk
    Calls <- MCCalls
INVARIANTS ReadsSlice FindsTheName CompletesToName ParsesBack ReadsBack CopiesBytes GrepsLines FrequencyKept
CHECK_DEADLOCK FALSE
