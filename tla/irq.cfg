SPECIFICATION FairSpec
CONSTANTS
    NumTerms = 2
    Keys <- MCKeys
    BootKeys <- MCBootKeys
    MaxLine = 1
    MaxDepth = 2
INVARIANTS TypeOK ServiceEnds UserInterruptible BootKept IdxKept
PROPERTIES Served
