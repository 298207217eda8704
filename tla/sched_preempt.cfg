SPECIFICATION FairSpec
CONSTANTS
    NumTerms = 3
    NumSlots = 4
    MaxNest = 1
    Interference = {"tick_in_call"}
INVARIANT ControlKept
INVARIANT RunsMain
INVARIANT TaskReady
INVARIANT ParentIsCaller
INVARIANT NoSlotLeaked
PROPERTY OthersIntact
PROPERTY NoStarvation
PROPERTY LoadEnds
