SPECIFICATION Spec
CONSTANTS
    NumTerms = 3
    NumSlots = 4
    MaxNest = 1
    Interference = {"tick_in_call"}
INVARIANT ImageIntact
