SPECIFICATION Spec
CONSTANTS
    NumTerms = 3
    NumSlots = 5
    MaxNest = 1
    Interference = {"nested_exec"}
INVARIANT ParentIsCaller
