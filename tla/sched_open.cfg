SPECIFICATION Spec
CONSTANTS
    NumTerms = 2
    NumSlots = 3
    MaxNest = 2
    Interference = {"key_in_exec", "exit_unfocused", "tick_in_start", "exec_unfocused", "tick_in_call"}
INVARIANT TypeOK
INVARIANT TrapStack
CHECK_DEADLOCK FALSE
