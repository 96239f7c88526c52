CONSTANTS
    Offer = {o1, o2}
    MaxConns = 1
SPECIFICATION Spec
CHECK_DEADLOCK FALSE
INVARIANTS
    NeverCrashes
