CONSTANTS
    a1 = a1
    a2 = a2
    a3 = a3
    k1 = k1
    k2 = k2
    s1 = s1
    s2 = s2
    b0 = b0
    b1 = b1
    Attempt = {a1, a2, a3}
    Session = {s1, s2}
    Key = {k1, k2}
    KeyOf <- TwoNodes
    Bit = {b0, b1}
    None = None
SYMMETRY Symmetric
SPECIFICATION Spec
CHECK_DEADLOCK FALSE
INVARIANTS
    RegisteredInOneHandshake
    RegistersOnce
