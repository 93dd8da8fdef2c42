SPECIFICATION Spec

CONSTANTS
    a = a
    b = b
    r1 = r1
    w1 = w1
    w2 = w2
    None = None
    Keys = {a, b}
    Readers = {r1}
    Writers = {w1, w2}
    MaxUpdates = 2

INVARIANTS
    TypeOK
    StaleWriteRefused
    FreshOutsideTheWindow

SYMMETRY Interchangeable

CHECK_DEADLOCK FALSE
