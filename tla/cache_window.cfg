SPECIFICATION Spec

CONSTANTS
    a = a
    b = b
    r1 = r1
    w1 = w1
    w2 = w2
    None = None
    Keys = {a}
    Readers = {r1}
    Writers = {w1}
    MaxUpdates = 2

PROPERTIES
    NoWriteAfterInvalidation

CHECK_DEADLOCK FALSE
