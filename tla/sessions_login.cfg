SPECIFICATION Spec

CONSTANTS
    q1 = q1
    q2 = q2
    Requests = {q1, q2}
    MaxTokens = 3
    MaxCodes = 2
    MaxBegun = 5

INVARIANTS
    LoginHelps

SYMMETRY Interchangeable

CHECK_DEADLOCK FALSE
