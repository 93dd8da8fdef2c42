SPECIFICATION Spec

CONSTANTS
    q1 = q1
    q2 = q2
    q3 = q3
    Requests = {q1, q2, q3}
    MaxFailedAttempts = 3

INVARIANTS
    TypeOK
    TriesAreBounded
    LimitLocks

SYMMETRY Interchangeable

CONSTRAINT FewTries

CHECK_DEADLOCK FALSE
