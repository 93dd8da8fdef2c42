SPECIFICATION Spec

CONSTANTS
    q1 = q1
    q2 = q2
    q3 = q3
    None = None
    Requests = {q1, q2}
    FailureThreshold = 2
    SuccessThreshold = 2
    MaxRetries = 1
    MaxMishaps = 1

INVARIANTS
    TypeOK
    OpenCanRecover

PROPERTIES
    ClosedByProbes
    ServedOnce
    OpenRecovers

CHECK_DEADLOCK FALSE
