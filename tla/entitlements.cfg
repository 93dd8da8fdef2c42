SPECIFICATION Spec

CONSTANTS
    s1 = s1
    s2 = s2
    k1 = k1
    k2 = k2
    None = None
    Sales = {s1, s2}
    Slots = {k1, k2}
    MaxExtensions = 1
    MaxMishaps = 1

INVARIANTS
    TypeOK
    OwnershipWasPaid
    ExtensionsWithinCap
    RefundedRentalsEnd
    RefundedReaderHasNothing
    NothingPaidInVain

SYMMETRY Interchangeable

CHECK_DEADLOCK FALSE
