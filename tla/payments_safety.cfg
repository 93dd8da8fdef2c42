SPECIFICATION Spec

CONSTANTS
    p1 = p1
    t1 = t1
    r1 = r1
    r2 = r2
    r3 = r3
    w1 = w1
    w2 = w2
    o1 = o1
    None = None
    Payments = {p1}
    Txns = {t1}
    Refunds = {r1, r2}
    Workers = {w1, w2}
    Operators = {o1}
    OrderOf <- OneOrder
    Price = 2
    Reports = {"success", "underpaid", "declined", "pending"}
    MaxAttempts = 1
    MaxAborts = 1

INVARIANTS
    TypeOK
    NeverOverRefunded
    AnnouncedRefundsReturned
    AnnouncedOnlyCaptured
    AnnouncedOncePerOverlap

PROPERTIES
    ImplementsLedger
    SoldStaysSold

SYMMETRY Interchangeable

CHECK_DEADLOCK FALSE
