SPECIFICATION Spec

CONSTANTS
    u1 = u1
    u2 = u2
    q1 = q1
    q2 = q2
    None = None
    Users = {u1, u2}
    Requests = {q1, q2}
    MaxEntries = 2
    MaxOddities = 1

INVARIANTS
    TypeOK
    OutcomeStands
    VotesAreEarned
    WinnerHasMostVotes
    OneEntryEach

SYMMETRY Interchangeable

CHECK_DEADLOCK FALSE
