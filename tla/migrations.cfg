SPECIFICATION Spec

CONSTANTS
    r1 = r1
    r2 = r2
    x = x
    y = y
    current = current
    behind = behind
    edited = edited
    Legacy = Legacy
    None = None
    Ids = {1, 2, 3}
    Runners = {r1, r2}
    Releases = {current, behind, edited}
    Contents = {x, y}
    File <- MCFile
    DownScript <- MCDownScript
    MaxCommands = 4

INVARIANTS
    TypeOK
    LedgerTellsSchema

PROPERTIES
    ImplementsChain
    CommandsEnd

CHECK_DEADLOCK FALSE
