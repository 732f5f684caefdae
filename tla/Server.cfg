SPECIFICATION FairSpec
CONSTANTS
    Conns = {c1, c2}
    None = None
INVARIANTS
    WaitsForItsOwn
    SessionOwnsItsConn
    EndedNotKept
PROPERTIES
    NoOrphan
    SessionEnds
    Served
    SessionsSpec
CHECK_DEADLOCK FALSE
