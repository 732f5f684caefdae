SPECIFICATION Spec
CONSTANTS
    Conns = {c1, c2}
    Handles <- HandleValues
    Null = Null
    Main = Main
SYMMETRY AlikeConns
INVARIANTS
    OwnedOnce
    BorrowedIsOwn
    UsesOpen
CHECK_DEADLOCK FALSE
