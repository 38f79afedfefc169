SPECIFICATION Spec
CONSTANTS
    p1 = p1
    p2 = p2
    c1 = c1
    c2 = c2
    Peers = {p1, p2}
    Dialers = {p1}
    Commands = {c1, c2}
    Tried <- SomeTried
SYMMETRY Alike
CONSTRAINT Small
CHECK_DEADLOCK FALSE
INVARIANTS
    ListsConsistent
PROPERTY ImplementsRights
