SPECIFICATION Spec
CONSTANTS
    p1 = p1
    p2 = p2
    c1 = c1
    c2 = c2
    Peers = {p1}
    Dialers = {p1}
    Commands = {c1}
    Tried <- SomeTried
CHECK_DEADLOCK FALSE
PROPERTY DenyRevokes
