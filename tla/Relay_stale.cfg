SPECIFICATION Spec
CONSTANTS
    a1 = a1
    d1 = d1
    d2 = d2
    Agents = {a1}
    Dialers = {d1}
    Conns = {1, 2, 3}
    MaxSaid = 1
    Plans <- OneDialer
CHECK_DEADLOCK FALSE
INVARIANT MatchedIsAccepted
