SPECIFICATION FairSpec
CONSTANTS
    a1 = a1
    d1 = d1
    d2 = d2
    Agents = {a1}
    Dialers = {d1, d2}
    Conns = {1, 2, 3, 4}
    MaxSaid = 1
    Plans <- TwoDialersOrTwoFaults
CHECK_DEADLOCK FALSE
INVARIANTS
    RelayedInOrder
PROPERTIES
    AgentReturns
    DialIsAnswered
