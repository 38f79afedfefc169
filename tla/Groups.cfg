SPECIFICATION Spec
CONSTANTS
    n1 = n1
    n2 = n2
    n3 = n3
    g1 = g1
    w1 = w1
    w2 = w2
    Nodes = {n1, n2, n3}
    Names = {g1}
    PairedWith <- AllPaired
    Workers = {w1, w2}
    Overlaps = {FALSE, TRUE}
    MaxCommands <- FewerIfTheyOverlap
CHECK_DEADLOCK FALSE
SYMMETRY Alike
INVARIANT OnlyInvited
PROPERTIES
    JoinedStays
    GroupStepsAreMembership
