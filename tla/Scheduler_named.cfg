SPECIFICATION ScheduleSpec
CONSTANTS
    p1 = p1
    p2 = p2
    p3 = p3
    nobody = nobody
    Peers = {p1, p2, p3}
    NoPeer = nobody
    NameOf <- Names
    Requests <- Asked
    Answers <- Said
INVARIANTS
    RunsWhereScheduled
