SPECIFICATION FairSpec
CONSTANTS
    s1 = s1
    s2 = s2
    none = none
    Servers = {s1, s2}
    NoPid = none
    MaxStops = 2
    MaxEdits = 2
CHECK_DEADLOCK FALSE
INVARIANTS
    PidNamesTheServer
    NobodyStopsUnasked
    EditsSurvive
PROPERTIES
    StopIsObeyed
