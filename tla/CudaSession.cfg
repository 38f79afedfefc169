SPECIFICATION FairSpec
CONSTANTS
    a1 = a1
    a2 = a2
    Apps = {a1, a2}
    Quitters = {a2}
    Uses <- MCUses
    Sizes = {1}
    Counts = {1}
    Payloads <- MCPayloads
    Vals = 2
    Caps = {3}
    HardCap = 2
    MaxSingle = 2
    MaxMemcpy = 2
    MaxFrame = 3
    Align = 1
    OpIds = 2
    MaxPtr = 3
CHECK_DEADLOCK FALSE
INVARIANTS
    AllowanceIsAccounted
    OffsetsNameNothing
    OrphansAreOfTheGone
PROPERTY ImplementsMemory
PROPERTY CallsReturn
