CONSTANTS
    Tables = {t1, t2}
    Zones = {z1}
    TableNames = {n1, n2}
    ZoneNames = {m1}
    NoZone = none
    MaxCalls = 2
    Hurry = FALSE
    Others = {"saveTable", "deleteTable", "saveZone", "deleteZone"}
    FloorFaults = {"fails"}
SPECIFICATION Spec
SYMMETRY Symmetry
VIEW Seen
INVARIANTS FloorIsTrue
PROPERTY HiddenOnlyByOverlap
