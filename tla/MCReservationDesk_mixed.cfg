SPECIFICATION DeskSpec
CONSTANTS
    Requests = {r1, r2, q1}
    Movers = {m1, m2}
    Earlier = {r1, r2}
    Parties <- MCCouples
    PatchWishes <- MCSeatPatches
    ModifyWishes = {}
    StatusChoices = {"CONFIRMED"}
    MoversMayCrash = TRUE
    EndStatuses = {}
    Switchable = {}
    Codes = {c1, c2, c3}
    DefaultStay = 2
    Tables <- MCTables
    Capacity <- MCCapacity
    Priority <- MCPriority
    Starts <- MCStarts
    Durations <- MCDurations
    Phones = {ana}
    Nobody = Nobody
    HourChoices = {}
    small = small
    large = large
SYMMETRY Symmetry
VIEW Seen
INVARIANTS UntouchedNeverCollide
CHECK_DEADLOCK FALSE
