SPECIFICATION DeskSpec
CONSTANTS
    Requests = {r1}
    Movers = {m1, m2}
    Earlier = {r1}
    Parties <- MCCouples
    PatchWishes <- MCTimePatches
    ModifyWishes = {}
    StatusChoices = {}
    MoversMayCrash = FALSE
    EndStatuses = {}
    Switchable = {}
    Codes = {c1, c2}
    DefaultStay = 2
    Tables <- MCTables
    Capacity <- MCCapacity
    Priority <- MCPriority
    Starts <- MCStarts
    Durations <- MCDurations
    Phones = {ana}
    Nobody = Nobody
    HourChoices = {}
    small = small
    large = large
SYMMETRY Symmetry
INVARIANTS WindowsWellFormed
CHECK_DEADLOCK FALSE
