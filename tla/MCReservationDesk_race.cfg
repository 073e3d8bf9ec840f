SPECIFICATION DeskSpec
CONSTANTS
    Requests = {r1, q1}
    Movers = {m1}
    Earlier = {r1}
    Parties <- MCCouples
    PatchWishes = {}
    ModifyWishes <- MCMoves
    StatusChoices = {}
    MoversMayCrash = FALSE
    EndStatuses = {}
    Switchable = {}
    Codes = {c1, c2}
    DefaultStay = 2
    Tables <- MCTables
    Capacity <- MCCapacity
    Priority <- MCPriority
    Starts <- MCStarts
    Durations <- MCDurations
    Phones = {ana}
    Nobody = Nobody
    HourChoices = {}
    small = small
    large = large
SYMMETRY Symmetry
INVARIANTS NoOverbookingAtRest
CHECK_DEADLOCK FALSE
