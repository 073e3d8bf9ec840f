SPECIFICATION DeskSpec
CONSTANTS
    Requests = {r1, r2}
    Movers = {m1}
    Earlier = {r1, r2}
    Parties <- MCParties
    PatchWishes <- MCPatches
    ModifyWishes <- MCModifies
    StatusChoices = {}
    MoversMayCrash = TRUE
    EndStatuses = {"CANCELLED"}
    Switchable = {large}
    Codes = {c1, c2}
    DefaultStay = 2
    Tables <- MCTables
    Capacity <- MCCapacity
    Priority <- MCPriority
    Starts <- MCStarts
    Durations <- MCDurations
    Phones = {ana}
    Nobody = Nobody
    HourChoices = {}
    small = small
    large = large
SYMMETRY Symmetry
INVARIANTS DeskInv NoOverbookingAtRest SeatedAtRest WindowsWellFormed
CHECK_DEADLOCK FALSE
