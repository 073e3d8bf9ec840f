SPECIFICATION Spec
CONSTANTS
    Requests = {q1, q2}
    Tables <- MCTables
    Capacity <- MCCapacity
    Priority <- MCPriority
    Starts <- MCStarts
    Durations <- MCDurations
    Parties <- MCParties
    Phones = {ana}
    Codes = {c1, c2}
    Nobody = Nobody
    EndStatuses = {"CANCELLED"}
    Switchable = {}
    HourChoices = {}
    small = small
    large = large
SYMMETRY Symmetry
INVARIANTS OneCallAtATime
CHECK_DEADLOCK FALSE
