SPECIFICATION FairSpec
CONSTANTS
    Requests = {q1, q2}
    Tables <- MCTables
    Capacity <- MCCapacity
    Priority <- MCPriority
    Starts <- MCTwoStarts
    Durations <- MCDurations
    Parties <- MCManyParties
    Phones = {ana}
    Codes = {c1, c2}
    Nobody = Nobody
    EndStatuses = {"CANCELLED"}
    Switchable = {}
    HourChoices = {}
    small = small
    large = large
PROPERTIES EveryCallEnds ImplementsLedger
CHECK_DEADLOCK FALSE
