SPECIFICATION Spec
CONSTANTS
    Requests = {q1, q2, q3}
    Tables <- MCTables
    Capacity <- MCCapacity
    Priority <- MCPriority
    Starts <- MCStarts
    Durations <- MCDurations
    Parties <- MCParties
    Phones = {ana}
    Codes = {c1, c2}
    Nobody = Nobody
    EndStatuses = {"CANCELLED"}
    Switchable = {large}
    HourChoices <- MCHours
    small = small
    large = large
SYMMETRY Symmetry
INVARIANTS IInv NoDoubleBooking RefusedLeavesNothing
PROPERTIES BookedWithinHours FullMeansBooked
CHECK_DEADLOCK FALSE
