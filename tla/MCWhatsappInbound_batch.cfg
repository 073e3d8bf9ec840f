SPECIFICATION Spec
CONSTANTS
    Payloads = {both}
    Messages = {m1, m2}
    Carried <- MCCarried
    Kind <- MCKind
    Attempts = 3
    Concurrency = 5
    MaxStalled = 1
    Faults = {}
    MaxDeliveries <- MCDeliveries
    MaxCrashes = 0
    one = one
    both = both
    other = other
    status = status
    m1 = m1
    m2 = m2
INVARIANTS EveryMessageHandled
CHECK_DEADLOCK FALSE
