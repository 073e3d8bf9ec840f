SPECIFICATION Spec
CONSTANTS
    Payloads = {one}
    Messages = {m1}
    Carried <- MCCarried
    Kind <- MCKind
    Attempts = 3
    Concurrency = 5
    MaxStalled = 1
    Faults = {}
    MaxDeliveries <- MCDeliveries
    MaxCrashes = 1
    one = one
    both = both
    other = other
    status = status
    m1 = m1
    m2 = m2
INVARIANTS FailedIsBuried
CHECK_DEADLOCK FALSE
