SPECIFICATION FairSpec
CONSTANTS
    Payloads = {one, both, other, status}
    Messages = {m1, m2}
    Carried <- MCCarried
    Kind <- MCKind
    Attempts = 2
    Concurrency = 5
    MaxStalled = 1
    Faults = {"lost answer", "store down", "bury fails"}
    MaxDeliveries <- MCDeliveries
    MaxCrashes = 2
    one = one
    both = both
    other = other
    status = status
    m1 = m1
    m2 = m2
INVARIANTS InboundInv AnsweredIsKept NotTwiceAtOnce BuriedWasGivenUp
PROPERTIES QueuedSettles
CHECK_DEADLOCK FALSE
