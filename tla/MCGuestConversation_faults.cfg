SPECIFICATION FairSpec
CONSTANTS
    Messages = {m1, m2}
    Restaurants = {ra}
    Contents <- MCFaults
    Earlier <- MCOne
    Attempts = 2
    Concurrency = 2
    Faults = {"throw", "lose", "restart"}
    MaxRestarts = 1
    Guests = {two, four}
    Dates = {day}
    Times = {t1, t2}
    Codes = {c1, c2, c3}
    two = two
    four = four
    day = day
    t1 = t1
    t2 = t2
    ra = ra
    c1 = c1
    c2 = c2
INVARIANTS ConversationInv ConfirmedMeansBooked OneBookingPerRun
PROPERTIES EveryMessageSettles
CHECK_DEADLOCK FALSE
