SPECIFICATION Spec
CONSTANTS
    Messages = {m1, m2}
    Restaurants = {ra}
    Contents <- MCTalk
    Earlier <- MCNone
    Attempts = 1
    Concurrency = 1
    Faults = {}
    MaxRestarts = 0
    Guests = {two, four}
    Dates = {day}
    Times = {t1, t2}
    Codes = {c1, c2}
    two = two
    four = four
    day = day
    t1 = t1
    t2 = t2
    ra = ra
    c1 = c1
    c2 = c2
SYMMETRY Symmetry
INVARIANTS ChatterBooksNothing
CHECK_DEADLOCK FALSE
