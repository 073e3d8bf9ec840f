CONSTANTS
    Calls = {c1, c2}
    Kinds = {"cancel", "no-show", "status", "by code"}
    Faults = {"crash", "throw"}
    Tabs = {t1}
    Slots = {s1, s2}
    AgendaFaults = {"socket"}
    MaxEvents = 2
SPECIFICATION AgendaSpec
SYMMETRY Symmetry
VIEW Seen
INVARIANTS ReasonsAreReal AgendaIsTrue
