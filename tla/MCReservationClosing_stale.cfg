SPECIFICATION Spec
CONSTANTS
    Calls = {c1, c2}
    Kinds = {"no-show", "status"}
    Faults = {}
SYMMETRY Symmetry
INVARIANTS LogIsTrue
CHECK_DEADLOCK FALSE
