SPECIFICATION Spec
CONSTANTS
    Calls = {c1}
    Kinds = {"cancel"}
    Faults = {"crash"}
SYMMETRY Symmetry
INVARIANTS ReasonOnFile
CHECK_DEADLOCK FALSE
