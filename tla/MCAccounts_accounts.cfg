SPECIFICATION Spec
CONSTANTS
    Users = {u}
    Passwords = {p1, p2, p3}
    Calls = {c1, c2}
    Links = {l1}
    Actors = {"OWNER"}
    NewRoles = {"STAFF"}
    Edits <- MCEdits
    MailAttempts = 2
    MaxStalled = 1
    MaxCrashes = 1
    Faults = {"store down", "smtp", "unacknowledged", "bury fails"}
    HistoryLimit = 4
    TeamTake = 2
    LockAfter = 2
    MaxFails = 3
    Ops = {"login", "forgot", "reset", "create", "edit", "provision", "legacy"}
    Overlaps = {}
INVARIANTS AccountsInv FailuresLock RecentDiffer
SYMMETRY Symmetry
