SPECIFICATION Spec
CONSTANTS
    t1 = t1
    t2 = t2
    Threads = {t1, t2}
    NoThread = NoThread
    Profile = {"None", "15V"}
    Outcomes = {"Applied", "Rejected", "Indeterminate"}
    MaxGeneration = 2
    Openings <- Reopenings
SYMMETRY ThreadSymmetry
CHECK_DEADLOCK FALSE
INVARIANTS RailCountExact RailAccounted
PROPERTIES LeaseKeepsPower
