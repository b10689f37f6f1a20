SPECIFICATION Spec
CONSTANTS
    Threads = {t1, t2}
    Requests = {r1}
    None = None
    MaxGen = 3
    Candidates = 1
    Opens = 1
    Calls = {"tune", "scan", "stopTune", "stopScan", "close"}
    Faults = {"submit"}
    t1 = t1
    t2 = t2
    r1 = r1
SYMMETRY ThreadSymmetry
CHECK_DEADLOCK FALSE
INVARIANTS
    WorkersAccounted
PROPERTIES
    StaleWorkerInert
