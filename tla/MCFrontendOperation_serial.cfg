SPECIFICATION FairSpec
CONSTANTS
    Threads = {t1}
    Requests = {r1}
    None = None
    MaxGen = 3
    Candidates = 2
    Opens = 2
    Calls = {"tune", "scan", "stopTune", "stopScan", "close"}
    Faults = {"observe", "stop", "submit", "boundary", "deadline"}
    t1 = t1
    r1 = r1
CHECK_DEADLOCK FALSE

    
PROPERTIES WorkEnds
