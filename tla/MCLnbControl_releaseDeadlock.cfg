SPECIFICATION FairSpec
CONSTANTS
    t1 = t1
    t2 = t2
    Threads = {t1, t2}
    NoThread = NoThread
    Profile = {"None", "15V"}
    Outcomes = {"Applied", "Rejected"}
    MaxGeneration = 2
    Openings <- OneFrontend
CHECK_DEADLOCK FALSE
PROPERTIES GateReleased
