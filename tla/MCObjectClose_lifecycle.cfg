SPECIFICATION FairSpec
CONSTANTS
    demux1 = demux1
    dvr1 = dvr1
    frontend1 = frontend1
    t1 = t1
    t2 = t2
    Demuxes = {demux1}
    Children = {dvr1}
    Dvrs = {dvr1}
    Parent <- OneDemux
    Frontends = {frontend1}
    Clients = {t1, t2}
    MaxFaults = 1
    MaxCalls = 3
CHECK_DEADLOCK FALSE
INVARIANTS TreeConsistent OneAttemptPerRoot
PROPERTIES TerminalIsFinal CloseEnds
