SPECIFICATION Spec
CONSTANTS
    d1 = d1
    d2 = d2
    x1 = x1
    f1 = f1
    p1 = p1
    t1 = t1
    t2 = t2
    None = None
    Descramblers <- TwoDescramblers
    Demuxes <- OneDemux
    Filters <- OneFilter
    Pids <- OnePid
    Tokens <- TwoTokens
    MaxGeneration = 2
    MaxPublications = 2
SYMMETRY Symmetric
INVARIANTS
    TypeOK
    KeyReferencesExact
    SessionStateSound
    NoReleaseOwed
    OneSessionPerPacket
CHECK_DEADLOCK FALSE
