\* Two threads, two digests, two addresses, five pairs of processes; fairness.
SPECIFICATION FairSpec
CONSTANTS
    Threads = {t1, t2}
    Digests = {d1, d2}
    Addresses = {a1, a2}
    t1 = t1
    t2 = t2
    d1 = d1
    d2 = d2
    a1 = a1
    a2 = a2
    v = v
    h = h
    RefusalCodes = {401, 403, 500}
    Empty = Empty
    scopeSkipped = scopeSkipped
    Unrestricted = Unrestricted
    NoBasis = NoBasis
    NotDenied = NotDenied
    Contexts <- MCContexts
    Configs <- MCConfigs
    Setups <- MCSetups
INVARIANTS
    TypeOK
    OnlyDeniedCasesSigned
    NoDuplicateRequests
    LogTellsWhatHappened
PROPERTIES
    RetriesSucceed
