\* Two sessions with the same bad credentials.
SPECIFICATION Spec
CONSTANTS
    Threads = {t1, t2}
    Sessions = {s1, s2}
    ClientIDs = {id1}
    SignerIDs = {k1}
    t1 = t1
    t2 = t2
    s1 = s1
    s2 = s2
    id1 = id1
    k1 = k1
    NoThread = NoThread
    NoID = NoID
    NoCall = NoCall
    tokenSafetyMargin = 1
    authFailureCacheTTL = 1
    clientTimeout = 1
    TokenTTLSeconds = 5
    SignerTTLSeconds <- Disabled
    CertTTLSeconds <- Disabled
    MaxEpoch = 0
    Lifetimes = {4}
    Configs <- WrongConfig
INVARIANTS
    OneFailurePerWindow
