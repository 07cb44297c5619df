\* Two sessions of one identity, right or wrong secret; nothing but tokens and
\* failures is cached.
SPECIFICATION Spec
CONSTANTS
    Threads = {t1, t2}
    Sessions = {s1, s2}
    ClientIDs = {id1}
    SignerIDs = {k1}
    t1 = t1
    t2 = t2
    s1 = s1
    s2 = s2
    id1 = id1
    k1 = k1
    NoThread = NoThread
    NoID = NoID
    NoCall = NoCall
    tokenSafetyMargin = 2
    authFailureCacheTTL = 2
    clientTimeout = 1
    TokenTTLSeconds = 1
    SignerTTLSeconds <- Disabled
    CertTTLSeconds <- Disabled
    MaxEpoch = 0
    Lifetimes = {4}
    Configs <- SharedConfigs
SYMMETRY ThreadAndSessionSymmetry
INVARIANTS
    TypeOK
    ThrottledSessionsDoNotLogIn
PROPERTIES
    BreakerSpec
