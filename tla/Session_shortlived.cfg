\* A token whose lifetime is longer than a login takes and shorter than twice the safety
\* margin, so that the floor of cacheExpiry applies.
SPECIFICATION Spec
CONSTANTS
    Threads = {t1, t2}
    Sessions = {s1}
    ClientIDs = {id1}
    SignerIDs = {k1}
    t1 = t1
    t2 = t2
    s1 = s1
    id1 = id1
    k1 = k1
    NoThread = NoThread
    NoID = NoID
    NoCall = NoCall
    tokenSafetyMargin = 2
    authFailureCacheTTL = 1
    clientTimeout = 2
    TokenTTLSeconds = 5
    SignerTTLSeconds = 1
    CertTTLSeconds = 1
    MaxEpoch = 1
    Lifetimes = {3}
    Configs <- RightConfig
INVARIANTS
    NoExpiredTokenSent
