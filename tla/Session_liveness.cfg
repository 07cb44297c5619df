\* Fairness, one correctly configured session, everything cached for a tick, one change
\* of the directory.
SPECIFICATION FairSpec
CONSTANTS
    Threads = {t1, t2}
    Sessions = {s1}
    ClientIDs = {id1}
    SignerIDs = {k1}
    t1 = t1
    t2 = t2
    s1 = s1
    id1 = id1
    k1 = k1
    NoThread = NoThread
    NoID = NoID
    NoCall = NoCall
    tokenSafetyMargin = 1
    authFailureCacheTTL = 2
    clientTimeout = 1
    TokenTTLSeconds = 5
    SignerTTLSeconds = 1
    CertTTLSeconds = 1
    MaxEpoch = 1
    Lifetimes = {2}
    Configs <- RightConfig
PROPERTIES
    EveryCallReturns
    AuthErrorsStop
    RevokedTokensDropped
    CachesConverge
