\* One session, every configuration, slow logins and list requests.
SPECIFICATION Spec
CONSTANTS
    Threads = {t1, t2}
    Sessions = {s1}
    ClientIDs = {id1}
    SignerIDs = {k1}
    t1 = t1
    t2 = t2
    s1 = s1
    id1 = id1
    k1 = k1
    NoThread = NoThread
    NoID = NoID
    NoCall = NoCall
    tokenSafetyMargin = 2
    authFailureCacheTTL = 1
    clientTimeout = 2
    TokenTTLSeconds <- Disabled
    SignerTTLSeconds = 1
    CertTTLSeconds = 1
    MaxEpoch = 1
    Lifetimes = {4, 5}
    Configs <- AnyConfig
SYMMETRY ThreadSymmetry
INVARIANTS
    NoExpiredTokenSent
PROPERTIES
    SignerListNeverRegresses
