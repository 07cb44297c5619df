\* Two threads, ten states of the file, four environments, two log paths; fairness.
SPECIFICATION FairSpec
CONSTANTS
    Threads = {t1, t2}
    Files <- MCFiles
    Environments <- MCEnvironments
    LogPaths = {"ksp.log", "custom.log"}
    GoodURLs = {"https://file", "https://env"}
    GoodCAs = {"ca.pem"}
    Missing = Missing
    Unreadable = Unreadable
    Malformed = Malformed
    NoConfig = NoConfig
    NoLog = NoLog
INVARIANTS
    TypeOK
    SettingsFollowPrecedence
    ProvidersAreValid
    FailuresAreLogged
PROPERTIES
    RepairTakesEffect
