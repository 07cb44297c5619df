------------------------------ MODULE Startup ------------------------------
(***************************************************************************)
(* Opening a provider: config.go, NewSession and NewClient, openProvider   *)
(* and GoOpenProvider in provider_windows.go and bridge_windows.go, and    *)
(* logging_windows.go.                                                     *)
(*                                                                         *)
(* Threads of a process open providers while an administrator edits the    *)
(* configuration file.  The environment of the process does not change.    *)
(* The log is set up once, by the first OpenProvider that gets there.      *)
(*                                                                         *)
(* A setting is one of a few values that validation and the precedence     *)
(* rules tell apart; the empty string is an unset one.  The three cache    *)
(* lifetimes are one setting, as are the scope exclusions and the pinned   *)
(* address (well-formed or not).                                           *)
(***************************************************************************)
EXTENDS Integers

CONSTANTS
    Threads,
    Files,         \* what the configuration file may hold when it is read
    Environments,  \* the environments a process may be started in
    LogPaths,      \* the log files configurations name, and the default one
    GoodURLs,      \* http(s) URLs with a host
    GoodCAs,       \* certificate files that can be read and parsed
    Missing,       \* no file: os.ErrNotExist
    Unreadable,    \* any other error of os.ReadFile
    Malformed,     \* no JSON: json.Unmarshal fails
    NoConfig,      \* "no configuration loaded"
    NoLog          \* "setupLogging has not run"

DefaultLogPath == "ksp.log"
DefaultTTL == 300

\* Config, without the settings nothing depends on (log_level, tls.skip_verify).
EmptyConfig ==
    [serverURL |-> "", method |-> "", clientID |-> "", clientSecret |-> "", token |-> "",
     ttl |-> 0, count |-> 0, duration |-> "", scope |-> "", caCertPath |-> "", logFile |-> ""]

Configs == {c \in Files \cup {EmptyConfig} : c \notin {Missing, Unreadable, Malformed}}

\* The variables a process reads; configPath says whether INFISICAL_CONFIG is set.
EnvironmentVariables == {"serverURL", "clientID", "clientSecret", "token"}

ASSUME InputAssumption ==
    /\ DefaultLogPath \in LogPaths
    /\ \A c \in Configs : DOMAIN c = DOMAIN EmptyConfig /\ c.logFile \in LogPaths \cup {""}
    /\ \A e \in Environments : DOMAIN e = EnvironmentVariables \cup {"configPath"}

LogRecord == [path : LogPaths, open : BOOLEAN]

ASSUME LogAssumption == NoLog \notin LogRecord

VARIABLES
    file,      \* the configuration file
    env,       \* the environment
    usable,    \* the log paths that can be created and opened
    log,       \* logOnce and logger: the path given to setupLogging, and whether it opened
    pc,        \* where a thread is in GoOpenProvider
    read,      \* the file as LoadConfig read it
    cfg,       \* the configuration it loaded, NoConfig when that failed
    result,    \* what GoOpenProvider returned
    logged     \* what logError did: "written", "discarded", or "none" if not called

vars == <<file, env, usable, log, pc, read, cfg, result, logged>>

-----------------------------------------------------------------------------
(* LoadConfig *)

\* Mutant of setDefaults: another default than the one used when loading fails.
setDefaultsOtherPath(c) ==
    [s \in DOMAIN c |->
        IF s = "ttl" /\ c.ttl = 0 THEN DefaultTTL
        ELSE IF s = "method" /\ c.method = ""
        THEN IF c.token # "" THEN "token" ELSE "universal-auth"
        ELSE IF s = "logFile" /\ c.logFile = "" THEN "infisical.log"
        ELSE c[s]]

setDefaults(c) ==
    [s \in DOMAIN c |->
        IF s = "ttl" /\ c.ttl = 0 THEN DefaultTTL
        ELSE IF s = "method" /\ c.method = ""
        THEN IF c.token # "" THEN "token" ELSE "universal-auth"
        ELSE IF s = "logFile" /\ c.logFile = "" THEN DefaultLogPath
        ELSE c[s]]

\* Mutant of applyEnvOverrides: a token does not select token auth.
applyEnvOverridesMethodKept(c) ==
    [s \in DOMAIN c |->
        IF s \in EnvironmentVariables /\ env[s] # "" THEN env[s] ELSE c[s]]

applyEnvOverrides(c) ==
    [s \in DOMAIN c |->
        IF s \in EnvironmentVariables /\ env[s] # "" THEN env[s]
        ELSE IF s = "method" /\ env.token # "" THEN "token"
        ELSE c[s]]

\* parseApprovalDuration succeeds, and its result lies between 1m and 30d.
DurationAccepted(d) == d \in {"", "within"}

\* ValidateScopeExclusions and net.ParseIP.
ScopeAccepted(s) == s \in {"", "wellformed"}

validate(c) ==
    /\ c.serverURL \in GoodURLs
    /\ c.method \in {"universal-auth", "token"}
    /\ DurationAccepted(c.duration)
    /\ c.count >= 0
    /\ ScopeAccepted(c.scope)

\* Mutant of Load: validation comes before the environment.
LoadValidatedFirst(data) ==
    LET c == setDefaults(IF data = Missing THEN EmptyConfig ELSE data) IN
    IF \/ data \in {Unreadable, Malformed}
       \/ data = Missing /\ env.configPath # ""
       \/ ~validate(c)
    THEN NoConfig ELSE applyEnvOverrides(c)

\* LoadConfig and loadConfigFrom.  A missing file is fine unless it was asked for.
Load(data) ==
    LET c == applyEnvOverrides(setDefaults(IF data = Missing THEN EmptyConfig ELSE data)) IN
    IF \/ data \in {Unreadable, Malformed}
       \/ data = Missing /\ env.configPath # ""
       \/ ~validate(c)
    THEN NoConfig ELSE c

-----------------------------------------------------------------------------
(* GoOpenProvider *)

\* Mutant of LoadConfig: a failure to load is remembered.
LoadConfigOnce(t) ==
    /\ pc[t] = "idle"
    /\ read' = [read EXCEPT ![t] = file]
    /\ cfg' = [cfg EXCEPT ![t] = IF result[t] = "FAIL" THEN NoConfig ELSE Load(file)]
    /\ pc' = [pc EXCEPT ![t] = "log"]
    /\ result' = [result EXCEPT ![t] = IF result[t] = "FAIL" THEN "FAIL" ELSE "none"]
    /\ logged' = [logged EXCEPT ![t] = "none"]
    /\ UNCHANGED <<file, env, usable, log>>

LoadConfig(t) ==
    /\ pc[t] = "idle"
    /\ read' = [read EXCEPT ![t] = file]
    /\ cfg' = [cfg EXCEPT ![t] = Load(file)]
    /\ pc' = [pc EXCEPT ![t] = "log"]
    /\ result' = [result EXCEPT ![t] = "none"]
    /\ logged' = [logged EXCEPT ![t] = "none"]
    /\ UNCHANGED <<file, env, usable, log>>

\* Mutant of LogPath: a configuration that does not load sets up no log.
LogPathOnlyConfigured(c) == IF c = NoConfig THEN "" ELSE c.logFile

LogPath(c) == IF c = NoConfig THEN DefaultLogPath ELSE c.logFile

\* setupLogging, in logOnce.Do: only the first call counts.
SetupLogging(t) ==
    /\ pc[t] = "log"
    /\ log' = IF log # NoLog THEN log
              ELSE [path |-> LogPath(cfg[t]), open |-> LogPath(cfg[t]) \in usable]
    /\ pc' = [pc EXCEPT ![t] = "session"]
    /\ UNCHANGED <<file, env, usable, read, cfg, result, logged>>

\* There is a configuration, and NewSession can use the CA certificate it names.
SessionPossible(c) == c # NoConfig /\ c.caCertPath \in {""} \cup GoodCAs

OpenProvider(t) ==
    /\ pc[t] = "session"
    /\ SessionPossible(cfg[t])
    /\ result' = [result EXCEPT ![t] = "SUCCESS"]
    /\ pc' = [pc EXCEPT ![t] = "idle"]
    /\ UNCHANGED <<file, env, usable, log, read, cfg, logged>>

\* Neither error wraps an APIError: the host sees NTE_FAIL, the log no hint.
OpenProviderFails(t) ==
    /\ pc[t] = "session"
    /\ ~SessionPossible(cfg[t])
    /\ result' = [result EXCEPT ![t] = "FAIL"]
    /\ logged' = [logged EXCEPT ![t] = IF log.open THEN "written" ELSE "discarded"]
    /\ pc' = [pc EXCEPT ![t] = "idle"]
    /\ read' = [read EXCEPT ![t] = Missing]
    /\ cfg' = [cfg EXCEPT ![t] = NoConfig]
    /\ UNCHANGED <<file, env, usable, log>>

\* An administrator edits the file.
EditFile ==
    /\ file' \in Files
    /\ UNCHANGED <<env, usable, log, pc, read, cfg, result, logged>>

Init ==
    /\ file \in Files
    /\ env \in Environments
    /\ usable \in SUBSET LogPaths
    /\ log = NoLog
    /\ pc = [t \in Threads |-> "idle"]
    /\ read = [t \in Threads |-> Missing]
    /\ cfg = [t \in Threads |-> NoConfig]
    /\ result = [t \in Threads |-> "none"]
    /\ logged = [t \in Threads |-> "none"]

Next ==
    \/ \E t \in Threads :
          LoadConfig(t) \/ SetupLogging(t) \/ OpenProvider(t) \/ OpenProviderFails(t)
    \/ EditFile

Spec == Init /\ [][Next]_vars

FairSpec == Spec /\ \A t \in Threads :
    WF_vars(SetupLogging(t) \/ OpenProvider(t) \/ OpenProviderFails(t))

-----------------------------------------------------------------------------
(* Properties *)

Open(t) == pc[t] = "idle" /\ result[t] = "SUCCESS"

InFile(t) == IF read[t] = Missing THEN EmptyConfig ELSE read[t]

\* One type for every variable.
TypeOK ==
    /\ file \in Files
    /\ env \in Environments
    /\ usable \subseteq LogPaths
    /\ log \in LogRecord \cup {NoLog}
    /\ pc \in [Threads -> {"idle", "log", "session"}]
    /\ read \in [Threads -> Files \cup {Missing}]
    /\ DOMAIN cfg = Threads
    /\ \A t \in Threads : cfg[t] = NoConfig \/ DOMAIN cfg[t] = DOMAIN EmptyConfig
    /\ result \in [Threads -> {"none", "SUCCESS", "FAIL"}]
    /\ logged \in [Threads -> {"none", "written", "discarded"}]

\* What a provider runs with: every environment variable that is set wins, a token in
\* the environment over everything else; otherwise the method is the one in the file
\* or follows from the credentials (config.go:76-117, 217-218, README.md:130, 147, 208).
SettingsFollowPrecedence ==
    \A t \in Threads : Open(t) =>
        LET c == cfg[t]
            set(s) == IF env[s] # "" THEN env[s] ELSE InFile(t)[s]
        IN  /\ \A s \in EnvironmentVariables : c[s] = set(s)
            /\ c.method = IF env.token # "" THEN "token"
                          ELSE IF InFile(t).method # "" THEN InFile(t).method
                          ELSE IF set("token") # "" THEN "token" ELSE "universal-auth"
            /\ c.ttl # 0

\* The settings that are used are the ones that have been validated, those of the
\* environment included (config.go:119-157, 217-221).
ProvidersAreValid ==
    \A t \in Threads : Open(t) =>
        /\ cfg[t].serverURL \in GoodURLs
        /\ cfg[t].method \in {"token", "universal-auth"}
        /\ cfg[t].count >= 0 /\ cfg[t].duration \in {"", "within"} /\ cfg[t].scope # "illformed"

\* Where log files can be written, every OpenProvider that fails leaves its error in one,
\* whichever thread set up the log and however broken the configuration was then
\* (provider_windows.go:72-80, bridge_windows.go:47-52, logging_windows.go:23-37).
FailuresAreLogged ==
    \A t \in Threads :
        pc[t] = "idle" /\ result[t] = "FAIL" /\ usable = LogPaths => logged[t] = "written"

\* A configuration that loads in this environment.
Sound(f) == SessionPossible(Load(f))

\* A broken configuration has no lasting effect on OpenProvider: once the file is
\* repaired for good, opening stops failing (config.go:195-223).
RepairTakesEffect ==
    <>[]Sound(file) =>
        <>[][\A t \in Threads : ~(pc[t] = "session" /\ result'[t] = "FAIL")]_vars

-----------------------------------------------------------------------------
(* The parts of the inductive invariant that StartupProofs establishes *)

\* The configuration a thread goes on with is the one its file gives in this
\* environment; a failure on the way leaves none.
LoadInv ==
    \A t \in Threads :
        /\ pc[t] # "idle" \/ result[t] = "SUCCESS" => cfg[t] = Load(read[t])
        /\ Open(t) => cfg[t] # NoConfig

\* The log has been set up before it is used, and tells truly whether it is open.
LogInv ==
    /\ log # NoLog => (log.open <=> log.path \in usable)
    /\ \A t \in Threads : pc[t] = "session" => log # NoLog

=============================================================================
