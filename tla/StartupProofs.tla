--------------------------- MODULE StartupProofs ---------------------------
(***************************************************************************)
(* What Startup.tla guarantees for any number of threads, any contents of  *)
(* the configuration file and any environment.                             *)
(*                                                                         *)
(* The configuration is a function of the file as it was read and of the   *)
(* environment, so the argument is that a thread keeps using the one it    *)
(* loaded (LoadInv), that loading ranks and validates the settings         *)
(* (LoadedSettings, LoadedLog), and that the log which the first thread    *)
(* sets up serves all others (LogInv).                                     *)
(***************************************************************************)
EXTENDS Startup, TLAPS

-----------------------------------------------------------------------------
(* LoadConfig *)

\* What a file that holds data says.
Content(data) == IF data = Missing THEN EmptyConfig ELSE data

LEMMA ContentShape ==
    ASSUME NEW data \in Files \cup {Missing}, data \notin {Unreadable, Malformed}
    PROVE  /\ DOMAIN Content(data) = DOMAIN EmptyConfig
           /\ Content(data).logFile \in LogPaths \cup {""}
<1>1. EmptyConfig.logFile = ""  BY DEF EmptyConfig
<1>2. CASE data = Missing  BY <1>1, <1>2 DEF Content
<1>3. CASE data # Missing
  BY <1>3, InputAssumption DEF Content, Configs
<1>. QED  BY <1>2, <1>3

\* What loads does not depend on anything but the environment.
LEMMA LoadSame ==
    ASSUME UNCHANGED env, NEW t, NEW data, read'[t] = data
    PROVE  Load(read[t])' = Load(data)
BY Zenon DEF Load, applyEnvOverrides

\* The settings there are.
LEMMA Settings ==
    DOMAIN EmptyConfig =
        {"serverURL", "method", "clientID", "clientSecret", "token", "ttl", "count",
         "duration", "scope", "caCertPath", "logFile"}
BY DEF EmptyConfig

\* The configuration that loads is the file's, with defaults and with what the
\* environment sets, and it is valid.
LEMMA LoadedIs ==
    ASSUME NEW data, Load(data) # NoConfig
    PROVE  /\ data \notin {Unreadable, Malformed}
           /\ Load(data) = applyEnvOverrides(setDefaults(Content(data)))
           /\ validate(Load(data))
BY DEF Load, Content

LEMMA LoadedShape ==
    ASSUME NEW data \in Files \cup {Missing}, Load(data) # NoConfig
    PROVE  DOMAIN Load(data) = DOMAIN EmptyConfig
BY LoadedIs, ContentShape DEF applyEnvOverrides, setDefaults

\* A configuration that loads names a log file.
LEMMA LoadedLog ==
    ASSUME NEW data \in Files \cup {Missing}
    PROVE  LogPath(Load(data)) \in LogPaths
<1>1. CASE Load(data) = NoConfig
  BY <1>1, InputAssumption DEF LogPath
<1>2. CASE Load(data) # NoConfig
  <2> DEFINE f == Content(data)
             d == setDefaults(f)
  <2>1. /\ Load(data) = applyEnvOverrides(d)
        /\ DOMAIN f = DOMAIN EmptyConfig /\ f.logFile \in LogPaths \cup {""}
    BY <1>2, LoadedIs, ContentShape
  <2>. HIDE DEF f
  <2>2. "logFile" \in DOMAIN f  BY <2>1, Settings
  <2>3. DOMAIN d = DOMAIN f /\ d.logFile \in LogPaths
    BY <2>1, <2>2, InputAssumption DEF setDefaults
  <2>. HIDE DEF d
  <2>4. Load(data).logFile = d.logFile
    BY <2>1, <2>2, <2>3 DEF applyEnvOverrides, EnvironmentVariables
  <2>. QED  BY <1>2, <2>3, <2>4 DEF LogPath
<1>. QED  BY <1>1, <1>2

\* How the settings rank.
LEMMA LoadedSettings ==
    ASSUME NEW data \in Files \cup {Missing}, Load(data) # NoConfig
    PROVE  LET c == Load(data)
               f == Content(data)
               set(s) == IF env[s] # "" THEN env[s] ELSE f[s]
           IN  /\ \A s \in EnvironmentVariables : c[s] = set(s)
               /\ c.method = IF env.token # "" THEN "token"
                             ELSE IF f.method # "" THEN f.method
                             ELSE IF set("token") # "" THEN "token" ELSE "universal-auth"
               /\ c.ttl # 0
<1> DEFINE f == Content(data)
           d == setDefaults(f)
<1>1. Load(data) = applyEnvOverrides(d) /\ DOMAIN f = DOMAIN EmptyConfig
  BY LoadedIs, ContentShape
<1>. HIDE DEF f
<1>2. /\ DOMAIN d = DOMAIN EmptyConfig
      /\ \A s \in EnvironmentVariables : d[s] = f[s]
      /\ d.method = IF f.method # "" THEN f.method
                    ELSE IF f.token # "" THEN "token" ELSE "universal-auth"
      /\ d.ttl # 0
  <2>1. DOMAIN d = DOMAIN EmptyConfig  BY <1>1 DEF setDefaults
  <2>2. ASSUME NEW s \in EnvironmentVariables PROVE d[s] = f[s]
    <3>1. s \in DOMAIN f /\ s \notin {"ttl", "method", "logFile"}
      BY <1>1, Settings DEF EnvironmentVariables
    <3>. QED  BY <3>1 DEF setDefaults
  <2>3. "method" \in DOMAIN f /\ "ttl" \in DOMAIN f  BY <1>1, Settings
  <2>4. d.method = IF f.method # "" THEN f.method
                   ELSE IF f.token # "" THEN "token" ELSE "universal-auth"
    BY <2>3 DEF setDefaults
  <2>5. d.ttl # 0
    <3>1. d.ttl = IF f.ttl = 0 THEN DefaultTTL ELSE f.ttl
      BY <2>3 DEF setDefaults
    <3>. QED  BY <3>1 DEF DefaultTTL
  <2>. QED  BY <2>1, <2>2, <2>4, <2>5
<1>. HIDE DEF d
<1>3. /\ \A s \in EnvironmentVariables :
            Load(data)[s] = IF env[s] # "" THEN env[s] ELSE d[s]
      /\ Load(data).method = IF env.token # "" THEN "token" ELSE d.method
      /\ Load(data).ttl = d.ttl
  <2>1. \A s \in EnvironmentVariables : s \in DOMAIN d
    BY <1>2, Settings DEF EnvironmentVariables
  <2>2. "method" \in DOMAIN d \ EnvironmentVariables /\ "ttl" \in DOMAIN d \ EnvironmentVariables
    BY <1>2, Settings DEF EnvironmentVariables
  <2>. QED  BY <1>1, <2>1, <2>2 DEF applyEnvOverrides
<1>4. "token" \in EnvironmentVariables  BY DEF EnvironmentVariables
<1>. QED  BY <1>2, <1>3, <1>4 DEF f

-----------------------------------------------------------------------------
(* The inductive invariant *)

IInv == TypeOK /\ LoadInv /\ LogInv

LEMMA InvInit == Init => IInv
BY InputAssumption DEF Init, IInv, TypeOK, LoadInv, LogInv, Open

LEMMA InvStep == IInv /\ [Next]_vars => IInv'
<1>. SUFFICES ASSUME IInv, [Next]_vars PROVE IInv'
  OBVIOUS
<1>. USE DEF IInv
<1>1. ASSUME NEW t \in Threads, LoadConfig(t) PROVE IInv'
  <2>1. TypeOK'
    <3>1. Load(file) = NoConfig \/ DOMAIN Load(file) = DOMAIN EmptyConfig
      BY LoadedShape DEF TypeOK
    <3>. QED  BY <1>1, <3>1 DEF LoadConfig, TypeOK
  <2>2. LoadInv'
    BY <1>1, LoadSame DEF LoadConfig, LoadInv, TypeOK, Open
  <2>3. LogInv'
    BY <1>1 DEF LoadConfig, LogInv, TypeOK
  <2>. QED  BY <2>1, <2>2, <2>3
<1>2. ASSUME NEW t \in Threads, SetupLogging(t) PROVE IInv'
  <2>1. LogPath(cfg[t]) \in LogPaths
    <3>1. cfg[t] = Load(read[t]) /\ read[t] \in Files \cup {Missing}
      BY <1>2 DEF SetupLogging, LoadInv, TypeOK
    <3>. QED  BY <3>1, LoadedLog
  <2>2. TypeOK'
    BY <1>2, <2>1 DEF SetupLogging, TypeOK, LogRecord
  <2>3. LoadInv'
    BY <1>2, LoadSame DEF SetupLogging, LoadInv, TypeOK, Open
  <2>4. LogInv'
    <3>1. CASE log # NoLog
      BY <1>2, <3>1 DEF SetupLogging, LogInv, TypeOK
    <3>2. CASE log = NoLog
      <4> DEFINE path == LogPath(cfg[t])
      <4>1. log' = [path |-> path, open |-> path \in usable] /\ usable' = usable
        BY <1>2, <3>2 DEF SetupLogging
      <4>2. log'.path = path /\ (log'.open <=> path \in usable)
        BY <4>1, Zenon
      <4>3. log' # NoLog
        <5>1. log' \in LogRecord
          BY <1>2, <2>1, <3>2 DEF SetupLogging, LogRecord
        <5>. QED  BY <5>1, LogAssumption
      <4>. QED  BY <4>1, <4>2, <4>3, Zenon DEF LogInv
    <3>. QED  BY <3>1, <3>2
  <2>. QED  BY <2>2, <2>3, <2>4
<1>3. ASSUME NEW t \in Threads, OpenProvider(t) PROVE IInv'
  <2>1. TypeOK'  BY <1>3 DEF OpenProvider, TypeOK
  <2>2. LoadInv'
    BY <1>3, LoadSame DEF OpenProvider, SessionPossible, LoadInv, TypeOK, Open
  <2>3. LogInv'  BY <1>3 DEF OpenProvider, LogInv, TypeOK
  <2>. QED  BY <2>1, <2>2, <2>3
<1>4. ASSUME NEW t \in Threads, OpenProviderFails(t) PROVE IInv'
  <2>1. TypeOK'  BY <1>4 DEF OpenProviderFails, TypeOK
  <2>2. LoadInv'
    BY <1>4, LoadSame DEF OpenProviderFails, LoadInv, TypeOK, Open
  <2>3. LogInv'  BY <1>4 DEF OpenProviderFails, LogInv, TypeOK
  <2>. QED  BY <2>1, <2>2, <2>3
<1>5. CASE EditFile
  <2>1. TypeOK'  BY <1>5 DEF EditFile, TypeOK
  <2>2. LoadInv' /\ LogInv'
    BY <1>5, LoadSame DEF EditFile, LoadInv, LogInv, Open
  <2>. QED  BY <2>1, <2>2
<1>6. CASE UNCHANGED vars
  BY <1>6, LoadSame DEF vars, TypeOK, LoadInv, LogInv, Open
<1>. QED  BY <1>1, <1>2, <1>3, <1>4, <1>5, <1>6 DEF Next

LEMMA Invariance == Spec => []IInv
BY InvInit, InvStep, PTL DEF Spec

-----------------------------------------------------------------------------
(* The theorems *)

\* Every variable keeps its type: a configuration that loads has every setting, and
\* the log is set up with a path.  config.go:119-157, logging_windows.go:23-37.
THEOREM TypeCorrect == Spec => []TypeOK
BY Invariance, PTL DEF IInv

\* A provider's settings rank as documented, however the file is edited while
\* providers are being opened.  config.go:76-117, 217-218.
THEOREM Precedence == Spec => []SettingsFollowPrecedence
<1>1. IInv => SettingsFollowPrecedence
  <2>. SUFFICES ASSUME IInv, NEW t \in Threads, Open(t)
                PROVE  LET c == cfg[t]
                           set(s) == IF env[s] # "" THEN env[s] ELSE InFile(t)[s]
                       IN  /\ \A s \in EnvironmentVariables : c[s] = set(s)
                           /\ c.method = IF env.token # "" THEN "token"
                                         ELSE IF InFile(t).method # "" THEN InFile(t).method
                                         ELSE IF set("token") # "" THEN "token"
                                         ELSE "universal-auth"
                           /\ c.ttl # 0
    BY Zenon DEF SettingsFollowPrecedence
  <2>1. cfg[t] = Load(read[t]) /\ cfg[t] # NoConfig /\ read[t] \in Files \cup {Missing}
    BY DEF IInv, TypeOK, LoadInv, Open
  <2>2. InFile(t) = Content(read[t])  BY DEF InFile, Content
  <2>. QED  BY <2>1, <2>2, LoadedSettings
<1>. QED  BY <1>1, Invariance, PTL

\* What a provider uses has been validated, whatever came from the environment.
\* config.go:119-157, 217-221.
THEOREM Validated == Spec => []ProvidersAreValid
<1>1. IInv => ProvidersAreValid
  <2>. SUFFICES ASSUME IInv, NEW t \in Threads, Open(t)
                PROVE  /\ cfg[t].serverURL \in GoodURLs
                       /\ cfg[t].method \in {"token", "universal-auth"}
                       /\ cfg[t].count >= 0 /\ cfg[t].duration \in {"", "within"}
                       /\ cfg[t].scope # "illformed"
    BY DEF ProvidersAreValid
  <2>1. cfg[t] = Load(read[t]) /\ cfg[t] # NoConfig
    BY DEF IInv, LoadInv, Open
  <2>2. validate(cfg[t])  BY <2>1, LoadedIs
  <2>. QED  BY <2>2 DEF validate, DurationAccepted, ScopeAccepted
<1>. QED  BY <1>1, Invariance, PTL

\* Where log files can be written, no failure goes unlogged: the log of the first
\* thread, set up from whatever configuration it found, is open for all.
\* provider_windows.go:72-80, logging_windows.go:23-37.
THEOREM Logged == Spec => []FailuresAreLogged
<1>1. Init => FailuresAreLogged
  BY DEF Init, FailuresAreLogged
<1>2. IInv /\ FailuresAreLogged /\ [Next]_vars => FailuresAreLogged'
  <2>. SUFFICES ASSUME IInv, FailuresAreLogged, [Next]_vars,
                       NEW u \in Threads, pc'[u] = "idle", result'[u] = "FAIL",
                       usable' = LogPaths
                PROVE  logged'[u] = "written"
    BY DEF FailuresAreLogged
  <2>. USE DEF IInv
  <2>1. ASSUME NEW t \in Threads, LoadConfig(t) PROVE logged'[u] = "written"
    BY <2>1 DEF LoadConfig, TypeOK, FailuresAreLogged
  <2>2. ASSUME NEW t \in Threads, SetupLogging(t) PROVE logged'[u] = "written"
    BY <2>2 DEF SetupLogging, TypeOK, FailuresAreLogged
  <2>3. ASSUME NEW t \in Threads, OpenProvider(t) PROVE logged'[u] = "written"
    BY <2>3 DEF OpenProvider, TypeOK, FailuresAreLogged
  <2>4. ASSUME NEW t \in Threads, OpenProviderFails(t) PROVE logged'[u] = "written"
    <3>1. CASE u # t
      BY <2>4, <3>1 DEF OpenProviderFails, TypeOK, FailuresAreLogged
    <3>2. CASE u = t
      <4>1. usable = LogPaths /\ pc[t] = "session"  BY <2>4 DEF OpenProviderFails
      <4>2. log \in LogRecord /\ log # NoLog  BY <4>1 DEF LogInv, TypeOK
      <4>3. log.path \in usable  BY <4>1, <4>2 DEF LogRecord
      <4>4. log.open  BY <4>2, <4>3, Zenon DEF LogInv
      <4>5. logged' = [logged EXCEPT ![t] = "written"]
        BY <2>4, <4>4, Zenon DEF OpenProviderFails
      <4>. QED  BY <3>2, <4>5 DEF TypeOK
    <3>. QED  BY <3>1, <3>2
  <2>5. CASE EditFile  BY <2>5 DEF EditFile, FailuresAreLogged
  <2>6. CASE UNCHANGED vars  BY <2>6 DEF vars, FailuresAreLogged
  <2>. QED  BY <2>1, <2>2, <2>3, <2>4, <2>5, <2>6 DEF Next
<1>. QED  BY <1>1, <1>2, Invariance, PTL DEF Spec

=============================================================================
