--------------------------- MODULE SessionProofs ---------------------------
(***************************************************************************)
(* Theorems about Session.tla, for any number of threads, sessions,        *)
(* identities and Signers and for any timing that satisfies its            *)
(* assumptions.                                                            *)
(***************************************************************************)
EXTENDS Session, TLAPS

USE SentinelAssumption, TimingAssumption, ConfigAssumption, EpochAssumption

\* What cacheExpiry returns: at least the margin and, for a lifetime of two
\* margins or more, no later than one margin before the token expires.
LEMMA CacheExpiryBounds ==
    ASSUME NEW reported \in Nat
    PROVE  /\ cacheExpiry(reported, TokenTTLSeconds) \in Nat
           /\ cacheExpiry(reported, TokenTTLSeconds) >= tokenSafetyMargin
           /\ reported >= 2 * tokenSafetyMargin =>
                 cacheExpiry(reported, TokenTTLSeconds) <= reported - tokenSafetyMargin
  BY DEF cacheExpiry

-----------------------------------------------------------------------------
(* Type correctness *)

LEMMA TypeInit == Init => TypeOK
<1> SUFFICES ASSUME Init PROVE TypeOK
  OBVIOUS
<1>1. token \in [Sessions -> Token]
  <2>1. PICK l \in [Sessions -> Lifetimes] :
          token = [s \in Sessions |->
                     IF cfg[s].method = "token"
                     THEN [left |-> l[s], valid |-> cfg[s].cred = "right"]
                     ELSE NoToken]
    BY DEF Init
  <2>2. ASSUME NEW s \in Sessions PROVE token[s] \in Token
    <3>1. \A b \in BOOLEAN : [left |-> l[s], valid |-> b] \in Token
      BY DEF Token
    <3>2. (cfg[s].cred = "right") \in BOOLEAN
      OBVIOUS
    <3>3. [left |-> l[s], valid |-> cfg[s].cred = "right"] \in Token
      BY <3>1, <3>2, Zenon
    <3>4. NoToken \in Token
      BY DEF NoToken, Token
    <3>5. token[s] = IF cfg[s].method = "token"
                     THEN [left |-> l[s], valid |-> cfg[s].cred = "right"]
                     ELSE NoToken
      BY <2>1, Zenon
    <3> QED
      BY <3>3, <3>4, <3>5, Zenon
  <2> QED
    BY <2>1, <2>2, Zenon
<1>2. cfg \in [Sessions -> Config]
  BY DEF Init
<1>3. QED
  <2>1. tok \in [Threads -> Token]
    BY DEF Init, Token, NoToken
  <2>2. resp \in [Threads -> Response]
    BY DEF Init, Response, NoResponse, Plain, Epochs
  <2>3. pubKeys \in [Sessions -> [SignerIDs -> KeyEntry]]
    BY DEF Init, KeyEntry, Epochs
  <2>4. /\ mu \in [Sessions -> Threads \cup {NoThread}]
        /\ tokenExpiry \in [Sessions -> Nat]
        /\ signers \in [Sessions -> Epochs \cup {NoList}]
        /\ signersExpiry \in [Sessions -> Nat]
        /\ authFailCache \in [Keys -> Nat]
        /\ failedIn \in [Keys -> SUBSET Sessions]
    BY DEF Init
  <2>5. /\ pc \in [Threads -> Stages]
        /\ call \in [Threads -> Call \cup {NoCall}]
        /\ \A t \in Threads : pc[t] # "idle" => call[t] \in Call
        /\ left \in [Threads -> Nat]
        /\ out \in [Threads -> {"none", "ok", "authErr", "err"}]
    BY DEF Init, Stages
  <2>6. epoch \in Epochs
    BY DEF Init, Epochs
  <2>7. trouble \in BOOLEAN
    BY DEF Init
  <2> QED
    BY <1>1, <1>2, <2>1, <2>2, <2>3, <2>4, <2>5, <2>6, <2>7 DEF TypeOK

\* Sending a request and returning from a call keep the thread's variables typed.
LEMMA SendType ==
    ASSUME TypeOK, NEW t \in Threads, NEW stage \in InFlight, pc[t] # "idle", Send(t, stage)
    PROVE  /\ pc' \in [Threads -> Stages]
           /\ call' \in [Threads -> Call \cup {NoCall}]
           /\ \A u \in Threads : pc'[u] # "idle" => call'[u] \in Call
           /\ left' \in [Threads -> Nat]
           /\ resp' \in [Threads -> Response]
           /\ out' \in [Threads -> {"none", "ok", "authErr", "err"}]
  BY DEF TypeOK, Send, Stages, InFlight, Response, NoResponse, Plain, Epochs

LEMMA ReturnType ==
    ASSUME TypeOK, NEW t \in Threads, NEW o \in {"none", "ok", "authErr", "err"}, Return(t, o)
    PROVE  /\ pc' \in [Threads -> Stages]
           /\ call' \in [Threads -> Call \cup {NoCall}]
           /\ \A u \in Threads : pc'[u] # "idle" => call'[u] \in Call
           /\ tok' \in [Threads -> Token]
           /\ left' \in [Threads -> Nat]
           /\ resp' \in [Threads -> Response]
           /\ out' \in [Threads -> {"none", "ok", "authErr", "err"}]
<1>1. tok' \in [Threads -> Token]
  BY DEF TypeOK, Return, Token, NoToken
<1>2. resp' \in [Threads -> Response]
  BY DEF TypeOK, Return, Response, NoResponse, Plain, Epochs
<1> QED
  BY <1>1, <1>2 DEF TypeOK, Return, Stages

LEMMA CallType ==
    ASSUME TypeOK, NEW t \in Threads, pc[t] # "idle"
    PROVE  /\ call[t] \in Call
           /\ call[t].s \in Sessions /\ call[t].x \in SignerIDs /\ call[t].op \in Methods
           /\ cfg[call[t].s] \in Config
           /\ AuthKey(call[t].s) \in Keys
           /\ token[call[t].s] \in Token
           /\ resp[t] \in Response
  BY DEF TypeOK, Call, AuthKey, Config, Keys

LEMMA HandOutType ==
    ASSUME TypeOK, NEW t \in Threads, NEW tk \in Token, pc[t] # "idle", HandOut(t, tk)
    PROVE  /\ pc' \in [Threads -> Stages]
           /\ call' \in [Threads -> Call \cup {NoCall}]
           /\ \A u \in Threads : pc'[u] # "idle" => call'[u] \in Call
           /\ tok' \in [Threads -> Token]
           /\ left' \in [Threads -> Nat]
           /\ resp' \in [Threads -> Response]
           /\ out' \in [Threads -> {"none", "ok", "authErr", "err"}]
           /\ mu' \in [Sessions -> Threads \cup {NoThread}]
<1>1. StageAfterToken[call[t].op] \in InFlight
  BY CallType DEF StageAfterToken, Methods, InFlight
<1>2. Send(t, StageAfterToken[call[t].op])
  BY DEF HandOut
<1>3. /\ tok' \in [Threads -> Token]
      /\ mu' \in [Sessions -> Threads \cup {NoThread}]
  BY DEF HandOut, TypeOK
<1> QED
  BY <1>1, <1>2, <1>3, SendType

LEMMA RefusedType == Refused \in Response
  BY DEF Refused, Plain, Response, Epochs

LEMMA TypeStep == TypeOK /\ [Next]_vars => TypeOK'
<1> SUFFICES ASSUME TypeOK, [Next]_vars PROVE TypeOK'
  OBVIOUS
<1> USE DEF sessionVars, cacheVars, threadVars, serverVars
<1>1. ASSUME NEW t \in Threads, NEW c \in Call, Begin(t, c) PROVE TypeOK'
  BY <1>1 DEF Begin, TypeOK, Stages
<1>2. ASSUME NEW t \in Threads, CacheHit(t) PROVE TypeOK'
  BY <1>2, ReturnType DEF CacheHit, TypeOK
<1>3. ASSUME NEW t \in Threads, TokenAuth(t) PROVE TypeOK'
  <2>1. pc[t] # "idle"
    BY <1>3 DEF TokenAuth, Ensuring
  <2>2. CASE Return(t, "authErr") /\ UNCHANGED mu
    BY <1>3, <2>2, ReturnType DEF TokenAuth, TypeOK
  <2>3. CASE HandOut(t, token[call[t].s])
    BY <1>3, <2>1, <2>3, HandOutType, CallType DEF TokenAuth, TypeOK
  <2> QED
    BY <1>3, <2>2, <2>3 DEF TokenAuth
<1>4. ASSUME NEW t \in Threads, CachedToken(t) PROVE TypeOK'
  <2>1. pc[t] # "idle" /\ HandOut(t, token[call[t].s])
    BY <1>4 DEF CachedToken, Ensuring
  <2> QED
    BY <1>4, <2>1, HandOutType, CallType DEF CachedToken, TypeOK
<1>5. ASSUME NEW t \in Threads, CachedFailure(t) PROVE TypeOK'
  BY <1>5, ReturnType DEF CachedFailure, TypeOK
<1>6. ASSUME NEW t \in Threads, NoCredentials(t) PROVE TypeOK'
  <2>1. pc[t] # "idle"
    BY <1>6 DEF NoCredentials, NeedsLogin, Ensuring
  <2>2. /\ authFailCache' \in [Keys -> Nat]
        /\ failedIn' \in [Keys -> SUBSET Sessions]
    BY <1>6, <2>1, CallType DEF NoCredentials, recordAuthFailure, TypeOK
  <2> QED
    BY <1>6, <2>2, ReturnType DEF NoCredentials, TypeOK
<1>7. ASSUME NEW t \in Threads, StartLogin(t) PROVE TypeOK'
  <2>1. pc[t] # "idle" /\ "login" \in InFlight
    BY <1>7 DEF StartLogin, NeedsLogin, Ensuring, InFlight
  <2> QED
    BY <1>7, <2>1, SendType DEF StartLogin, TypeOK
<1>8. ASSUME NEW t \in Threads, StorePublicKey(t) PROVE TypeOK'
  <2>1. pc[t] # "idle"
    BY <1>8 DEF StorePublicKey
  <2>2. [epoch |-> resp[t].epoch, left |-> Add(CertTTLSeconds)] \in KeyEntry
    BY <2>1, CallType DEF Add, KeyEntry, Response
  <2>3. pubKeys' \in [Sessions -> [SignerIDs -> KeyEntry]]
    BY <1>8, <2>1, <2>2, CallType DEF StorePublicKey, TypeOK
  <2> QED
    BY <1>8, <2>3, ReturnType DEF StorePublicKey, TypeOK
<1>9. ASSUME NEW t \in Threads, LoginSucceeded(t) PROVE TypeOK'
  <2>1. pc[t] # "idle" /\ HandOut(t, tok[t]) /\ tok[t] \in Token
    BY <1>9 DEF LoginSucceeded, TypeOK
  <2>2. resp[t].ttl \in Nat
    BY <2>1, CallType DEF Response
  <2>3. cacheExpiry(resp[t].ttl, TokenTTLSeconds) \in Nat
    BY <2>2, CacheExpiryBounds
  <2>4. /\ token' \in [Sessions -> Token]
        /\ tokenExpiry' \in [Sessions -> Nat]
    BY <1>9, <2>1, <2>3 DEF LoginSucceeded, TypeOK
  <2>5. /\ authFailCache' \in [Keys -> Nat]
        /\ failedIn' \in [Keys -> SUBSET Sessions]
    BY <1>9 DEF LoginSucceeded, clearAuthFailure, TypeOK
  <2> QED
    BY <1>9, <2>1, <2>4, <2>5, HandOutType DEF LoginSucceeded, TypeOK
<1>10. ASSUME NEW t \in Threads, LoginFailed(t) PROVE TypeOK'
  <2>1. pc[t] # "idle"
    BY <1>10 DEF LoginFailed
  <2>2. /\ authFailCache' \in [Keys -> Nat]
        /\ failedIn' \in [Keys -> SUBSET Sessions]
    BY <1>10, <2>1, CallType DEF LoginFailed, recordAuthFailure, TypeOK
  <2> QED
    BY <1>10, <2>2, ReturnType DEF LoginFailed, TypeOK, Unlock
<1>11. ASSUME NEW t \in Threads, SignersListed(t) PROVE TypeOK'
  <2>1. pc[t] # "idle"
    BY <1>11 DEF SignersListed
  <2>2. resp[t].epoch \in Epochs
    BY <2>1, CallType DEF Response
  <2>3. signers' \in [Sessions -> Epochs \cup {NoList}]
    <3>1. signers' = [signers EXCEPT ![call[t].s] = resp[t].epoch]
      BY <1>11 DEF SignersListed
    <3>2. signers \in [Sessions -> Epochs \cup {NoList}]
      BY DEF TypeOK
    <3> QED
      BY <2>2, <3>1, <3>2
  <2>4. signersExpiry' \in [Sessions -> Nat]
    <3>1. signersExpiry' = [signersExpiry EXCEPT ![call[t].s] = Add(SignerTTLSeconds)]
      BY <1>11 DEF SignersListed
    <3>2. signersExpiry \in [Sessions -> Nat]
      BY DEF TypeOK
    <3>3. Add(SignerTTLSeconds) \in Nat
      BY DEF Add
    <3> QED
      BY <3>1, <3>2, <3>3
  <2>5. mu' \in [Sessions -> Threads \cup {NoThread}]
    BY <1>11 DEF SignersListed, TypeOK, Unlock
  <2> QED
    BY <1>11, <2>3, <2>4, <2>5, ReturnType DEF SignersListed, TypeOK
<1>12. ASSUME NEW t \in Threads, SignersFailed(t) PROVE TypeOK'
  BY <1>12, ReturnType DEF SignersFailed, TypeOK, Unlock
<1>13. ASSUME NEW t \in Threads, CertificateFetched(t) PROVE TypeOK'
  BY <1>13 DEF CertificateFetched, TypeOK, Stages
<1>14. ASSUME NEW t \in Threads, CertificateFailed(t) PROVE TypeOK'
  BY <1>14, ReturnType DEF CertificateFailed, TypeOK
<1>15. ASSUME NEW t \in Threads, SignReturned(t) PROVE TypeOK'
  BY <1>15, ReturnType DEF SignReturned, TypeOK
<1>16. ASSUME NEW t \in Threads, RequestApproval(t) PROVE TypeOK'
  <2>1. pc[t] # "idle" /\ "request" \in InFlight
    BY <1>16 DEF RequestApproval, InFlight
  <2> QED
    BY <1>16, <2>1, SendType DEF RequestApproval, TypeOK
<1>17. ASSUME NEW t \in Threads, RequestReturned(t) PROVE TypeOK'
  BY <1>17, ReturnType DEF RequestReturned, TypeOK
<1>18. ASSUME NEW t \in Threads, ServeLogin(t) PROVE TypeOK'
  <2>1. resp' \in [Threads -> Response] /\ tok' \in [Threads -> Token]
    <3>1. ASSUME NEW l \in Lifetimes
          PROVE  /\ [left |-> l, valid |-> TRUE] \in Token
                 /\ [kind |-> "ok", ttl |-> l, epoch |-> 0] \in Response
      BY DEF Token, Response, Epochs
    <3>2. CASE Reply(t, Refused) /\ UNCHANGED tok
      BY <3>2, RefusedType DEF Reply, TypeOK
    <3>3. ASSUME NEW l \in Lifetimes,
                 tok' = [tok EXCEPT ![t] = [left |-> l, valid |-> TRUE]],
                 Reply(t, [kind |-> "ok", ttl |-> l, epoch |-> 0])
          PROVE  resp' \in [Threads -> Response] /\ tok' \in [Threads -> Token]
      BY <3>1, <3>3 DEF Reply, TypeOK
    <3> QED
      BY <1>18, <3>2, <3>3 DEF ServeLogin
  <2> QED
    BY <1>18, <2>1 DEF ServeLogin, TypeOK
<1>19. ASSUME NEW t \in Threads, Serve(t) PROVE TypeOK'
  <2>1. resp' \in [Threads -> Response]
    <3>1. ASSUME NEW r \in Response, Reply(t, r) PROVE resp' \in [Threads -> Response]
      BY <3>1 DEF Reply, TypeOK
    <3>2. \A n \in {0, epoch} : [kind |-> "ok", ttl |-> 0, epoch |-> n] \in Response
      BY DEF Response, Epochs, TypeOK
    <3>3. \A k \in {"approval", "pending"} : Plain(k) \in Response
      BY DEF Plain, Response, Epochs
    <3> QED
      BY <1>19, <3>1, <3>2, <3>3, RefusedType DEF Serve
  <2> QED
    BY <1>19, <2>1 DEF Serve, TypeOK
<1>20. ASSUME NEW t \in Threads, Lose(t) PROVE TypeOK'
  <2>1. resp' \in [Threads -> Response]
    BY <1>20, RefusedType DEF Lose, Reply, TypeOK
  <2> QED
    BY <1>20, <2>1 DEF Lose, TypeOK
<1>21. ASSUME NEW k \in Keys, Revoke(k) PROVE TypeOK'
  <2>1. token' \in [Sessions -> Token] /\ tok' \in [Threads -> Token]
    BY <1>21 DEF Revoke, Token, TypeOK
  <2> QED
    BY <1>21, <2>1 DEF Revoke, TypeOK
<1>22. ASSUME ChangeDirectory PROVE TypeOK'
  BY <1>22 DEF ChangeDirectory, TypeOK, Epochs
<1>23. ASSUME ChangeWeather PROVE TypeOK'
  BY <1>23 DEF ChangeWeather, TypeOK
<1>24. ASSUME Tick PROVE TypeOK'
  <2>1. token' \in [Sessions -> Token] /\ tok' \in [Threads -> Token]
    BY <1>24 DEF Tick, Token, Down, TypeOK
  <2>2. pubKeys' \in [Sessions -> [SignerIDs -> KeyEntry]]
    BY <1>24 DEF Tick, KeyEntry, Down, TypeOK
  <2>3. /\ left' \in [Threads -> Nat]
        /\ tokenExpiry' \in [Sessions -> Nat]
        /\ signersExpiry' \in [Sessions -> Nat]
        /\ authFailCache' \in [Keys -> Nat]
        /\ failedIn' \in [Keys -> SUBSET Sessions]
    BY <1>24 DEF Tick, Down, TypeOK
  <2> QED
    BY <1>24, <2>1, <2>2, <2>3 DEF Tick, TypeOK
<1>25. CASE UNCHANGED vars
  BY <1>25 DEF vars, TypeOK
<1> QED
  BY <1>1, <1>2, <1>3, <1>4, <1>5, <1>6, <1>7, <1>8, <1>9, <1>10, <1>11, <1>12, <1>13,
     <1>14, <1>15, <1>16, <1>17, <1>18, <1>19, <1>20, <1>21, <1>22, <1>23, <1>24, <1>25
  DEF Next, Acquire, Resume, Answer

\* Every variable keeps its type, whatever the threads and the server do.
THEOREM TypeCorrect == Spec => []TypeOK
<1>1. Init => TypeOK
  BY TypeInit
<1>2. TypeOK /\ [Next]_vars => TypeOK'
  BY TypeStep
<1> QED
  BY <1>1, <1>2, PTL DEF Spec

-----------------------------------------------------------------------------
(* The mutex *)

LEMMA LockStep == TypeOK /\ LockInv /\ [Next]_vars => LockInv'
<1> SUFFICES ASSUME TypeOK, LockInv, [Next]_vars PROVE LockInv'
  OBVIOUS
<1> USE DEF sessionVars, cacheVars, threadVars, serverVars
\* A step of t that returns from its call and leaves the mutexes alone.
<1>1. ASSUME NEW t \in Threads, NEW o, Return(t, o), UNCHANGED mu PROVE LockInv'
  BY <1>1 DEF LockInv, TypeOK, Return
\* A step of t that returns from its call and gives up the mutex t holds.
<1>2. ASSUME NEW t \in Threads, NEW o, pc[t] \in {"login", "list"}, Return(t, o),
             Unlock(call[t].s)
      PROVE  LockInv'
  BY <1>2 DEF LockInv, TypeOK, Return, Unlock
\* A token is handed out to a thread that could take the mutex, or that holds it.
<1>3. ASSUME NEW t \in Threads, NEW tk, pc[t] # "idle", HandOut(t, tk),
             mu[call[t].s] \in {NoThread, t}
      PROVE  LockInv'
  <2>1. call[t].s \in Sessions
    BY <1>3, CallType
  <2>2. \A u \in Threads : u # t => pc'[u] = pc[u] /\ call'[u] = call[u]
    BY <1>3 DEF HandOut, Send, TypeOK
  <2>3. call' = call /\ pc'[t] = StageAfterToken[call[t].op]
    BY <1>3 DEF HandOut, Send, TypeOK
  <2>4. pc'[t] \in {"login", "list"} => call[t].op = "FindSigner"
    BY <1>3, <2>3, CallType DEF StageAfterToken, Methods
  <2>5. ASSUME NEW u \in Threads, pc'[u] \in {"login", "list"} PROVE mu'[call'[u].s] = u
    <3>1. CASE u = t
      BY <1>3, <2>1, <2>3, <2>4, <2>5, <3>1 DEF HandOut, TypeOK
    <3>2. CASE u # t
      BY <1>3, <2>1, <2>2, <2>5, <3>2 DEF HandOut, LockInv, TypeOK
    <3> QED
      BY <3>1, <3>2
  <2> QED
    BY <2>5 DEF LockInv
<1>4. ASSUME NEW t \in Threads, NEW c \in Call, Begin(t, c) PROVE LockInv'
  BY <1>4 DEF Begin, LockInv, TypeOK
<1>5. ASSUME NEW t \in Threads, CacheHit(t) PROVE LockInv'
  BY <1>1, <1>5 DEF CacheHit
<1>6. ASSUME NEW t \in Threads, TokenAuth(t) PROVE LockInv'
  <2>1. pc[t] # "idle" /\ mu[call[t].s] = NoThread
    BY <1>6 DEF TokenAuth, Ensuring
  <2>2. CASE Return(t, "authErr") /\ UNCHANGED mu
    BY <1>1, <2>2
  <2>3. CASE HandOut(t, token[call[t].s])
    BY <1>3, <2>1, <2>3
  <2> QED
    BY <1>6, <2>2, <2>3 DEF TokenAuth
<1>7. ASSUME NEW t \in Threads, CachedToken(t) PROVE LockInv'
  BY <1>3, <1>7 DEF CachedToken, Ensuring
<1>8. ASSUME NEW t \in Threads, CachedFailure(t) PROVE LockInv'
  BY <1>1, <1>8 DEF CachedFailure
<1>9. ASSUME NEW t \in Threads, NoCredentials(t) PROVE LockInv'
  BY <1>1, <1>9 DEF NoCredentials
<1>10. ASSUME NEW t \in Threads, StartLogin(t) PROVE LockInv'
  <2>1. call[t].s \in Sessions /\ mu[call[t].s] = NoThread
    BY <1>10, CallType DEF StartLogin, NeedsLogin, Ensuring
  <2> QED
    BY <1>10, <2>1 DEF StartLogin, Send, LockInv, TypeOK
<1>11. ASSUME NEW t \in Threads, StorePublicKey(t) PROVE LockInv'
  BY <1>1, <1>11 DEF StorePublicKey
<1>12. ASSUME NEW t \in Threads, LoginSucceeded(t) PROVE LockInv'
  <2>1. mu[call[t].s] = t
    BY <1>12 DEF LoginSucceeded, LockInv
  <2> QED
    BY <1>3, <1>12, <2>1 DEF LoginSucceeded
<1>13. ASSUME NEW t \in Threads, LoginFailed(t) PROVE LockInv'
  BY <1>2, <1>13 DEF LoginFailed
<1>14. ASSUME NEW t \in Threads, SignersListed(t) PROVE LockInv'
  BY <1>2, <1>14 DEF SignersListed
<1>15. ASSUME NEW t \in Threads, SignersFailed(t) PROVE LockInv'
  BY <1>2, <1>15 DEF SignersFailed
<1>16. ASSUME NEW t \in Threads, CertificateFetched(t) PROVE LockInv'
  BY <1>16 DEF CertificateFetched, LockInv, TypeOK
<1>17. ASSUME NEW t \in Threads, CertificateFailed(t) PROVE LockInv'
  BY <1>1, <1>17 DEF CertificateFailed
<1>18. ASSUME NEW t \in Threads, SignReturned(t) PROVE LockInv'
  BY <1>1, <1>18 DEF SignReturned
<1>19. ASSUME NEW t \in Threads, RequestApproval(t) PROVE LockInv'
  BY <1>19 DEF RequestApproval, Send, LockInv, TypeOK
<1>20. ASSUME NEW t \in Threads, RequestReturned(t) PROVE LockInv'
  BY <1>1, <1>20 DEF RequestReturned
<1>21. ASSUME UNCHANGED <<pc, call, mu>> PROVE LockInv'
  BY <1>21 DEF LockInv
<1>22. ASSUME NEW t \in Threads, Answer(t) \/ Lose(t) PROVE UNCHANGED <<pc, call, mu>>
  BY <1>22 DEF Answer, ServeLogin, Serve, Lose
<1>23. ASSUME NEW k \in Keys, Revoke(k) PROVE UNCHANGED <<pc, call, mu>>
  BY <1>23 DEF Revoke
<1>24. ASSUME ChangeDirectory \/ ChangeWeather \/ Tick \/ UNCHANGED vars
       PROVE  UNCHANGED <<pc, call, mu>>
  BY <1>24 DEF ChangeDirectory, ChangeWeather, Tick, vars
<1> QED
  BY <1>4, <1>5, <1>6, <1>7, <1>8, <1>9, <1>10, <1>11, <1>12, <1>13, <1>14, <1>15, <1>16,
     <1>17, <1>18, <1>19, <1>20, <1>21, <1>22, <1>23, <1>24
  DEF Next, Acquire, Resume

-----------------------------------------------------------------------------
(* The failure cache *)

\* The configuration of a session never changes.
LEMMA ConfigFixed == [Next]_vars => UNCHANGED cfg
  BY DEF Next, Acquire, Resume, Answer, sessionVars, vars, Begin, CacheHit, TokenAuth,
     CachedToken, CachedFailure, NoCredentials, StartLogin, StorePublicKey, LoginSucceeded,
     LoginFailed, SignersListed, SignersFailed, CertificateFetched, CertificateFailed,
     SignReturned, RequestApproval, RequestReturned, ServeLogin, Serve, Lose, Revoke,
     ChangeDirectory, ChangeWeather, Tick

\* No thread begins to log in.
NoNewLogin ==
    \A u \in Threads : pc'[u] = "login" => pc[u] = "login" /\ call'[u] = call[u]

\* Only StartLogin makes a thread log in.
LEMMA LoginsStartWithStartLogin ==
    TypeOK /\ [Next]_vars /\ (\A t \in Threads : ~StartLogin(t)) => NoNewLogin
<1> SUFFICES ASSUME TypeOK, [Next]_vars, \A t \in Threads : ~StartLogin(t)
             PROVE  NoNewLogin
  OBVIOUS
<1> USE DEF threadVars
<1>1. ASSUME NEW t \in Threads, NEW o, Return(t, o) PROVE NoNewLogin
  BY <1>1 DEF Return, NoNewLogin, TypeOK
<1>2. ASSUME NEW t \in Threads, NEW tk, pc[t] # "idle", HandOut(t, tk) PROVE NoNewLogin
  <2>1. StageAfterToken[call[t].op] # "login"
    BY <1>2, CallType DEF StageAfterToken, Methods
  <2> QED
    BY <1>2, <2>1 DEF HandOut, Send, NoNewLogin, TypeOK
<1>3. ASSUME NEW t \in Threads, NEW c \in Call, Begin(t, c) PROVE NoNewLogin
  BY <1>3 DEF Begin, NoNewLogin, TypeOK
<1>4. ASSUME NEW t \in Threads, Acquire(t) PROVE NoNewLogin
  <2>1. CacheHit(t) \/ CachedFailure(t) \/ NoCredentials(t) \/ StorePublicKey(t) => NoNewLogin
    BY <1>1 DEF CacheHit, CachedFailure, NoCredentials, StorePublicKey
  <2>2. TokenAuth(t) \/ CachedToken(t) => NoNewLogin
    BY <1>1, <1>2 DEF TokenAuth, CachedToken, Ensuring
  <2> QED
    BY <1>4, <2>1, <2>2 DEF Acquire
<1>5. ASSUME NEW t \in Threads, Resume(t) PROVE NoNewLogin
  <2>1. ASSUME \/ LoginFailed(t) \/ SignersListed(t) \/ SignersFailed(t)
               \/ CertificateFailed(t) \/ SignReturned(t) \/ RequestReturned(t)
        PROVE  NoNewLogin
    BY <1>1, <2>1 DEF LoginFailed, SignersListed, SignersFailed, CertificateFailed,
                SignReturned, RequestReturned
  <2>2. LoginSucceeded(t) => NoNewLogin
    BY <1>2 DEF LoginSucceeded
  <2>3. CertificateFetched(t) => NoNewLogin
    BY DEF CertificateFetched, NoNewLogin, TypeOK
  <2>4. RequestApproval(t) => NoNewLogin
    BY DEF RequestApproval, Send, NoNewLogin, TypeOK
  <2> QED
    BY <1>5, <2>1, <2>2, <2>3, <2>4 DEF Resume
<1>6. ASSUME UNCHANGED <<pc, call>> PROVE NoNewLogin
  BY <1>6 DEF NoNewLogin
<1>7. ASSUME NEW t \in Threads, Answer(t) \/ Lose(t) PROVE UNCHANGED <<pc, call>>
  BY <1>7 DEF Answer, ServeLogin, Serve, Lose
<1>8. ASSUME NEW k \in Keys, Revoke(k) PROVE UNCHANGED <<pc, call>>
  BY <1>8 DEF Revoke
<1>9. ASSUME ChangeDirectory \/ ChangeWeather \/ Tick \/ UNCHANGED vars
      PROVE  UNCHANGED <<pc, call>>
  BY <1>9 DEF ChangeDirectory, ChangeWeather, Tick, vars
<1> QED
  BY <1>3, <1>4, <1>5, <1>6, <1>7, <1>8, <1>9 DEF Next

\* A step leaves the failure cache alone, records, clears, or lets time pass.
LEMMA CacheSteps ==
    ASSUME [Next]_vars
    PROVE  \/ UNCHANGED cacheVars
           \/ \E t \in Threads : NoCredentials(t) \/ LoginFailed(t) \/ LoginSucceeded(t)
           \/ Tick
<1> USE DEF sessionVars, serverVars
<1>1. ASSUME NEW t \in Threads, Acquire(t) PROVE UNCHANGED cacheVars \/ NoCredentials(t)
  BY <1>1 DEF Acquire, CacheHit, TokenAuth, CachedToken, CachedFailure, StartLogin,
              StorePublicKey
<1>2. ASSUME NEW t \in Threads, Resume(t)
      PROVE  UNCHANGED cacheVars \/ LoginFailed(t) \/ LoginSucceeded(t)
  BY <1>2 DEF Resume, SignersListed, SignersFailed, CertificateFetched, CertificateFailed,
              SignReturned, RequestApproval, RequestReturned
<1>3. ASSUME NEW t \in Threads, (\E c \in Call : Begin(t, c)) \/ Answer(t) \/ Lose(t)
      PROVE  UNCHANGED cacheVars
  BY <1>3 DEF Begin, Answer, ServeLogin, Serve, Lose
<1>4. ASSUME (\E k \in Keys : Revoke(k)) \/ ChangeDirectory \/ ChangeWeather \/ UNCHANGED vars
      PROVE  UNCHANGED cacheVars
  BY <1>4 DEF Revoke, ChangeDirectory, ChangeWeather, vars
<1> QED
  BY <1>1, <1>2, <1>3, <1>4 DEF Next

\* A session that records a failure has none in the window yet.
LEMMA RecordsOncePerWindow ==
    ASSUME TypeOK, ThrottleInv, NEW t \in Threads, NoCredentials(t) \/ LoginFailed(t)
    PROVE  call[t].s \notin failedIn[AuthKey(call[t].s)]
<1>1. pc[t] # "idle" /\ AuthKey(call[t].s) \in Keys
  BY CallType DEF NoCredentials, NeedsLogin, Ensuring, LoginFailed
<1>2. CASE NoCredentials(t)
  BY <1>1, <1>2 DEF NoCredentials, cachedAuthFailure, Before, ThrottleInv
<1>3. CASE LoginFailed(t)
  BY <1>1, <1>3 DEF LoginFailed, ThrottleInv
<1> QED
  BY <1>2, <1>3

LEMMA ThrottleStep == TypeOK /\ LockInv /\ ThrottleInv /\ [Next]_vars => ThrottleInv'
<1> SUFFICES ASSUME TypeOK, LockInv, ThrottleInv, [Next]_vars PROVE ThrottleInv'
  OBVIOUS
<1>0. UNCHANGED cfg
  BY ConfigFixed
<1>1. CASE \E t \in Threads : StartLogin(t)
  <2>1. PICK t \in Threads : StartLogin(t)
    BY <1>1
  <2>2. /\ AuthKey(call[t].s) \in Keys
        /\ ~(authFailCache[AuthKey(call[t].s)] > 0)
    BY <2>1, CallType
    DEF StartLogin, NeedsLogin, Ensuring, cachedAuthFailure, Before
  <2>3. \A k \in Keys : call[t].s \notin failedIn[k]
    BY <2>2 DEF ThrottleInv
  <2>4. UNCHANGED <<authFailCache, failedIn, call>> /\ pc' = [pc EXCEPT ![t] = "login"]
    BY <2>1 DEF StartLogin, Send, cacheVars
  <2> QED
    BY <1>0, <2>3, <2>4 DEF ThrottleInv, AuthKey, TypeOK
<1>2. CASE \A t \in Threads : ~StartLogin(t)
  <2>0. NoNewLogin
    BY <1>2, LoginsStartWithStartLogin
  <2>1. CASE UNCHANGED cacheVars
    BY <1>0, <2>0, <2>1 DEF ThrottleInv, AuthKey, NoNewLogin, cacheVars
  <2>2. ASSUME NEW t \in Threads, NoCredentials(t) \/ LoginFailed(t) PROVE ThrottleInv'
    <3>1. /\ pc[t] # "idle" /\ call[t].s \in Sessions /\ AuthKey(call[t].s) \in Keys
          /\ recordAuthFailure(call[t].s)
      BY <2>2, CallType DEF NoCredentials, NeedsLogin, Ensuring, LoginFailed
    <3>2. \A u \in Threads : u # t /\ pc[u] = "login" => call[u].s # call[t].s
      BY <2>2 DEF NoCredentials, NeedsLogin, Ensuring, LoginFailed, LockInv
    <3>3. pc'[t] = "idle"
      BY <2>2 DEF NoCredentials, LoginFailed, Return, TypeOK
    <3>4. \A u \in Threads : pc'[u] = "login" => call'[u].s # call[t].s
      BY <2>0, <3>2, <3>3 DEF NoNewLogin
    <3>5. ASSUME NEW k \in Keys, NEW s \in failedIn'[k]
          PROVE  /\ k = cfg[s].id
                 /\ authFailCache'[k] > 0
                 /\ \A u \in Threads : pc'[u] = "login" => call'[u].s # s
      <4>1. CASE s \in failedIn[k]
        BY <2>0, <3>1, <4>1 DEF recordAuthFailure, NoNewLogin, ThrottleInv, AuthKey, TypeOK
      <4>2. CASE s \notin failedIn[k]
        <5>1. k = AuthKey(call[t].s) /\ s = call[t].s
          BY <3>1, <4>2, <3>5 DEF recordAuthFailure, TypeOK
        <5> QED
          BY <3>1, <3>4, <5>1 DEF recordAuthFailure, AuthKey, TypeOK
      <4> QED
        BY <4>1, <4>2
    <3> QED
      BY <1>0, <3>5 DEF ThrottleInv, AuthKey
  <2>3. ASSUME NEW t \in Threads, LoginSucceeded(t) PROVE ThrottleInv'
    <3>1. clearAuthFailure(call[t].s)
      BY <2>3 DEF LoginSucceeded
    <3> QED
      BY <1>0, <2>0, <3>1 DEF clearAuthFailure, ThrottleInv, AuthKey, NoNewLogin, TypeOK
  <2>4. CASE Tick
    <3>1. ASSUME NEW k \in Keys, NEW s \in failedIn'[k]
          PROVE  s \in failedIn[k] /\ authFailCache'[k] > 0
      BY <2>4, <3>1 DEF Tick, Down, TypeOK
    <3> QED
      BY <1>0, <2>0, <3>1 DEF ThrottleInv, AuthKey, NoNewLogin
  <2> QED
    BY <2>1, <2>2, <2>3, <2>4, CacheSteps
<1> QED
  BY <1>1, <1>2

-----------------------------------------------------------------------------
(* The Signer list *)

\* A step changes no list, or it is SignersListed, which stores what came back.
LEMMA ListSteps ==
    ASSUME [Next]_vars
    PROVE  UNCHANGED signers \/ \E t \in Threads : SignersListed(t)
  BY DEF Next, Acquire, Resume, Answer, sessionVars, vars, Begin, CacheHit, TokenAuth,
     CachedToken, CachedFailure, NoCredentials, StartLogin, StorePublicKey, LoginSucceeded,
     LoginFailed, SignersFailed, CertificateFetched, CertificateFailed,
     SignReturned, RequestApproval, RequestReturned, ServeLogin, Serve, Lose, Revoke,
     ChangeDirectory, ChangeWeather, Tick

LEMMA EpochGrows ==
    ASSUME TypeOK, [Next]_vars
    PROVE  epoch' \in Int /\ epoch <= epoch'
<1>1. UNCHANGED epoch \/ ChangeDirectory
  BY DEF Next, Acquire, Resume, Answer, serverVars, vars, Begin, CacheHit, TokenAuth,
     CachedToken, CachedFailure, NoCredentials, StartLogin, StorePublicKey, LoginSucceeded,
     LoginFailed, SignersListed, SignersFailed, CertificateFetched, CertificateFailed,
     SignReturned, RequestApproval, RequestReturned, ServeLogin, Serve, Lose, Revoke,
     ChangeWeather, Tick
<1> QED
  BY <1>1 DEF ChangeDirectory, TypeOK, Epochs

\* The lists that are on their way to their session.
Listed(u) == pc[u] = "list" /\ resp[u].kind = "ok"

\* A list comes back only from Serve, and it is the directory of that moment.
LEMMA ListedStep ==
    ASSUME TypeOK, [Next]_vars, NEW u \in Threads, Listed(u)'
    PROVE  /\ call'[u] = call[u]
           /\ \/ Listed(u) /\ resp'[u] = resp[u]
              \/ resp'[u].epoch = epoch /\ UNCHANGED <<epoch, signers>>
<1> USE DEF threadVars, Listed
<1>1. ASSUME NEW t \in Threads, NEW o, Return(t, o)
      PROVE  call'[u] = call[u] /\ Listed(u) /\ resp'[u] = resp[u]
  BY <1>1 DEF Return, TypeOK, NoResponse, Plain
<1>2. ASSUME NEW t \in Threads, NEW stage, Send(t, stage)
      PROVE  call'[u] = call[u] /\ Listed(u) /\ resp'[u] = resp[u]
  BY <1>2 DEF Send, TypeOK, NoResponse, Plain
<1>3. ASSUME NEW t \in Threads, NEW c \in Call, Begin(t, c)
      PROVE  call'[u] = call[u] /\ Listed(u) /\ resp'[u] = resp[u]
  BY <1>3 DEF Begin, TypeOK
<1>4. ASSUME NEW t \in Threads, Acquire(t)
      PROVE  call'[u] = call[u] /\ Listed(u) /\ resp'[u] = resp[u]
  BY <1>1, <1>2, <1>4 DEF Acquire, CacheHit, TokenAuth, HandOut, CachedToken, CachedFailure,
                          NoCredentials, StartLogin, StorePublicKey
<1>5. ASSUME NEW t \in Threads, Resume(t)
      PROVE  call'[u] = call[u] /\ Listed(u) /\ resp'[u] = resp[u]
  <2>1. ASSUME CertificateFetched(t)
        PROVE  call'[u] = call[u] /\ Listed(u) /\ resp'[u] = resp[u]
    BY <2>1 DEF CertificateFetched, TypeOK
  <2> QED
    BY <1>1, <1>2, <1>5, <2>1 DEF Resume, LoginSucceeded, HandOut, LoginFailed, SignersListed,
         SignersFailed, CertificateFailed, SignReturned, RequestApproval, RequestReturned
<1>6. ASSUME NEW t \in Threads, ServeLogin(t) \/ Lose(t)
      PROVE  call'[u] = call[u] /\ Listed(u) /\ resp'[u] = resp[u]
  BY <1>6 DEF ServeLogin, Lose, Reply, Refused, Plain, TypeOK
<1>7. ASSUME NEW t \in Threads, Serve(t), u # t
      PROVE  call'[u] = call[u] /\ Listed(u) /\ resp'[u] = resp[u]
  BY <1>7 DEF Serve, Reply, TypeOK
<1>8. ASSUME Serve(u)
      PROVE  call'[u] = call[u] /\ resp'[u].epoch = epoch /\ UNCHANGED <<epoch, signers>>
  BY <1>8 DEF Serve, Reply, Refused, Plain, TypeOK, sessionVars, serverVars
<1>9. ASSUME NEW k \in Keys, Revoke(k)
      PROVE  call'[u] = call[u] /\ Listed(u) /\ resp'[u] = resp[u]
  BY <1>9 DEF Revoke
<1>10. ASSUME ChangeDirectory \/ ChangeWeather \/ Tick \/ UNCHANGED vars
       PROVE  call'[u] = call[u] /\ Listed(u) /\ resp'[u] = resp[u]
  BY <1>10 DEF ChangeDirectory, ChangeWeather, Tick, vars
<1> QED
  BY <1>3, <1>4, <1>5, <1>6, <1>7, <1>8, <1>9, <1>10 DEF Next, Answer

LEMMA ListStep ==
    ASSUME TypeOK, LockInv, ListInv, [Next]_vars
    PROVE  ListInv' /\ \A s \in Sessions : signers'[s] >= signers[s]
<1> USE DEF Listed
<1>0. /\ \A s \in Sessions : signers[s] \in Int
      /\ \A u \in Threads : resp[u].epoch \in Int
      /\ epoch \in Int /\ epoch' \in Int /\ epoch <= epoch'
  BY EpochGrows DEF TypeOK, Epochs, NoList, Response
<1>1. CASE UNCHANGED signers
  <2>1. ASSUME NEW u \in Threads, Listed(u)'
        PROVE  signers'[call'[u].s] <= resp'[u].epoch /\ resp'[u].epoch <= epoch'
    <3>1. call[u].s \in Sessions /\ call'[u] = call[u]
      BY <2>1, TypeStep, ListedStep DEF TypeOK, Call
    <3> QED
      BY <1>0, <1>1, <2>1, <3>1, ListedStep DEF ListInv
  <2> QED
    BY <1>0, <1>1, <2>1 DEF ListInv
<1>2. ASSUME NEW t \in Threads, SignersListed(t)
      PROVE  ListInv' /\ \A s \in Sessions : signers'[s] >= signers[s]
  <2>1. /\ pc[t] = "list" /\ resp[t].kind = "ok" /\ call[t].s \in Sessions
        /\ signers' = [signers EXCEPT ![call[t].s] = resp[t].epoch]
    BY <1>2, CallType DEF SignersListed
  <2>2. signers[call[t].s] <= resp[t].epoch /\ resp[t].epoch <= epoch
    BY <2>1 DEF ListInv
  <2>3. \A s \in Sessions : signers'[s] >= signers[s] /\ signers'[s] <= epoch'
    BY <1>0, <2>1, <2>2 DEF ListInv, TypeOK
  <2>4. ASSUME NEW u \in Threads, Listed(u)'
        PROVE  signers'[call'[u].s] <= resp'[u].epoch /\ resp'[u].epoch <= epoch'
    <3>1. call'[u] = call[u] /\ ((Listed(u) /\ resp'[u] = resp[u]) \/ UNCHANGED signers)
      BY <2>4, ListedStep
    <3>2. u # t
      BY <1>2, <2>4 DEF SignersListed, Return, TypeOK
    <3>3. CASE Listed(u) /\ resp'[u] = resp[u]
      <4>1. call[u].s # call[t].s
        BY <2>1, <3>2, <3>3 DEF LockInv
      <4>2. call[u].s \in Sessions
        BY <3>3, CallType
      <4> QED
        BY <1>0, <2>1, <3>1, <3>3, <4>1, <4>2 DEF ListInv, TypeOK
    <3>4. CASE resp'[u].epoch = epoch /\ UNCHANGED <<epoch, signers>>
      <4>1. call[u].s \in Sessions
        BY <2>4, <3>1, TypeStep DEF TypeOK, Call
      <4> QED
        BY <1>0, <3>1, <3>4, <4>1 DEF ListInv
    <3> QED
      BY <2>4, <3>3, <3>4, ListedStep
  <2> QED
    BY <2>3, <2>4 DEF ListInv
<1>3. UNCHANGED signers => \A s \in Sessions : signers'[s] >= signers[s]
  BY <1>0
<1> QED
  BY <1>1, <1>2, <1>3, ListSteps

-----------------------------------------------------------------------------
(* Access tokens *)

\* A step leaves cached tokens as old as they are, stores one, or ages them.
LEMMA TokenSteps ==
    ASSUME TypeOK, [Next]_vars
    PROVE  \/ \A s \in Sessions : /\ tokenExpiry'[s] = tokenExpiry[s]
                                  /\ token'[s].left = token[s].left
           \/ \E t \in Threads : LoginSucceeded(t)
           \/ Tick
<1>1. ASSUME UNCHANGED <<token, tokenExpiry>>
      PROVE  \A s \in Sessions : /\ tokenExpiry'[s] = tokenExpiry[s]
                                 /\ token'[s].left = token[s].left
  BY <1>1
<1>2. ASSUME NEW k \in Keys, Revoke(k)
      PROVE  \A s \in Sessions : /\ tokenExpiry'[s] = tokenExpiry[s]
                                 /\ token'[s].left = token[s].left
  <2>1. UNCHANGED tokenExpiry
    BY <1>2 DEF Revoke
  <2>2. \A s \in Sessions : token'[s].left = token[s].left
    BY <1>2 DEF Revoke, TypeOK, Token
  <2> QED
    BY <2>1, <2>2
<1>3. \/ UNCHANGED <<token, tokenExpiry>>
      \/ \E t \in Threads : LoginSucceeded(t)
      \/ \E k \in Keys : Revoke(k)
      \/ Tick
  BY DEF Next, Acquire, Resume, Answer, sessionVars, vars, Begin, CacheHit, TokenAuth,
     CachedToken, CachedFailure, NoCredentials, StartLogin, StorePublicKey,
     LoginFailed, SignersListed, SignersFailed, CertificateFetched, CertificateFailed,
     SignReturned, RequestApproval, RequestReturned, ServeLogin, Serve, Lose,
     ChangeDirectory, ChangeWeather
<1> QED
  BY <1>1, <1>2, <1>3

\* The request of u and its token are as they were.
SameRequest(u) ==
    /\ pc'[u] = pc[u] /\ call'[u] = call[u] /\ resp'[u] = resp[u]
    /\ left'[u] = left[u] /\ tok'[u].left = tok[u].left

\* What a step does to the request of one thread.
LEMMA RequestSteps ==
    ASSUME TypeOK, [Next]_vars, NEW u \in Threads
    PROVE  \/ SameRequest(u)
           \/ pc'[u] \in {"idle", "lock", "store"} /\ left'[u] \in {0, left[u]}
           \/ StartLogin(u) \/ RequestApproval(u)
           \/ TokenAuth(u) /\ HandOut(u, token[call[u].s])
           \/ CachedToken(u) \/ LoginSucceeded(u)
           \/ ServeLogin(u)
           \/ pc[u] \in {"list", "cert", "sign", "request"} /\ UNCHANGED <<pc, call, left, tok>>
           \/ pc[u] = "login" /\ resp'[u] = Refused /\ UNCHANGED <<pc, call, left, tok>>
           \/ Tick
<1> USE DEF threadVars
<1> DEFINE Over == pc'[u] \in {"idle", "lock", "store"} /\ left'[u] \in {0, left[u]}
<1>1. ASSUME NEW t \in Threads, NEW o, Return(t, o) PROVE SameRequest(u) \/ Over
  BY <1>1 DEF Return, SameRequest, TypeOK
<1>2. ASSUME NEW t \in Threads, NEW stage, Send(t, stage), UNCHANGED tok, u # t
      PROVE  SameRequest(u)
  BY <1>2 DEF Send, SameRequest, TypeOK
<1>3. ASSUME NEW t \in Threads, NEW tk, HandOut(t, tk), u # t PROVE SameRequest(u)
  BY <1>3 DEF HandOut, Send, SameRequest, TypeOK
<1>4. ASSUME NEW t \in Threads, NEW c \in Call, Begin(t, c) PROVE SameRequest(u) \/ Over
  BY <1>4 DEF Begin, SameRequest, TypeOK
<1>5. ASSUME NEW t \in Threads, Acquire(t)
      PROVE  \/ SameRequest(u) \/ Over \/ StartLogin(u)
             \/ (TokenAuth(u) /\ HandOut(u, token[call[u].s])) \/ CachedToken(u)
  <2>1. ASSUME CacheHit(t) \/ CachedFailure(t) \/ NoCredentials(t) \/ StorePublicKey(t)
        PROVE  SameRequest(u) \/ Over
    BY <1>1, <2>1 DEF CacheHit, CachedFailure, NoCredentials, StorePublicKey
  <2>2. ASSUME TokenAuth(t)
        PROVE  SameRequest(u) \/ Over \/ (TokenAuth(u) /\ HandOut(u, token[call[u].s]))
    BY <1>1, <1>3, <2>2 DEF TokenAuth
  <2>3. ASSUME CachedToken(t) PROVE SameRequest(u) \/ CachedToken(u)
    BY <1>3, <2>3 DEF CachedToken
  <2>4. ASSUME StartLogin(t) PROVE SameRequest(u) \/ StartLogin(u)
    BY <1>2, <2>4 DEF StartLogin
  <2> QED
    BY <1>5, <2>1, <2>2, <2>3, <2>4 DEF Acquire
<1>6. ASSUME NEW t \in Threads, Resume(t)
      PROVE  SameRequest(u) \/ Over \/ RequestApproval(u) \/ LoginSucceeded(u)
  <2>1. ASSUME \/ LoginFailed(t) \/ SignersListed(t) \/ SignersFailed(t)
               \/ CertificateFailed(t) \/ SignReturned(t) \/ RequestReturned(t)
        PROVE  SameRequest(u) \/ Over
    BY <1>1, <2>1 DEF LoginFailed, SignersListed, SignersFailed, CertificateFailed,
                      SignReturned, RequestReturned
  <2>2. ASSUME LoginSucceeded(t) PROVE SameRequest(u) \/ LoginSucceeded(u)
    BY <1>3, <2>2 DEF LoginSucceeded
  <2>3. ASSUME CertificateFetched(t) PROVE SameRequest(u) \/ Over
    BY <2>3 DEF CertificateFetched, SameRequest, TypeOK
  <2>4. ASSUME RequestApproval(t) PROVE SameRequest(u) \/ RequestApproval(u)
    BY <1>2, <2>4 DEF RequestApproval
  <2> QED
    BY <1>6, <2>1, <2>2, <2>3, <2>4 DEF Resume
<1>7. ASSUME NEW t \in Threads, ServeLogin(t) PROVE SameRequest(u) \/ ServeLogin(u)
  BY <1>7 DEF ServeLogin, Reply, SameRequest, TypeOK
<1>8. ASSUME NEW t \in Threads, Serve(t)
      PROVE  \/ SameRequest(u)
             \/ pc[u] \in {"list", "cert", "sign", "request"} /\ UNCHANGED <<pc, call, left, tok>>
  BY <1>8 DEF Serve, Reply, SameRequest, TypeOK
<1>9. ASSUME NEW t \in Threads, Lose(t)
      PROVE  \/ SameRequest(u)
             \/ pc[u] \in {"list", "cert", "sign", "request"} /\ UNCHANGED <<pc, call, left, tok>>
             \/ pc[u] = "login" /\ resp'[u] = Refused /\ UNCHANGED <<pc, call, left, tok>>
  BY <1>9 DEF Lose, Reply, InFlight, SameRequest, TypeOK
<1>10. ASSUME NEW k \in Keys, Revoke(k) PROVE SameRequest(u)
  BY <1>10 DEF Revoke, SameRequest, TypeOK, Token
<1>11. ASSUME ChangeDirectory \/ ChangeWeather \/ UNCHANGED vars PROVE SameRequest(u)
  BY <1>11 DEF ChangeDirectory, ChangeWeather, vars, SameRequest
<1> QED
  BY <1>4, <1>5, <1>6, <1>7, <1>8, <1>9, <1>10, <1>11 DEF Next, Answer

\* What a thread is handed out lives, and what a session stores outlives its stay.
LEMMA NewTokenLives ==
    ASSUME LongLived, TypeOK, TokenInv, NEW t \in Threads, LoginSucceeded(t)
    PROVE  /\ tok[t].left > 0
           /\ tok[t].left >= cacheExpiry(resp[t].ttl, TokenTTLSeconds)
<1>1. /\ resp[t].ttl \in Lifetimes
      /\ tok[t].left + clientTimeout >= resp[t].ttl + left[t]
  BY DEF LoginSucceeded, TokenInv
<1>2. /\ resp[t].ttl \in Nat /\ left[t] \in Nat /\ tok[t].left \in Nat
      /\ resp[t].ttl >= 2 * tokenSafetyMargin
  BY <1>1 DEF TypeOK, Token, LongLived
<1> QED
  BY <1>1, <1>2, CacheExpiryBounds

LEMMA TokenStep == LongLived /\ TypeOK /\ TokenInv /\ [Next]_vars => TokenInv'
<1> SUFFICES ASSUME LongLived, TypeOK, TokenInv, [Next]_vars PROVE TokenInv'
  OBVIOUS
<1>0. /\ \A u \in Threads : left[u] \in Nat /\ tok[u].left \in Nat
      /\ \A s \in Sessions : tokenExpiry[s] \in Nat /\ token[s].left \in Nat
  BY DEF TypeOK, Token
<1>1. ASSUME NEW u \in Threads
      PROVE  left'[u] <= clientTimeout
  <2>1. left[u] <= clientTimeout
    BY DEF TokenInv
  <2>2. StartLogin(u) \/ RequestApproval(u) => left'[u] = clientTimeout
    BY DEF StartLogin, RequestApproval, Send, TypeOK
  <2>3. ASSUME NEW tk, HandOut(u, tk) PROVE left'[u] = clientTimeout
    BY <2>3 DEF HandOut, Send, TypeOK
  <2>4. ServeLogin(u) => left'[u] = left[u]
    BY DEF ServeLogin
  <2>5. Tick => left'[u] <= left[u]
    BY <1>0 DEF Tick, Down
  <2>6. SameRequest(u) => left'[u] = left[u]
    BY DEF SameRequest
  <2>7. Tick => left'[u] \in Nat
    BY <1>0 DEF Tick, Down
  <2> QED
    BY <1>0, <2>1, <2>2, <2>3, <2>4, <2>5, <2>6, <2>7, RequestSteps
    DEF CachedToken, LoginSucceeded
<1>2. ASSUME NEW u \in Threads, pc'[u] = "login", resp'[u].kind = "ok"
      PROVE  /\ resp'[u].ttl \in Lifetimes
             /\ tok'[u].left + clientTimeout >= resp'[u].ttl + left'[u]
  <2>1. CASE SameRequest(u)
    BY <1>2, <2>1 DEF SameRequest, TokenInv
  <2>2. CASE ServeLogin(u)
    <3>1. PICK l \in Lifetimes :
             /\ tok' = [tok EXCEPT ![u] = [left |-> l, valid |-> TRUE]]
             /\ Reply(u, [kind |-> "ok", ttl |-> l, epoch |-> 0])
      BY <1>2, <2>2 DEF ServeLogin, Reply, Refused, Plain, TypeOK
    <3>2. tok'[u].left = l /\ resp'[u].ttl = l
      BY <3>1 DEF Reply, TypeOK
    <3>3. left'[u] = left[u]
      BY <2>2 DEF ServeLogin
    <3> QED
      BY <1>0, <3>2, <3>3 DEF TokenInv
  <2>3. CASE Tick
    <3>1. UNCHANGED <<pc, resp>> /\ pc[u] \in InFlight /\ left[u] > 0
      BY <1>2, <2>3 DEF Tick, InFlight
    <3>2. left'[u] = left[u] - 1 /\ tok'[u].left = Down(tok[u].left)
      BY <1>0, <2>3, <3>1 DEF Tick, Down
    <3>3. /\ resp[u].ttl \in Lifetimes /\ resp[u].ttl \in Nat
          /\ tok[u].left + clientTimeout >= resp[u].ttl + left[u]
      BY <1>2, <3>1 DEF TokenInv
    <3> QED
      BY <1>0, <3>1, <3>2, <3>3 DEF Down
  <2>4. ~StartLogin(u)
    BY <1>2 DEF StartLogin, Send, NoResponse, Plain, TypeOK
  <2>5. ~RequestApproval(u)
    BY <1>2 DEF RequestApproval, Send, TypeOK
  <2>6. ASSUME NEW tk, pc[u] # "idle", HandOut(u, tk) PROVE FALSE
    BY <1>2, <2>6, CallType DEF HandOut, Send, StageAfterToken, Methods, TypeOK
  <2>7. resp'[u] # Refused
    BY <1>2 DEF Refused, Plain
  <2> QED
    BY <1>2, <2>1, <2>2, <2>3, <2>4, <2>5, <2>6, <2>7, RequestSteps
    DEF TokenAuth, CachedToken, LoginSucceeded, Ensuring
<1>3. ASSUME NEW s \in Sessions, tokenExpiry'[s] > 0
      PROVE  token'[s].left >= tokenExpiry'[s]
  <2>1. CASE tokenExpiry'[s] = tokenExpiry[s] /\ token'[s].left = token[s].left
    BY <1>3, <2>1 DEF TokenInv
  <2>2. ASSUME NEW t \in Threads, LoginSucceeded(t) PROVE token'[s].left >= tokenExpiry'[s]
    <3>1. CASE s = call[t].s
      BY <2>2, <3>1, NewTokenLives DEF LoginSucceeded, TypeOK
    <3>2. CASE s # call[t].s
      <4>1. tokenExpiry'[s] = tokenExpiry[s] /\ token'[s] = token[s]
        BY <2>2, <3>2 DEF LoginSucceeded, TypeOK
      <4> QED
        BY <2>1, <4>1
    <3> QED
      BY <3>1, <3>2
  <2>3. CASE Tick
    <3>1. tokenExpiry'[s] = Down(tokenExpiry[s]) /\ token'[s].left = Down(token[s].left)
      BY <2>3 DEF Tick
    <3> QED
      BY <1>0, <1>3, <3>1 DEF TokenInv, Down
  <2> QED
    BY <2>1, <2>2, <2>3, TokenSteps
<1> QED
  BY <1>1, <1>2, <1>3 DEF TokenInv

LEMMA SentStep ==
    LongLived /\ TypeOK /\ TokenInv /\ NoExpiredTokenSent /\ [Next]_vars => NoExpiredTokenSent'
<1> SUFFICES ASSUME LongLived, TypeOK, TokenInv, NoExpiredTokenSent, [Next]_vars,
                    NEW u \in Threads, JustSent(u)', UniversalAuth(call[u].s)'
             PROVE  tok'[u].left > 0
  BY DEF NoExpiredTokenSent
<1>0. cfg' = cfg /\ pc'[u] \in {"list", "cert", "sign"} /\ left'[u] = clientTimeout
  BY ConfigFixed DEF JustSent
<1>1. CASE SameRequest(u)
  BY <1>0, <1>1 DEF SameRequest, NoExpiredTokenSent, JustSent, UniversalAuth
<1>2. ASSUME NEW tk \in Token, HandOut(u, tk), tk.left > 0 PROVE tok'[u].left > 0
  BY <1>2 DEF HandOut, TypeOK
<1>3. ~(TokenAuth(u) /\ HandOut(u, token[call[u].s]))
  BY <1>0 DEF TokenAuth, HandOut, Send, UniversalAuth
<1>4. CASE CachedToken(u)
  <2>1. pc[u] # "idle" /\ tokenExpiry[call[u].s] > 0 /\ HandOut(u, token[call[u].s])
    BY <1>4 DEF CachedToken, Ensuring, TokenCached, Before
  <2>2. call[u].s \in Sessions /\ token[call[u].s] \in Token
    BY <2>1, CallType
  <2>3. token[call[u].s].left > 0
    BY <2>1, <2>2 DEF TokenInv, TypeOK, Token
  <2> QED
    BY <1>2, <2>1, <2>2, <2>3
<1>5. CASE LoginSucceeded(u)
  BY <1>2, <1>5, NewTokenLives DEF LoginSucceeded, TypeOK
<1>6. CASE /\ pc[u] \in {"list", "cert", "sign", "request"}
           /\ UNCHANGED <<pc, call, left, tok>>
  BY <1>0, <1>6 DEF NoExpiredTokenSent, JustSent, UniversalAuth
<1>7. ~StartLogin(u) /\ ~RequestApproval(u)
  BY <1>0 DEF StartLogin, RequestApproval, Send, TypeOK
<1>8. ~ServeLogin(u) /\ ~(pc[u] = "login" /\ UNCHANGED <<pc, call, left, tok>>)
  BY <1>0 DEF ServeLogin
<1>9. ~Tick
  <2>1. left[u] \in Nat /\ left[u] <= clientTimeout
    BY DEF TokenInv, TypeOK
  <2>2. Tick => left'[u] = Down(left[u])
    BY DEF Tick
  <2> QED
    BY <1>0, <2>1, <2>2 DEF Down
<1> QED
  BY <1>0, <1>1, <1>3, <1>4, <1>5, <1>6, <1>7, <1>8, <1>9, RequestSteps

-----------------------------------------------------------------------------
(* Theorems *)

\* A session whose failed login keeps the window of its identity open sends no
\* further login in that window (session.go:106-110).
THEOREM Throttled == Spec => []ThrottledSessionsDoNotLogIn
<1>1. Init => TypeOK /\ LockInv /\ ThrottleInv
  <2>1. Init => LockInv /\ ThrottleInv
    BY DEF Init, LockInv, ThrottleInv
  <2> QED
    BY <2>1, TypeInit
<1>2. TypeOK /\ LockInv /\ ThrottleInv /\ [Next]_vars => (TypeOK /\ LockInv /\ ThrottleInv)'
  BY TypeStep, LockStep, ThrottleStep
<1>3. ThrottleInv => ThrottledSessionsDoNotLogIn
  BY DEF ThrottleInv, ThrottledSessionsDoNotLogIn
<1> QED
  BY <1>1, <1>2, <1>3, PTL DEF Spec

\* A session never replaces its Signer list by an older one: s.mu is held from
\* the request to the assignment (session.go:143-158).
THEOREM ListMonotonic == Spec => SignerListNeverRegresses
<1> DEFINE Grows == \A s \in Sessions : signers'[s] >= signers[s]
<1>1. Init => TypeOK /\ LockInv /\ ListInv
  <2>1. Init => LockInv /\ ListInv
    BY DEF Init, LockInv, ListInv, NoList
  <2> QED
    BY <2>1, TypeInit
<1>2. TypeOK /\ LockInv /\ ListInv /\ [Next]_vars => (TypeOK /\ LockInv /\ ListInv)'
  BY TypeStep, LockStep, ListStep
<1>3. TypeOK /\ LockInv /\ ListInv /\ [Next]_vars => [Grows]_vars
  BY ListStep
<1>4. Spec => [][Grows]_vars
  <2> HIDE DEF Grows
  <2> QED
    BY <1>1, <1>2, <1>3, PTL DEF Spec
<1> QED
  BY <1>4 DEF SignerListNeverRegresses

\* If the server's tokens live for two safety margins or longer, no token is sent
\* after it has expired, however slow logins are and however long callers wait
\* for s.mu (session.go:18-20, 103, 129-139).
THEOREM OnlyLiveTokensSent ==
    ASSUME LongLived
    PROVE  Spec => []NoExpiredTokenSent
<1> DEFINE IInv == TypeOK /\ TokenInv /\ NoExpiredTokenSent
<1>1. Init => IInv
  <2>1. Init => TokenInv
    BY DEF Init, TokenInv
  <2>2. Init => NoExpiredTokenSent
    BY DEF Init, NoExpiredTokenSent, JustSent
  <2> QED
    BY <2>1, <2>2, TypeInit
<1>2. IInv /\ [Next]_vars => IInv'
  BY TypeStep, TokenStep, SentStep
<1> QED
  BY <1>1, <1>2, PTL DEF Spec

\* The failure cache keeps the promise of AuthBreaker: per window, each session
\* adds at most one failure (session.go:37-59, 106-123).
THEOREM ImplementsBreaker == Spec => BreakerSpec
<1> USE DEF sessionVars, cacheVars, threadVars, serverVars
<1>1. Init => TypeOK /\ LockInv /\ ThrottleInv
  <2>1. Init => LockInv /\ ThrottleInv
    BY DEF Init, LockInv, ThrottleInv
  <2> QED
    BY <2>1, TypeInit
<1>2. TypeOK /\ LockInv /\ ThrottleInv /\ [Next]_vars => (TypeOK /\ LockInv /\ ThrottleInv)'
  BY TypeStep, LockStep, ThrottleStep
<1>3. Init => Breaker!Init
  BY DEF Init, Breaker!Init
<1>4. TypeOK /\ ThrottleInv /\ [Next]_vars => [Breaker!Next]_(Breaker!vars)
  <2> SUFFICES ASSUME TypeOK, ThrottleInv, [Next]_vars
               PROVE  [Breaker!Next]_(Breaker!vars)
    OBVIOUS
  <2>1. CASE UNCHANGED cacheVars
    BY <2>1 DEF Breaker!vars
  <2>2. ASSUME NEW t \in Threads, NoCredentials(t) \/ LoginFailed(t) PROVE Breaker!Next
    <3>1. /\ call[t].s \in Sessions /\ AuthKey(call[t].s) \in Keys
          /\ recordAuthFailure(call[t].s)
      BY <2>2, CallType DEF NoCredentials, NeedsLogin, Ensuring, LoginFailed
    <3>2. Breaker!Fail(call[t].s, AuthKey(call[t].s))
      BY <2>2, <3>1, RecordsOncePerWindow DEF recordAuthFailure, Breaker!Fail
    <3> QED
      BY <3>1, <3>2 DEF Breaker!Next
  <2>3. ASSUME NEW t \in Threads, LoginSucceeded(t) PROVE Breaker!Next
    <3>1. AuthKey(call[t].s) \in Keys /\ clearAuthFailure(call[t].s)
      BY <2>3, CallType DEF LoginSucceeded
    <3> QED
      BY <3>1 DEF clearAuthFailure, Breaker!Succeed, Breaker!Next
  <2>4. CASE Tick
    BY <2>4 DEF Tick, Down, Breaker!Elapse, Breaker!Next
  <2> QED
    BY <2>1, <2>2, <2>3, <2>4, CacheSteps
<1> QED
  BY <1>1, <1>2, <1>3, <1>4, PTL DEF Spec, BreakerSpec, Breaker!Spec

=============================================================================
