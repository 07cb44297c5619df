------------------------------ MODULE Session ------------------------------
(***************************************************************************)
(* internal/infisical/session.go: the sessions of one host process, the    *)
(* threads that call them, and the Infisical server as they see it.        *)
(*                                                                         *)
(* A session owns an access token and two caches (the Signer list and the  *)
(* public keys) under one mutex, s.mu.  All sessions of the process share  *)
(* one authentication-failure cache.  FindSigner keeps s.mu across its     *)
(* network calls; PublicKey and Sign give it up once they have a token.    *)
(*                                                                         *)
(* Time.  An expiry time is kept as the number of ticks until it is        *)
(* reached, so time.Now().Before(e) is e > 0 and time.Now().Add(d) is the  *)
(* count d.  Tick lets every count run down by one.  Local computation     *)
(* takes no time; waiting for the mutex and for the server does.           *)
(*                                                                         *)
(* Data.  A token is the remaining lifetime the server gives it and        *)
(* whether the server still honours it.  A Signer list or a certificate is *)
(* the epoch of the server's directory it was read from.                   *)
(***************************************************************************)
EXTENDS Integers

CONSTANTS
    Threads,              \* the host's threads
    Sessions,             \* the sessions of the process, one per open provider
    ClientIDs,            \* the machine identities in use
    SignerIDs,            \* the Signers asked for
    NoThread,             \* "the mutex is free"
    NoID,                 \* "no client ID configured"
    NoCall,               \* "the thread is in no call"
    tokenSafetyMargin,    \* session.go:20, in ticks
    authFailureCacheTTL,  \* session.go:25, in ticks
    clientTimeout,        \* client.go:18, in ticks
    TokenTTLSeconds,      \* cache.token_ttl_seconds, in ticks
    SignerTTLSeconds,     \* cache.signer_ttl_seconds, in ticks
    CertTTLSeconds,       \* cache.cert_ttl_seconds, in ticks
    Lifetimes,            \* the token lifetimes the server may report
    Configs,              \* the configurations a session may be created with
    MaxEpoch              \* bound: how often the server's directory changes

Config == [method   : {"universal-auth", "token"},
           id       : ClientIDs \cup {NoID},
           cred     : {"none", "right", "wrong"},  \* client secret, or the token
           approval : BOOLEAN]                     \* approval block configured

Methods == {"FindSigner", "PublicKey", "Sign"}

Call == [op : Methods, s : Sessions, x : SignerIDs]

ASSUME SentinelAssumption == NoThread \notin Threads /\ NoCall \notin Call

ASSUME TimingAssumption ==
    /\ tokenSafetyMargin \in Nat \ {0}
    /\ authFailureCacheTTL \in Nat \ {0}
    /\ clientTimeout \in Nat \ {0}
    /\ clientTimeout <= tokenSafetyMargin    \* both are 30 seconds in the code
    /\ TokenTTLSeconds \in Int
    /\ SignerTTLSeconds \in Int
    /\ CertTTLSeconds \in Int
    /\ Lifetimes \subseteq Nat

ASSUME ConfigAssumption == Configs \subseteq Config

ASSUME EpochAssumption == MaxEpoch \in Nat

VARIABLES
    \* Session
    cfg,             \* s.cfg, fixed when the session is created
    mu,              \* s.mu: the thread that holds it
    token,           \* s.token, or s.cfg.Auth.Token with token auth
    tokenExpiry,     \* s.tokenExpiry
    signers,         \* s.signers: the epoch it lists, NoList when nil
    signersExpiry,   \* s.signersExpiry
    pubKeys,         \* s.pubKeys: per Signer the epoch of the key and its expiry
    \* process-wide
    authFailCache,   \* per identity the time until the cached failure expires
    failedIn,        \* history: sessions whose failure keeps that entry alive
    \* threads
    pc,              \* where in its call the thread is
    call,            \* the call it makes
    tok,             \* the local variable "token" of that call
    left,            \* time until the HTTP client gives up on the request in flight
    resp,            \* what has come back for that request
    out,             \* how the thread's last call ended
    \* server
    epoch,           \* version of the Signer list and of the certificates
    trouble          \* calls may get lost or refused, tokens may be revoked

sessionVars == <<cfg, mu, token, tokenExpiry, signers, signersExpiry, pubKeys>>
cacheVars == <<authFailCache, failedIn>>
threadVars == <<pc, call, tok, left, resp, out>>
serverVars == <<epoch, trouble>>
vars == <<sessionVars, cacheVars, threadVars, serverVars>>

-----------------------------------------------------------------------------
(* Types *)

Token == [left : Nat, valid : BOOLEAN]
NoToken == [left |-> 0, valid |-> FALSE]

NoList == -1
Epochs == 0 .. MaxEpoch

KeyEntry == [epoch : Epochs, left : Nat]

Response == [kind : {"none", "ok", "error", "approval", "pending"},
             ttl : Nat, epoch : Epochs]
Plain(kind) == [kind |-> kind, ttl |-> 0, epoch |-> 0]
NoResponse == Plain("none")
Refused == Plain("error")

\* The stages with a request in flight, and all the stages of a call.
InFlight == {"login", "list", "cert", "sign", "request"}
Stages == InFlight \cup {"idle", "lock", "store"}

Keys == ClientIDs \cup {NoID}

\* One type for every variable; a thread inside a call knows which call it is.
TypeOK ==
    /\ cfg \in [Sessions -> Config]
    /\ mu \in [Sessions -> Threads \cup {NoThread}]
    /\ token \in [Sessions -> Token]
    /\ tokenExpiry \in [Sessions -> Nat]
    /\ signers \in [Sessions -> Epochs \cup {NoList}]
    /\ signersExpiry \in [Sessions -> Nat]
    /\ pubKeys \in [Sessions -> [SignerIDs -> KeyEntry]]
    /\ authFailCache \in [Keys -> Nat]
    /\ failedIn \in [Keys -> SUBSET Sessions]
    /\ pc \in [Threads -> Stages]
    /\ call \in [Threads -> Call \cup {NoCall}]
    /\ \A t \in Threads : pc[t] # "idle" => call[t] \in Call
    /\ tok \in [Threads -> Token]
    /\ left \in [Threads -> Nat]
    /\ resp \in [Threads -> Response]
    /\ out \in [Threads -> {"none", "ok", "authErr", "err"}]
    /\ epoch \in Epochs
    /\ trouble \in BOOLEAN

-----------------------------------------------------------------------------
(* Expiry times and the authentication-failure cache *)

\* time.Now().Add(d): an expiry that lies in the past has been reached.
Add(d) == IF d > 0 THEN d ELSE 0

Before(expiry) == expiry > 0

\* Mutants of cacheExpiry: the floor forgotten, the safety margin forgotten.
cacheExpiryNoFloor(reported, ceiling) ==
    (IF ceiling > 0 /\ ceiling < reported THEN ceiling ELSE reported) - tokenSafetyMargin

cacheExpiryNoMargin(reported, ceiling) ==
    IF ceiling > 0 /\ ceiling < reported THEN ceiling ELSE reported

cacheExpiry(reported, ceiling) ==
    LET ttl == IF ceiling > 0 /\ ceiling < reported THEN ceiling ELSE reported
        safe == ttl - tokenSafetyMargin
    IN  IF safe < tokenSafetyMargin THEN tokenSafetyMargin ELSE safe

\* One server, so the client ID alone tells the keys apart.
AuthKey(s) == cfg[s].id

\* Mutant of cachedAuthFailure: the cached failure is never looked up.
cachedAuthFailureIgnored(k) == FALSE

cachedAuthFailure(k) == Before(authFailCache[k])

recordAuthFailure(s) ==
    /\ authFailCache' = [authFailCache EXCEPT ![AuthKey(s)] = authFailureCacheTTL]
    /\ failedIn' = [failedIn EXCEPT ![AuthKey(s)] = @ \cup {s}]

clearAuthFailure(s) ==
    /\ authFailCache' = [authFailCache EXCEPT ![AuthKey(s)] = 0]
    /\ failedIn' = [failedIn EXCEPT ![AuthKey(s)] = {}]

-----------------------------------------------------------------------------
(* A thread's call *)

\* The HTTP client sends the request of this stage and starts its timeout.
Send(t, stage) ==
    /\ pc' = [pc EXCEPT ![t] = stage]
    /\ left' = [left EXCEPT ![t] = clientTimeout]
    /\ resp' = [resp EXCEPT ![t] = NoResponse]
    /\ UNCHANGED <<call, out>>

Return(t, outcome) ==
    /\ pc' = [pc EXCEPT ![t] = "idle"]
    /\ call' = [call EXCEPT ![t] = NoCall]
    /\ tok' = [tok EXCEPT ![t] = NoToken]
    /\ left' = [left EXCEPT ![t] = 0]
    /\ resp' = [resp EXCEPT ![t] = NoResponse]
    /\ out' = [out EXCEPT ![t] = outcome]

Unlock(s) == mu' = [mu EXCEPT ![s] = NoThread]

\* The host calls a method of a session; the method starts with s.mu.Lock().
Begin(t, c) ==
    /\ pc[t] = "idle"
    /\ pc' = [pc EXCEPT ![t] = "lock"]
    /\ call' = [call EXCEPT ![t] = c]
    /\ out' = [out EXCEPT ![t] = "none"]
    /\ UNCHANGED <<tok, left, resp, sessionVars, cacheVars, serverVars>>

\* Mutant of SignersCached: a list is kept for good.
SignersCachedForGood(s) == signers[s] # NoList

SignersCached(s) == signers[s] # NoList /\ Before(signersExpiry[s])

PublicKeyCached(s, x) == Before(pubKeys[s][x].left)

Hit(c) ==
    \/ c.op = "FindSigner" /\ SignersCached(c.s)
    \/ c.op = "PublicKey" /\ PublicKeyCached(c.s, c.x)

\* Lock, find the answer in the session's cache, unlock.
CacheHit(t) ==
    /\ pc[t] = "lock" /\ mu[call[t].s] = NoThread
    /\ Hit(call[t])
    /\ \/ Return(t, "ok")
       \/ call[t].op = "FindSigner" /\ Return(t, "err")  \* not in the list
    /\ UNCHANGED <<sessionVars, cacheVars, serverVars>>

\* Lock, miss, and enter ensureToken.
Ensuring(t) ==
    /\ pc[t] = "lock" /\ mu[call[t].s] = NoThread
    /\ ~Hit(call[t])

StageAfterToken == [FindSigner |-> "list", PublicKey |-> "cert", Sign |-> "sign"]

\* Mutant of HandOut: FindSigner, too, unlocks before its network call.
HandOutUnlocked(t, tk) ==
    /\ Send(t, StageAfterToken[call[t].op])
    /\ tok' = [tok EXCEPT ![t] = tk]
    /\ Unlock(call[t].s)

\* ensureToken returns tk.  Only FindSigner goes on with the mutex held.
HandOut(t, tk) ==
    /\ Send(t, StageAfterToken[call[t].op])
    /\ tok' = [tok EXCEPT ![t] = tk]
    /\ mu' = [mu EXCEPT ![call[t].s] = IF call[t].op = "FindSigner" THEN t ELSE NoThread]

TokenAuth(t) ==
    /\ Ensuring(t)
    /\ cfg[call[t].s].method = "token"
    /\ \/ /\ cfg[call[t].s].cred = "none"
          /\ Return(t, "authErr")
          /\ UNCHANGED mu
       \/ /\ cfg[call[t].s].cred # "none"
          /\ HandOut(t, token[call[t].s])
    /\ UNCHANGED <<cfg, token, tokenExpiry, signers, signersExpiry, pubKeys,
                   cacheVars, serverVars>>

\* Login never returns an empty token, so an unexpired one is not empty.
TokenCached(s) == Before(tokenExpiry[s])

\* Mutant of CachedToken: every use of the token renews its stay to the configured one.
CachedTokenSliding(t) ==
    /\ Ensuring(t)
    /\ cfg[call[t].s].method = "universal-auth"
    /\ TokenCached(call[t].s)
    /\ HandOut(t, token[call[t].s])
    /\ tokenExpiry' = [tokenExpiry EXCEPT ![call[t].s] = cacheExpiry(TokenTTLSeconds, TokenTTLSeconds)]
    /\ UNCHANGED <<cfg, token, signers, signersExpiry, pubKeys, cacheVars, serverVars>>

CachedToken(t) ==
    /\ Ensuring(t)
    /\ cfg[call[t].s].method = "universal-auth"
    /\ TokenCached(call[t].s)
    /\ HandOut(t, token[call[t].s])
    /\ UNCHANGED <<cfg, token, tokenExpiry, signers, signersExpiry, pubKeys,
                   cacheVars, serverVars>>

NeedsLogin(t) ==
    /\ Ensuring(t)
    /\ cfg[call[t].s].method = "universal-auth"
    /\ ~TokenCached(call[t].s)

\* Mutant of CachedFailure: a refused retry is recorded as a failure again.
CachedFailureRenewed(t) ==
    /\ NeedsLogin(t)
    /\ cachedAuthFailure(AuthKey(call[t].s))
    /\ recordAuthFailure(call[t].s)
    /\ Return(t, "authErr")
    /\ UNCHANGED <<sessionVars, serverVars>>

CachedFailure(t) ==
    /\ NeedsLogin(t)
    /\ cachedAuthFailure(AuthKey(call[t].s))
    /\ Return(t, "authErr")
    /\ UNCHANGED <<sessionVars, cacheVars, serverVars>>

NoCredentialsConfigured(s) == cfg[s].id = NoID \/ cfg[s].cred = "none"

NoCredentials(t) ==
    /\ NeedsLogin(t)
    /\ ~cachedAuthFailure(AuthKey(call[t].s))
    /\ NoCredentialsConfigured(call[t].s)
    /\ recordAuthFailure(call[t].s)
    /\ Return(t, "authErr")
    /\ UNCHANGED <<sessionVars, serverVars>>

StartLogin(t) ==
    /\ NeedsLogin(t)
    /\ ~cachedAuthFailure(AuthKey(call[t].s))
    /\ ~NoCredentialsConfigured(call[t].s)
    /\ Send(t, "login")
    /\ mu' = [mu EXCEPT ![call[t].s] = t]
    /\ UNCHANGED <<tok, cfg, token, tokenExpiry, signers, signersExpiry, pubKeys,
                   cacheVars, serverVars>>

LoginSucceeded(t) ==
    LET s == call[t].s IN
    /\ pc[t] = "login" /\ resp[t].kind = "ok"
    /\ token' = [token EXCEPT ![s] = tok[t]]
    /\ tokenExpiry' = [tokenExpiry EXCEPT ![s] = cacheExpiry(resp[t].ttl, TokenTTLSeconds)]
    /\ clearAuthFailure(s)
    /\ HandOut(t, tok[t])
    /\ UNCHANGED <<cfg, signers, signersExpiry, pubKeys, serverVars>>

\* Mutant of LoginFailed: the error path forgets to unlock.
LoginFailedLocked(t) ==
    /\ pc[t] = "login" /\ resp[t].kind = "error"
    /\ recordAuthFailure(call[t].s)
    /\ Return(t, "authErr")
    /\ UNCHANGED <<sessionVars, serverVars>>

LoginFailed(t) ==
    /\ pc[t] = "login" /\ resp[t].kind = "error"
    /\ recordAuthFailure(call[t].s)
    /\ Return(t, "authErr")
    /\ Unlock(call[t].s)
    /\ UNCHANGED <<cfg, token, tokenExpiry, signers, signersExpiry, pubKeys, serverVars>>

\* Signers returns with the mutex still held; FindSigner then searches the list.
SignersListed(t) ==
    LET s == call[t].s IN
    /\ pc[t] = "list" /\ resp[t].kind = "ok"
    /\ signers' = [signers EXCEPT ![s] = resp[t].epoch]
    /\ signersExpiry' = [signersExpiry EXCEPT ![s] = Add(SignerTTLSeconds)]
    /\ Unlock(s)
    /\ \/ Return(t, "ok")
       \/ Return(t, "err")
    /\ UNCHANGED <<cfg, token, tokenExpiry, pubKeys, cacheVars, serverVars>>

SignersFailed(t) ==
    /\ pc[t] = "list" /\ resp[t].kind = "error"
    /\ Unlock(call[t].s)
    /\ Return(t, "err")
    /\ UNCHANGED <<cfg, token, tokenExpiry, signers, signersExpiry, pubKeys,
                   cacheVars, serverVars>>

\* The certificate is here, but s.mu has to be taken again to store its key.
CertificateFetched(t) ==
    /\ pc[t] = "cert" /\ resp[t].kind = "ok"
    /\ pc' = [pc EXCEPT ![t] = "store"]
    /\ left' = [left EXCEPT ![t] = 0]
    /\ UNCHANGED <<call, tok, resp, out, sessionVars, cacheVars, serverVars>>

StorePublicKey(t) ==
    LET s == call[t].s IN
    /\ pc[t] = "store" /\ mu[s] = NoThread
    /\ pubKeys' = [pubKeys EXCEPT ![s][call[t].x] =
                      [epoch |-> resp[t].epoch, left |-> Add(CertTTLSeconds)]]
    /\ Return(t, "ok")
    /\ UNCHANGED <<cfg, mu, token, tokenExpiry, signers, signersExpiry,
                   cacheVars, serverVars>>

CertificateFailed(t) ==
    /\ pc[t] = "cert" /\ resp[t].kind = "error"
    /\ Return(t, "err")
    /\ UNCHANGED <<sessionVars, cacheVars, serverVars>>

\* A denial for want of approval opens a request, with the token Sign already has.
OpensRequest(t) == resp[t].kind = "approval" /\ cfg[call[t].s].approval

RequestApproval(t) ==
    /\ pc[t] = "sign" /\ OpensRequest(t)
    /\ Send(t, "request")
    /\ UNCHANGED <<tok, sessionVars, cacheVars, serverVars>>

SignReturned(t) ==
    /\ pc[t] = "sign" /\ resp[t].kind # "none" /\ ~OpensRequest(t)
    /\ Return(t, IF resp[t].kind = "ok" THEN "ok" ELSE "err")
    /\ UNCHANGED <<sessionVars, cacheVars, serverVars>>

\* Whatever became of the request, the denied Sign is an error.
RequestReturned(t) ==
    /\ pc[t] = "request" /\ resp[t].kind # "none"
    /\ Return(t, "err")
    /\ UNCHANGED <<sessionVars, cacheVars, serverVars>>

-----------------------------------------------------------------------------
(* The server, as far as the client can tell (external) *)

Reply(t, r) == resp' = [resp EXCEPT ![t] = r]

\* The login endpoint.  The token's lifetime runs from this moment on.
ServeLogin(t) ==
    /\ pc[t] = "login" /\ resp[t].kind = "none"
    /\ \/ /\ cfg[call[t].s].cred = "right"
          /\ \E l \in Lifetimes :
                /\ tok' = [tok EXCEPT ![t] = [left |-> l, valid |-> TRUE]]
                /\ Reply(t, [kind |-> "ok", ttl |-> l, epoch |-> 0])
       \/ /\ cfg[call[t].s].cred = "wrong" \/ trouble
          /\ Reply(t, Refused)
          /\ UNCHANGED tok
    /\ UNCHANGED <<pc, call, left, out, sessionVars, cacheVars, serverVars>>

Accepted(tk) == tk.left > 0 /\ tk.valid

\* The endpoints that take a token.  An accepted call may be refused all the same.
Serve(t) ==
    /\ pc[t] \in {"list", "cert", "sign", "request"} /\ resp[t].kind = "none"
    /\ \/ Reply(t, Refused)
       \/ /\ Accepted(tok[t])
          /\ Reply(t, [kind |-> "ok", ttl |-> 0,
                       epoch |-> IF pc[t] \in {"list", "cert"} THEN epoch ELSE 0])
       \/ /\ Accepted(tok[t]) /\ pc[t] = "sign"
          /\ \E k \in {"approval", "pending"} : Reply(t, Plain(k))
    /\ UNCHANGED <<pc, call, tok, left, out, sessionVars, cacheVars, serverVars>>

\* The request or its answer is lost; the client sees a transport error.
Lose(t) ==
    /\ trouble
    /\ pc[t] \in InFlight /\ resp[t].kind # "error"
    /\ Reply(t, Refused)
    /\ UNCHANGED <<pc, call, tok, left, out, sessionVars, cacheVars, serverVars>>

\* The server stops honouring the tokens it has issued to an identity.
Revoke(k) ==
    LET kill(tk) == [left |-> tk.left, valid |-> FALSE] IN
    /\ trouble
    /\ token' = [s \in Sessions |-> IF AuthKey(s) = k THEN kill(token[s]) ELSE token[s]]
    /\ tok' = [t \in Threads |-> IF pc[t] # "idle" /\ AuthKey(call[t].s) = k
                                 THEN kill(tok[t]) ELSE tok[t]]
    /\ UNCHANGED <<cfg, mu, tokenExpiry, signers, signersExpiry, pubKeys, cacheVars,
                   pc, call, left, resp, out, serverVars>>

\* An administrator changes the Signers or reissues a certificate.
ChangeDirectory ==
    /\ epoch < MaxEpoch
    /\ epoch' = epoch + 1
    /\ UNCHANGED <<sessionVars, cacheVars, threadVars, trouble>>

ChangeWeather ==
    /\ trouble' = ~trouble
    /\ UNCHANGED <<sessionVars, cacheVars, threadVars, epoch>>

Down(n) == IF n > 0 THEN n - 1 ELSE 0

\* Time passes, but no request outlives the HTTP client's timeout.
Tick ==
    LET age(tk) == [left |-> Down(tk.left), valid |-> tk.valid] IN
    /\ \A t \in Threads : pc[t] \in InFlight => left[t] > 0
    /\ left' = [t \in Threads |-> Down(left[t])]
    /\ token' = [s \in Sessions |-> age(token[s])]
    /\ tok' = [t \in Threads |-> age(tok[t])]
    /\ tokenExpiry' = [s \in Sessions |-> Down(tokenExpiry[s])]
    /\ signersExpiry' = [s \in Sessions |-> Down(signersExpiry[s])]
    /\ pubKeys' = [s \in Sessions |-> [x \in SignerIDs |->
                      [epoch |-> pubKeys[s][x].epoch, left |-> Down(pubKeys[s][x].left)]]]
    /\ authFailCache' = [k \in Keys |-> Down(authFailCache[k])]
    /\ failedIn' = [k \in Keys |-> IF authFailCache[k] > 1 THEN failedIn[k] ELSE {}]
    /\ UNCHANGED <<cfg, mu, signers, pc, call, resp, out, serverVars>>

-----------------------------------------------------------------------------
(* The specification *)

Init ==
    /\ cfg \in [Sessions -> Configs]
    /\ mu = [s \in Sessions |-> NoThread]
    /\ \E l \in [Sessions -> Lifetimes] :
          token = [s \in Sessions |->
                      IF cfg[s].method = "token"
                      THEN [left |-> l[s], valid |-> cfg[s].cred = "right"]
                      ELSE NoToken]
    /\ tokenExpiry = [s \in Sessions |-> 0]
    /\ signers = [s \in Sessions |-> NoList]
    /\ signersExpiry = [s \in Sessions |-> 0]
    /\ pubKeys = [s \in Sessions |-> [x \in SignerIDs |-> [epoch |-> 0, left |-> 0]]]
    /\ authFailCache = [k \in Keys |-> 0]
    /\ failedIn = [k \in Keys |-> {}]
    /\ pc = [t \in Threads |-> "idle"]
    /\ call = [t \in Threads |-> NoCall]
    /\ tok = [t \in Threads |-> NoToken]
    /\ left = [t \in Threads |-> 0]
    /\ resp = [t \in Threads |-> NoResponse]
    /\ out = [t \in Threads |-> "none"]
    /\ epoch = 0
    /\ trouble = FALSE

\* The steps that take s.mu.
Acquire(t) ==
    \/ CacheHit(t) \/ TokenAuth(t) \/ CachedToken(t) \/ CachedFailure(t)
    \/ NoCredentials(t) \/ StartLogin(t) \/ StorePublicKey(t)

\* The steps that deal with what came back.
Resume(t) ==
    \/ LoginSucceeded(t) \/ LoginFailed(t)
    \/ SignersListed(t) \/ SignersFailed(t)
    \/ CertificateFetched(t) \/ CertificateFailed(t)
    \/ SignReturned(t) \/ RequestApproval(t) \/ RequestReturned(t)

Answer(t) == ServeLogin(t) \/ Serve(t)

Next ==
    \/ \E t \in Threads :
          \/ \E c \in Call : Begin(t, c)
          \/ Acquire(t) \/ Resume(t) \/ Answer(t) \/ Lose(t)
    \/ \E k \in Keys : Revoke(k)
    \/ ChangeDirectory
    \/ ChangeWeather
    \/ Tick

Spec == Init /\ [][Next]_vars

\* A thread in a call keeps running; Go's mutex is starvation-free, so a thread
\* that keeps finding s.mu free gets it; the HTTP timeout ends every request;
\* time passes.  Nobody has to make a call, and nothing has to go wrong.
FairSpec ==
    /\ Spec
    /\ WF_vars(Tick)
    /\ \A t \in Threads :
          SF_vars(Acquire(t)) /\ WF_vars(Resume(t)) /\ WF_vars(Answer(t))

-----------------------------------------------------------------------------
(* Properties *)

UniversalAuth(s) == cfg[s].method = "universal-auth"

\* The server grants tokens that outlive twice the safety margin.  For others
\* the floor in cacheExpiry keeps a token longer than it lives.
LongLived == \A l \in Lifetimes : l >= 2 * tokenSafetyMargin

\* A request that leaves the client now (its timeout has not begun to run).
JustSent(t) == pc[t] \in {"list", "cert", "sign"} /\ left[t] = clientTimeout

\* ensureToken never hands out a token that has expired, however long the login
\* took and however long the caller waited for s.mu (session.go:18-20, 103, 129-139).
\* The first Sign hashes the executable between hand-out and request (session.go:216);
\* that takes no time here.  On its way it may expire, although session.go:18-19 says
\* otherwise: the expiry is counted from the end of the login, which may have used up
\* the margin.
NoExpiredTokenSent ==
    \A t \in Threads : JustSent(t) /\ UniversalAuth(call[t].s) => tok[t].left > 0

\* A session whose failed login keeps a window open sends no further login in that
\* window, whatever the other sessions of the identity do (session.go:106-110).
ThrottledSessionsDoNotLogIn ==
    \A k \in Keys, t \in Threads :
        pc[t] = "login" => call[t].s \notin failedIn[k]

\* One bad credential costs one failed login per window, also when several sessions
\* of the process try at once (session.go:22-25, session_test.go:131-132).
OneFailurePerWindow == \A k \in Keys : \E s \in Sessions : failedIn[k] \subseteq {s}

\* A session's Signer list is never replaced by one read from an older directory:
\* s.mu is held from the request to the assignment (session.go:143-158).
SignerListNeverRegresses == [][\A s \in Sessions : signers'[s] >= signers[s]]_vars

\* The failure cache keeps the promise of AuthBreaker (session.go:37-59, 106-123).
Breaker == INSTANCE AuthBreaker WITH
    window <- authFailCache, failed <- failedIn, TTL <- authFailureCacheTTL

BreakerSpec == Breaker!Spec

\* Every call returns: no mutex is left locked and no request waits for ever, so that a
\* thread is again and again outside of the session (session.go:142-227).
EveryCallReturns == \A t \in Threads : []<>(pc[t] = "idle")

\* Nobody else uses the identity of s with other credentials.
WellConfigured(s) ==
    /\ UniversalAuth(s)
    /\ \A s2 \in Sessions : AuthKey(s2) = AuthKey(s) =>
          ~NoCredentialsConfigured(s2) /\ cfg[s2].cred = "right"

\* Once the server is well again, cached failures die out although the callers
\* keep retrying (session.go:22-25, 108-110).
AuthErrorsStop ==
    <>[]~trouble =>
        <>[][\A t \in Threads : pc[t] # "idle" /\ WellConfigured(call[t].s) =>
                ~(out[t] # "authErr" /\ out'[t] = "authErr")]_vars

\* A revoked token is dropped: it stays cached only until its expiry, and the
\* requests that carry it come to an end (session.go:103, 121-122).
RevokedTokensDropped ==
    <>[]~trouble =>
        <>[](\A t \in Threads :
                pc[t] \in {"list", "cert", "sign"} /\ UniversalAuth(call[t].s) => tok[t].valid)

\* After the last change of the directory every answer out of a cache is, in the
\* end, the current one, late fills included (session.go:146, 179, 198-203).
CachesConverge ==
    <>[][\A t \in Threads : CacheHit(t) =>
            \/ call[t].op = "FindSigner" /\ signers[call[t].s] = epoch
            \/ call[t].op = "PublicKey" /\ pubKeys[call[t].s][call[t].x].epoch = epoch]_vars

-----------------------------------------------------------------------------
(* The parts of the inductive invariant that SessionProofs establishes *)

\* A thread that logs in or lists Signers holds the mutex of its session.
LockInv == \A t \in Threads : pc[t] \in {"login", "list"} => mu[call[t].s] = t

\* An entry of the failure cache is alive as long as a session failed in it, is
\* filed under that session's identity, and keeps that session from logging in.
ThrottleInv ==
    \A k \in Keys : \A s \in failedIn[k] :
        /\ k = AuthKey(s)
        /\ authFailCache[k] > 0
        /\ \A t \in Threads : pc[t] = "login" => call[t].s # s

\* A list on its way to the session that waits for it is as new as the one it
\* replaces, and neither is newer than the directory.
ListInv ==
    /\ \A s \in Sessions : signers[s] <= epoch
    /\ \A t \in Threads : pc[t] = "list" /\ resp[t].kind = "ok" =>
          signers[call[t].s] <= resp[t].epoch /\ resp[t].epoch <= epoch

\* A token outlives its stay in the session.  One that is still on its way has
\* lost no more of its lifetime than the login request has been under way.
TokenInv ==
    /\ \A t \in Threads : left[t] <= clientTimeout
    /\ \A t \in Threads : pc[t] = "login" /\ resp[t].kind = "ok" =>
          /\ resp[t].ttl \in Lifetimes
          /\ tok[t].left + clientTimeout >= resp[t].ttl + left[t]
    /\ \A s \in Sessions : tokenExpiry[s] > 0 => token[s].left >= tokenExpiry[s]

=============================================================================
