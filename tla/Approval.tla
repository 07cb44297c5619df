------------------------------ MODULE Approval ------------------------------
(***************************************************************************)
(* Signing under an approval policy, from the host's call of ksp_SignHash  *)
(* to the status and the log line it gets: bridge_windows.c, session.go,   *)
(* client.go, errors.go, provider_windows.go, signing_context.go.          *)
(*                                                                         *)
(* A thread stands for a thread of some host process; the processes use    *)
(* one machine identity, each with its own configuration and its own       *)
(* signing context.  How the session comes by a token is the subject of    *)
(* Session.tla; here a token that cannot be had is a refused Sign request. *)
(*                                                                         *)
(* The server is external.  It signs when a grant covers the situation of  *)
(* the call, counts the signing, and otherwise answers 403 and says        *)
(* whether a request that covers the situation awaits review; an approval  *)
(* request that equals a pending one resumes it (README.md:235-277).       *)
(*                                                                         *)
(* Not modelled: approvals granted by hand, and the justification text.    *)
(***************************************************************************)
EXTENDS Integers

CONSTANTS
    Threads,     \* threads of the host processes
    Digests,     \* the digests the hosts ask to sign
    Addresses,   \* the addresses the server may see a call arrive from
    Contexts,    \* the signing contexts of the processes
    Configs,     \* the approval blocks of their configurations
    Setups,      \* which thread runs in a process with which of these
    RefusalCodes,  \* the status codes of refusals
    Empty,       \* the empty string: a value not observed, not configured, not sent
    scopeSkipped,  \* JSON null as the address of a scope: not restricted
    Unrestricted,  \* what the server makes of a scope field that names no value
    NoBasis,       \* "the server has not signed"
    NotDenied      \* "the server has not asked for an approval"

ContextFields ==
    {"command", "signing_application", "signing_application_hash", "hostname", "os_username"}

ScopeFieldNames == ContextFields \cup {"ip_address", "data_hash"}

\* SHA-256, as far as it matters: different inputs, different sums.
Sum256(d) == <<"sha256", d>>

ApprovalConfig == [signingCount : Nat, signingDuration : BOOLEAN,
                   excludeScopeFields : SUBSET ScopeFieldNames,
                   ipAddress : Addresses \cup {Empty}]

\* A process, the digests it signs, the address the server sees it under, and others
\* it may be seen under while there is trouble.
Process == [ctx : Contexts, cfg : Configs, work : (SUBSET Digests) \ {{}},
            home : Addresses, via : SUBSET Addresses]

ASSUME SetupAssumption ==
    /\ RefusalCodes \subseteq 400 .. 599
    /\ Configs \subseteq ApprovalConfig
    /\ Setups \subseteq [Threads -> Process]
    /\ \A c \in Contexts : DOMAIN c = ContextFields

VARIABLES
    proc,      \* the process a thread runs in
    \* the call a thread is in, or its last one
    pc,        \* where it is
    digest,    \* the digest to sign
    addr,      \* the address its request in flight arrives from, else its usual one
    resp,      \* what has come back for that request
    out,       \* the status the host got, and what the log says
    did,       \* history: what the server has done in this call
    denied,    \* history: the situation in which it asked for an approval
    basis,     \* history: the grant under which its signature was made
    \* server
    pending,   \* requests that await review
    grants,    \* approved requests with signings left
    trouble    \* answers may be lost or refused, addresses and decisions vary

callVars == <<pc, digest, addr, resp, out, did, denied, basis>>
serverVars == <<pending, grants>>
vars == <<proc, callVars, serverVars, trouble>>

-----------------------------------------------------------------------------
(* Situations and scopes *)

\* SigningContext.ClientMetadata, the digest and the address: what the server
\* learns of a call.  The data hash is the server's own.
Situation(ctx, d, a) ==
    [f \in ScopeFieldNames |-> IF f = "ip_address" THEN a
                               ELSE IF f = "data_hash" THEN Sum256(d)
                               ELSE ctx[f]]

Situations == {Situation(c, d, a) : c \in Contexts, d \in Digests, a \in Addresses}

SituationOf(t) == Situation(proc[t].ctx, digest[t], addr[t])

\* Mutants of RequestScope: the payload is not pinned; an excluded address is
\* left out of the request like any other excluded field.
RequestScopeAnyPayload(ctx, dataHash, excluded, pinnedIPAddress) ==
    [f \in ScopeFieldNames |->
        IF f \in excluded THEN IF f = "ip_address" THEN scopeSkipped ELSE Empty
        ELSE IF f = "ip_address" THEN pinnedIPAddress
        ELSE IF f = "data_hash" THEN Empty
        ELSE ctx[f]]

RequestScopeAddressOmitted(ctx, dataHash, excluded, pinnedIPAddress) ==
    [f \in ScopeFieldNames |->
        IF f \in excluded THEN Empty
        ELSE IF f = "ip_address" THEN pinnedIPAddress
        ELSE IF f = "data_hash" THEN dataHash
        ELSE ctx[f]]

\* SigningContext.RequestScope: the scope as the provider sends it.
RequestScope(ctx, dataHash, excluded, pinnedIPAddress) ==
    [f \in ScopeFieldNames |->
        IF f \in excluded THEN IF f = "ip_address" THEN scopeSkipped ELSE Empty
        ELSE IF f = "ip_address" THEN pinnedIPAddress
        ELSE IF f = "data_hash" THEN dataHash
        ELSE ctx[f]]

\* The scope as the server records it: an address that is not sent is the one the
\* request arrives from, anything else that is not sent is unrestricted.
Recorded(scope, a) ==
    [f \in ScopeFieldNames |->
        IF scope[f] = Empty THEN IF f = "ip_address" THEN a ELSE Unrestricted
        ELSE IF scope[f] = scopeSkipped THEN Unrestricted
        ELSE scope[f]]

Covers(scope, sit) == \A f \in ScopeFieldNames : scope[f] \in {Unrestricted, sit[f]}

\* An approval request: what it asks for and, as history, the situation of the call
\* whose denial it follows, the configuration behind it and where it came from.
ScopeValues == {Unrestricted} \cup Digests \cup UNION {{s[f] : f \in ScopeFieldNames} : s \in Situations}
Ask == [scope : [ScopeFieldNames -> ScopeValues], count : Nat, window : BOOLEAN,
        denied : Situations, cfg : Configs, from : Addresses]

ASSUME SentinelAssumption ==
    /\ NoBasis \notin Ask /\ NotDenied \notin Situations
    /\ scopeSkipped # Empty
    /\ {Empty, scopeSkipped, Unrestricted} \cap Addresses = {}
    /\ \A c \in Contexts, f \in ContextFields : c[f] \notin {scopeSkipped, Unrestricted}
    /\ \A d \in Digests : Sum256(d) \notin {Empty, scopeSkipped, Unrestricted}

Same(a, b) == a.scope = b.scope /\ a.count = b.count /\ a.window = b.window

Grant == [ask : Ask, left : Nat \ {0}]

-----------------------------------------------------------------------------
(* Answers, errors, and what the host and the log make of them *)

\* status 0: nothing has come back yet; 1: nothing will, a transport failure.
StatusCodes == {0, 1, 200, 403} \cup RefusalCodes
Response == [status : StatusCodes, error : {"", "ApprovalRequired"}, hasPending : BOOLEAN]
Plain(status) == [status |-> status, error |-> "", hasPending |-> FALSE]
Waiting == Plain(0)
Denial(p) == [status |-> 403, error |-> "ApprovalRequired", hasPending |-> p]

\* An error as errors.As unwraps it: an approval outcome or none, around the
\* APIError (with its status code) or the RequestError of a request, or neither.
Outcomes == {"opened", "pending", "notConfigured", "failed"}
Error == [outer : Outcomes \cup {"none"}, inner : {"api", "request", "other"}, status : StatusCodes]
Types(e) == {e.outer, e.inner}

\* RequestError, or newAPIError.
ErrorOf(r) == [outer |-> "none", inner |-> IF r.status = 1 THEN "request" ELSE "api",
               status |-> r.status]

\* newAPIError and APIError.IsApprovalRequired.
IsApprovalRequired(r) == r.status = 403 /\ r.error = "ApprovalRequired"

\* The server's signature is no base64, or no DER.
BadSignature == [outer |-> "none", inner |-> "other", status |-> 200]

Denied(outcome) == [outer |-> outcome, inner |-> "api", status |-> 403]

IsApprovalOutcome(e) == e.outer \in Outcomes

\* Mutant of statusFromError: an HTTP status, not an NTE_* code, reaches the host.
statusFromErrorRaw(e) == IF e.inner # "api" THEN "FAIL" ELSE "HTTP_STATUS"

statusFromError(e) ==
    IF e.inner # "api" THEN "FAIL"
    ELSE IF e.status \in {401, 403} THEN "PERM"
    ELSE IF e.status = 404 THEN "BAD_KEYSET"
    ELSE IF e.status = 400 THEN "INVALID_PARAMETER"
    ELSE "FAIL"

\* The hints of adviceForError by the type they are for, in the order in which
\* they are looked for; what they say of an APIError depends on its status code.
AdviceFor(type, status) ==
    IF type = "api"
    THEN IF status = 401 THEN "authentication" ELSE IF status = 403 THEN "denied"
         ELSE IF status = 404 THEN "notFound" ELSE IF status = 400 THEN "rejected"
         ELSE IF status >= 500 THEN "retryShortly" ELSE "none"
    ELSE IF type = "request" THEN "unreachable" ELSE type

\* Mutant of adviceOrder: the type that every denial wraps comes first.
adviceOrderAPIFirst == <<"api", "opened", "pending", "notConfigured", "failed", "request">>

adviceOrder == <<"opened", "pending", "notConfigured", "failed", "api", "request">>

adviceForError(e) ==
    LET matching == {i \in DOMAIN adviceOrder : adviceOrder[i] \in Types(e)}
        first == CHOOSE i \in matching : \A j \in matching : i <= j
    IN  IF matching = {} THEN "none" ELSE AdviceFor(adviceOrder[first], e.status)

\* logError: the ERROR line is the advice itself for an approval outcome, else the
\* error with the advice as a HINT.
logError(e) == [error |-> IF IsApprovalOutcome(e) THEN "advice" ELSE "err",
                advice |-> adviceForError(e)]

Hints == Outcomes \cup {"authentication", "denied", "notFound", "rejected", "retryShortly",
                        "unreachable"}
Result == [status : {"none", "SUCCESS", "PERM", "BAD_KEYSET", "INVALID_PARAMETER", "FAIL",
                     "BUFFER_TOO_SMALL"},
           log : [error : {"none", "advice", "err"}, advice : Hints \cup {"none"}]]
Quiet(status) == [status |-> status, log |-> [error |-> "none", advice |-> "none"]]

\* One type for every variable.
TypeOK ==
    /\ proc \in Setups
    /\ pc \in [Threads -> {"idle", "sign", "request"}]
    /\ digest \in [Threads -> Digests]
    /\ addr \in [Threads -> Addresses]
    /\ resp \in [Threads -> Response]
    /\ out \in [Threads -> Result]
    /\ did \in [Threads -> {"nothing", "signed", "denied", "waiting", "opened"}]
    /\ denied \in [Threads -> Situations \cup {NotDenied}]
    /\ basis \in [Threads -> Ask \cup {NoBasis}]
    /\ pending \subseteq Ask
    /\ grants \subseteq Grant
    /\ trouble \in BOOLEAN

-----------------------------------------------------------------------------
(* The provider *)

\* A request leaves; the address it arrives from is the usual one if all is well.
Send(t, stage) ==
    /\ \E a \in {proc[t].home} \cup IF trouble THEN proc[t].via ELSE {} :
          addr' = [addr EXCEPT ![t] = a]
    /\ pc' = [pc EXCEPT ![t] = stage]
    /\ resp' = [resp EXCEPT ![t] = Waiting]

\* The call returns.
Return(t, result) ==
    /\ pc' = [pc EXCEPT ![t] = "idle"]
    /\ out' = [out EXCEPT ![t] = result]
    /\ resp' = [resp EXCEPT ![t] = Waiting]
    /\ addr' = [addr EXCEPT ![t] = proc[t].home]
    /\ denied' = [denied EXCEPT ![t] = NotDenied]
    /\ basis' = [basis EXCEPT ![t] = NoBasis]
    /\ UNCHANGED <<proc, digest, did, serverVars, trouble>>

Fail(t, e) == Return(t, [status |-> statusFromError(e), log |-> logError(e)])

Answered(t, stage) == pc[t] = stage /\ resp[t].status # 0

\* ksp_SignHash with a buffer, up to the Sign request.
SignHash(t, d) ==
    /\ pc[t] = "idle"
    /\ digest' = [digest EXCEPT ![t] = d]
    /\ out' = [out EXCEPT ![t] = Quiet("none")]
    /\ did' = [did EXCEPT ![t] = "nothing"]
    /\ Send(t, "sign")
    /\ UNCHANGED <<proc, denied, basis, serverVars, trouble>>

\* The signature arrives, is decoded, and copyOut finds out whether it fits into the
\* host's buffer.  Hosts that have made the sizing call pass one that does; others, in
\* trouble, need not.
SignReturned(t) ==
    /\ Answered(t, "sign")
    /\ resp[t].status = 200
    /\ \/ Return(t, Quiet("SUCCESS"))
       \/ trouble /\ Return(t, Quiet("BUFFER_TOO_SMALL"))
       \/ trouble /\ Fail(t, BadSignature)

\* An error that is no approval denial is passed on.
SignFailed(t) ==
    /\ Answered(t, "sign")
    /\ resp[t].status # 200
    /\ ~IsApprovalRequired(resp[t])
    /\ Fail(t, ErrorOf(resp[t]))

DeniedNow(t) == Answered(t, "sign") /\ IsApprovalRequired(resp[t])

RequestPending(t) ==
    /\ DeniedNow(t)
    /\ resp[t].hasPending
    /\ Fail(t, Denied("pending"))

Configured(cfg) == cfg.signingCount > 0 \/ cfg.signingDuration

NotConfigured(t) ==
    /\ DeniedNow(t)
    /\ ~resp[t].hasPending
    /\ ~Configured(proc[t].cfg)
    /\ Fail(t, Denied("notConfigured"))

\* The approval request leaves, with the token of the Sign request.
RequestApproval(t) ==
    /\ DeniedNow(t)
    /\ ~resp[t].hasPending
    /\ Configured(proc[t].cfg)
    /\ Send(t, "request")
    /\ UNCHANGED <<proc, digest, out, did, denied, basis, serverVars, trouble>>

RequestOpened(t) ==
    /\ Answered(t, "request")
    /\ resp[t].status = 200
    /\ Fail(t, Denied("opened"))

RequestFailed(t) ==
    /\ Answered(t, "request")
    /\ resp[t].status # 200
    /\ Fail(t, Denied("failed"))

-----------------------------------------------------------------------------
(* The server *)

Answer(t, r) ==
    /\ resp' = [resp EXCEPT ![t] = r]
    /\ UNCHANGED <<proc, pc, digest, addr, out, trouble>>

Asked(t, stage) == pc[t] = stage /\ resp[t].status = 0

\* A grant without a count is good for as long as its window.
Used(g) == IF g.ask.count = 0 THEN {g}
           ELSE IF g.left = 1 THEN {} ELSE {[ask |-> g.ask, left |-> g.left - 1]}

ServerSigns(t) ==
    /\ Asked(t, "sign")
    /\ \E g \in grants :
          /\ Covers(g.ask.scope, SituationOf(t))
          /\ grants' = (grants \ {g}) \cup Used(g)
          /\ basis' = [basis EXCEPT ![t] = g.ask]
    /\ did' = [did EXCEPT ![t] = "signed"]
    /\ Answer(t, Plain(200))
    /\ UNCHANGED <<denied, pending>>

ServerDenies(t) ==
    LET awaits == \E p \in pending : Covers(p.scope, SituationOf(t)) IN
    /\ Asked(t, "sign")
    /\ \A g \in grants : ~Covers(g.ask.scope, SituationOf(t))
    /\ did' = [did EXCEPT ![t] = IF awaits THEN "waiting" ELSE "denied"]
    /\ denied' = [denied EXCEPT ![t] = SituationOf(t)]
    /\ Answer(t, Denial(awaits))
    /\ UNCHANGED <<basis, serverVars>>

\* Mutant of AskOf: the request names the digest instead of its SHA-256 sum.
AskOfDigest(t) ==
    LET p == proc[t] IN
    [scope  |-> Recorded(RequestScope(p.ctx, digest[t], p.cfg.excludeScopeFields,
                                      p.cfg.ipAddress), addr[t]),
     count  |-> p.cfg.signingCount,
     window |-> p.cfg.signingDuration,
     denied |-> denied[t], cfg |-> p.cfg, from |-> addr[t]]

\* What requestApproval and Client.RequestApproval send, as the server records it.
AskOf(t) ==
    LET p == proc[t] IN
    [scope  |-> Recorded(RequestScope(p.ctx, Sum256(digest[t]), p.cfg.excludeScopeFields,
                                      p.cfg.ipAddress), addr[t]),
     count  |-> p.cfg.signingCount,
     window |-> p.cfg.signingDuration,
     denied |-> denied[t], cfg |-> p.cfg, from |-> addr[t]]

\* A request that equals a pending one resumes it.
ServerOpens(t) ==
    /\ Asked(t, "request")
    /\ pending' = IF \E p \in pending : Same(p, AskOf(t)) THEN pending
                  ELSE pending \cup {AskOf(t)}
    /\ did' = [did EXCEPT ![t] = "opened"]
    /\ Answer(t, Plain(200))
    /\ UNCHANGED <<denied, basis, grants>>

\* The server or something in between refuses: an expired token (401), a missing
\* role or an unreadable body (403 without the code), an error.
ServerRefuses(t) ==
    /\ trouble
    /\ pc[t] # "idle" /\ resp[t].status = 0
    /\ \E status \in RefusalCodes : Answer(t, Plain(status))
    /\ UNCHANGED <<did, denied, basis, serverVars>>

\* A request or its answer is lost, and the HTTP client gives up.
Lose(t) ==
    /\ trouble
    /\ pc[t] # "idle" /\ resp[t].status # 1
    /\ Answer(t, Plain(1))
    /\ UNCHANGED <<did, denied, basis, serverVars>>

\* An approver decides.  A newer grant of the same ask takes the older one's place.
Approve(p) ==
    /\ pending' = pending \ {p}
    /\ grants' = {g \in grants : ~Same(g.ask, p)}
                     \cup {[ask |-> p, left |-> IF p.count = 0 THEN 1 ELSE p.count]}
    /\ UNCHANGED <<proc, callVars, trouble>>

Reject(p) ==
    /\ trouble
    /\ pending' = pending \ {p}
    /\ UNCHANGED <<proc, callVars, grants, trouble>>

\* The window of a grant ends, or the grant is withdrawn.
GrantEnds(g) ==
    /\ trouble
    /\ grants' = grants \ {g}
    /\ UNCHANGED <<proc, callVars, pending, trouble>>

ChangeWeather ==
    /\ trouble' = ~trouble
    /\ UNCHANGED <<proc, callVars, serverVars>>

-----------------------------------------------------------------------------
(* The specification *)

Init ==
    /\ proc \in Setups
    /\ pc = [t \in Threads |-> "idle"]
    /\ digest = [t \in Threads |-> CHOOSE d \in proc[t].work : TRUE]
    /\ addr = [t \in Threads |-> proc[t].home]
    /\ resp = [t \in Threads |-> Waiting]
    /\ out = [t \in Threads |-> Quiet("none")]
    /\ did = [t \in Threads |-> "nothing"]
    /\ denied = [t \in Threads |-> NotDenied]
    /\ basis = [t \in Threads |-> NoBasis]
    /\ pending = {}
    /\ grants = {}
    /\ trouble = FALSE

Provider(t) ==
    \/ SignReturned(t) \/ SignFailed(t)
    \/ RequestPending(t) \/ NotConfigured(t) \/ RequestApproval(t)
    \/ RequestOpened(t) \/ RequestFailed(t)

Server(t) == ServerSigns(t) \/ ServerDenies(t) \/ ServerOpens(t)

Next ==
    \/ \E t \in Threads :
          \/ \E d \in proc[t].work : SignHash(t, d)
          \/ Provider(t) \/ Server(t) \/ ServerRefuses(t) \/ Lose(t)
    \/ \E p \in pending : Approve(p) \/ Reject(p)
    \/ \E g \in grants : GrantEnds(g)
    \/ ChangeWeather

Spec == Init /\ [][Next]_vars

\* Threads keep running and the server answers.  Nobody has to call, to approve, or
\* to cause trouble.
FairSpec == Spec /\ \A t \in Threads : WF_vars(Provider(t)) /\ WF_vars(Server(t))

-----------------------------------------------------------------------------
(* Properties *)

\* The fields in which the configuration of a request restricts it, and the address
\* it is restricted to: the pinned one, else the one the server sees it come from.
Bound(a) == ScopeFieldNames \ a.cfg.excludeScopeFields
AddressOf(a) == IF a.cfg.ipAddress # Empty THEN a.cfg.ipAddress ELSE a.from

\* A signature is made only in a situation that agrees with the one in which the Sign
\* behind its grant was denied, in every field that the configuration does not exclude
\* and that was observed.  The address is the pinned one or, since the server fills it
\* in, the one the approval request came from: not necessarily that of the denied Sign.
\* A field that was not observed is left out, and the approval covers any value of it,
\* although README.md:269 says that a changed checksum needs a new request
\* (session.go:249-250, 266, signing_context.go:220-268).
OnlyDeniedCasesSigned ==
    \A t \in Threads : basis[t] # NoBasis =>
        LET a == basis[t] IN
        \A f \in Bound(a) :
            IF f = "ip_address" THEN SituationOf(t)[f] = AddressOf(a)
            ELSE a.denied[f] \in {Empty, SituationOf(t)[f]}

\* What a request means: how often or how long it asks to sign, and what.
Meaning(a) ==
    <<a.count, a.window,
      [f \in Bound(a) |-> IF f = "ip_address" THEN AddressOf(a) ELSE a.denied[f]]>>

\* However often a denied signing is retried, by however many threads and after lost
\* answers, no two requests that mean the same await review.  This rests on how the
\* server compares the requests of a machine identity (README.md:275); of a user
\* token's it compares more, and they do pile up (README.md:277).  session.go:240, 250.
NoDuplicateRequests ==
    \A p, q \in pending : p # q => Meaning(p) # Meaning(q)

\* The host's status and the log agree with what the server did in the call: a request
\* the log says is open or under review is, one that was opened is never left
\* unmentioned, access denied always comes with advice, success is a signature in the
\* host's buffer, and a signing that the server counted is never reported as one that
\* lacks approval (session.go:223-255, errors.go:73-80, logging_windows.go:41-53,
\* provider_windows.go:146-147, 202-268, bridge_windows.c:83-87).
LogTellsWhatHappened ==
    \A t \in Threads : pc[t] = "idle" /\ out[t].status # "none" =>
        LET r == out[t]
            hint == r.log.advice
        IN  /\ hint = "opened" => did[t] = "opened"
            /\ did[t] = "opened" => hint \in {"opened", "failed"}
            /\ hint = "pending" => did[t] = "waiting"
            /\ hint \in Outcomes => r.status = "PERM" /\ r.log.error = "advice"
            /\ r.status = "PERM" => hint # "none"
            /\ r.status = "SUCCESS" => did[t] = "signed"
            /\ did[t] = "signed" => r.status \in {"SUCCESS", "BUFFER_TOO_SMALL", "FAIL"}

\* A configuration whose requests this process can use: it asks for something, and
\* not for another machine's address.
Usable(t) ==
    LET c == proc[t].cfg IN
    /\ Configured(c)
    /\ "ip_address" \in c.excludeScopeFields \/ c.ipAddress \in {Empty, proc[t].home}

\* The fields in which every process binds its requests.
CommonFields ==
    {f \in ScopeFieldNames : \A t \in Threads :
        f \notin proc[t].cfg.excludeScopeFields /\ SituationOf(t)[f] # Empty}

\* Once nothing goes wrong any more and approvers keep deciding, whoever keeps
\* retrying a denied command gets it, or somebody else in the same case as far as every
\* process binds its requests, signed again and again: wasted signatures, lost answers,
\* expired grants, rejected requests and requests recorded for another address do not
\* block it for good (session.go:216-276, README.md:239).
RetriesSucceed ==
    <>[]~trouble /\ []<>(pending = {}) =>
        \A t \in Threads, d \in Digests :
            []<>(pc[t] = "sign" /\ digest[t] = d /\ Usable(t)) =>
                []<>(\E u \in Threads :
                        /\ Answered(u, "sign") /\ resp[u].status = 200
                        /\ \A f \in CommonFields :
                              SituationOf(u)[f] = Situation(proc[t].ctx, d, proc[t].home)[f])

-----------------------------------------------------------------------------
(* The parts of the inductive invariant that ApprovalProofs establishes *)

\* An ask restricts what its configuration binds, to the values of the denied call and
\* to the address, and nothing else.
Meant(a) ==
    a.scope = [f \in ScopeFieldNames |->
                  IF f \notin Bound(a) THEN Unrestricted
                  ELSE IF f = "ip_address" THEN AddressOf(a)
                  ELSE IF a.denied[f] = Empty THEN Unrestricted ELSE a.denied[f]]

AskInv ==
    /\ \A p \in pending : Meant(p)
    /\ \A g \in grants : Meant(g.ask)
    /\ \A p, q \in pending : Same(p, q) => p = q

\* A signature on its way was made under a grant that covers the call as it is now.
BasisInv ==
    \A t \in Threads : basis[t] # NoBasis =>
        /\ pc[t] = "sign" /\ resp[t].status \in {1, 200}
        /\ Meant(basis[t]) /\ Covers(basis[t].scope, SituationOf(t))

\* What the server has done so far, by the answer that is there.
CallInv ==
    \A t \in Threads :
        /\ pc[t] = "sign" =>
              /\ did[t] # "opened"
              /\ resp[t].status = 200 => did[t] = "signed"
              /\ did[t] = "signed" => resp[t].status \in {1, 200}
              /\ IsApprovalRequired(resp[t]) =>
                    did[t] = IF resp[t].hasPending THEN "waiting" ELSE "denied"
        /\ pc[t] = "request" =>
              /\ did[t] \in {"denied", "opened"}
              /\ resp[t].status = 200 => did[t] = "opened"

\* The situation that was denied is that of the call, up to the address.
DeniedInv ==
    \A t \in Threads :
        /\ DeniedNow(t) \/ pc[t] = "request" => denied[t] # NotDenied
        /\ denied[t] # NotDenied =>
              \A f \in ScopeFieldNames \ {"ip_address"} : denied[t][f] = SituationOf(t)[f]
        /\ pc[t] = "idle" => denied[t] = NotDenied

=============================================================================
