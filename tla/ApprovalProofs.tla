--------------------------- MODULE ApprovalProofs ---------------------------
(***************************************************************************)
(* What Approval.tla guarantees for any number of processes, digests,      *)
(* addresses and configurations.                                           *)
(*                                                                         *)
(* The argument for OnlyDeniedCasesSigned and NoDuplicateRequests is that  *)
(* a call stays what it was when it was denied, up to its address          *)
(* (DeniedInv), and that the provider's scope and the server's reading of  *)
(* it lose nothing that was observed (AskOfMeant), so that a request       *)
(* covers just what was denied wherever it goes: into review, into a       *)
(* grant, into the basis of a signature.  For LogTellsWhatHappened it is   *)
(* that the answer at hand tells what the server did (CallInv), and that   *)
(* the error chain built from it leads to the right status and advice      *)
(* (OutcomeReported, PlainReported).                                       *)
(***************************************************************************)
EXTENDS Approval, TLAPS

-----------------------------------------------------------------------------
(* Situations, scopes and asks *)

LEMMA Fields ==
    /\ "ip_address" \in ScopeFieldNames /\ "data_hash" \in ScopeFieldNames
    /\ "ip_address" \notin ContextFields /\ "data_hash" \notin ContextFields
    /\ ScopeFieldNames = ContextFields \cup {"ip_address", "data_hash"}
BY DEF ScopeFieldNames, ContextFields

LEMMA SituationIs ==
    ASSUME NEW c \in Contexts, NEW d \in Digests, NEW a \in Addresses
    PROVE  LET sit == Situation(c, d, a) IN
           /\ sit \in Situations
           /\ DOMAIN sit = ScopeFieldNames
           /\ sit["ip_address"] = a /\ a \notin {Empty, scopeSkipped, Unrestricted}
           /\ sit["data_hash"] = Sum256(d)
           /\ Sum256(d) \notin {Empty, scopeSkipped, Unrestricted}
           /\ \A f \in ContextFields :
                 sit[f] = c[f] /\ c[f] \notin {scopeSkipped, Unrestricted}
<1>1. Situation(c, d, a) \in Situations  BY DEF Situations
<1>2. a \notin {Empty, scopeSkipped, Unrestricted}  BY SentinelAssumption
<1>3. Sum256(d) \notin {Empty, scopeSkipped, Unrestricted}  BY SentinelAssumption
<1>4. \A f \in ContextFields : c[f] \notin {scopeSkipped, Unrestricted}  BY SentinelAssumption
<1>. QED  BY <1>1, <1>2, <1>3, <1>4, Fields DEF Situation

LEMMA ScopeValue ==
    ASSUME NEW c \in Contexts, NEW d \in Digests, NEW a \in Addresses, NEW f \in ScopeFieldNames
    PROVE  Situation(c, d, a)[f] \in ScopeValues
<1>1. Situation(c, d, a) \in Situations  BY DEF Situations
<1>. QED  BY <1>1 DEF ScopeValues

\* The provider's scope, as the server reads it, restricts exactly what is not
\* excluded and observed.
LEMMA ScopeMeant ==
    ASSUME NEW c \in Contexts, NEW d \in Digests, NEW a \in Addresses, NEW k \in ApprovalConfig
    PROVE  LET scope == Recorded(RequestScope(c, Sum256(d), k.excludeScopeFields, k.ipAddress), a)
               sit == Situation(c, d, a)
           IN  /\ scope = [f \in ScopeFieldNames |->
                              IF f \in k.excludeScopeFields THEN Unrestricted
                              ELSE IF f = "ip_address"
                                   THEN IF k.ipAddress # Empty THEN k.ipAddress ELSE a
                              ELSE IF sit[f] = Empty THEN Unrestricted ELSE sit[f]]
               /\ scope \in [ScopeFieldNames -> ScopeValues]
<1> DEFINE sit == Situation(c, d, a)
           ex == k.excludeScopeFields
           pin == k.ipAddress
           sent == RequestScope(c, Sum256(d), ex, pin)
           scope == Recorded(sent, a)
           Value(f) == IF f \in ex THEN Unrestricted
                       ELSE IF f = "ip_address" THEN IF pin # Empty THEN pin ELSE a
                       ELSE IF sit[f] = Empty THEN Unrestricted ELSE sit[f]
<1>1. pin = Empty \/ (pin \in Addresses /\ pin \notin {Empty, scopeSkipped, Unrestricted})
  BY SentinelAssumption DEF ApprovalConfig
<1>2. scopeSkipped # Empty  BY SentinelAssumption
<1>4. \A f \in ScopeFieldNames :
        sent[f] = IF f \in ex THEN IF f = "ip_address" THEN scopeSkipped ELSE Empty
                  ELSE IF f = "ip_address" THEN pin
                  ELSE IF f = "data_hash" THEN Sum256(d)
                  ELSE c[f]
  BY DEF RequestScope
<1>5. \A f \in ScopeFieldNames :
        scope[f] = IF sent[f] = Empty THEN IF f = "ip_address" THEN a ELSE Unrestricted
                   ELSE IF sent[f] = scopeSkipped THEN Unrestricted
                   ELSE sent[f]
  BY DEF Recorded
<1>6. /\ sit["ip_address"] = a /\ a \notin {Empty, scopeSkipped, Unrestricted}
      /\ sit["data_hash"] = Sum256(d)
      /\ Sum256(d) \notin {Empty, scopeSkipped, Unrestricted}
      /\ \A f \in ContextFields :
            sit[f] = c[f] /\ c[f] \notin {scopeSkipped, Unrestricted}
  BY SituationIs
<1>8. scope = [f \in ScopeFieldNames |-> scope[f]]  BY DEF Recorded
<1>. HIDE DEF sit, ex, pin, sent, scope
<1>9. ASSUME NEW f \in ScopeFieldNames PROVE scope[f] = Value(f)
  <2>1. CASE f = "ip_address"
    BY <1>1, <1>2, <1>4, <1>5, <1>6, <2>1
  <2>2. CASE f = "data_hash"
    BY <1>2, <1>4, <1>5, <1>6, <2>2
  <2>3. CASE f \in ContextFields
    BY <1>2, <1>4, <1>5, <1>6, <2>3, Fields
  <2>. QED  BY <2>1, <2>2, <2>3, Fields
<1>10. ASSUME NEW f \in ScopeFieldNames PROVE Value(f) \in ScopeValues
  <2>1. Unrestricted \in ScopeValues  BY DEF ScopeValues
  <2>2. sit[f] \in ScopeValues  BY ScopeValue DEF sit
  <2>3. CASE f = "ip_address" /\ pin # Empty
    <3>1. Situation(c, d, pin)["ip_address"] = pin /\ pin \in Addresses
      BY <1>1, <2>3, SituationIs
    <3>2. pin \in ScopeValues  BY <2>3, <3>1, ScopeValue
    <3>. QED  BY <2>1, <2>3, <3>2
  <2>4. CASE f = "ip_address" /\ pin = Empty  BY <1>6, <2>1, <2>2, <2>4
  <2>5. CASE f # "ip_address"  BY <2>1, <2>2, <2>5
  <2>. QED  BY <2>3, <2>4, <2>5
<1>11. scope = [f \in ScopeFieldNames |-> Value(f)]
  <2>. HIDE DEF Value
  <2>. QED  BY <1>8, <1>9
<1>12. scope \in [ScopeFieldNames -> ScopeValues]
  <2>. HIDE DEF Value
  <2>. QED  BY <1>10, <1>11
<1>. QED  BY <1>11, <1>12 DEF sit, ex, pin, sent, scope

LEMMA ProcessIs ==
    ASSUME TypeOK, NEW t \in Threads
    PROVE  /\ proc[t].ctx \in Contexts /\ proc[t].cfg \in ApprovalConfig
           /\ proc[t].cfg \in Configs
           /\ proc[t].work \subseteq Digests /\ proc[t].work # {}
           /\ proc[t].home \in Addresses /\ proc[t].via \subseteq Addresses
<1>1. proc[t] \in Process  BY SetupAssumption DEF TypeOK
<1>2. proc[t].cfg \in Configs  BY <1>1 DEF Process
<1>3. proc[t].cfg \in ApprovalConfig  BY <1>2, SetupAssumption
<1>4. proc[t].work \in (SUBSET Digests) \ {{}}  BY <1>1 DEF Process
<1>. QED  BY <1>1, <1>2, <1>3, <1>4 DEF Process

LEMMA AskOfMeant ==
    ASSUME TypeOK, DeniedInv, NEW t \in Threads, pc[t] = "request"
    PROVE  AskOf(t) \in Ask /\ Meant(AskOf(t))
<1> DEFINE p == proc[t]
           k == p.cfg
           sit == SituationOf(t)
           was == denied[t]
           scope == Recorded(RequestScope(p.ctx, Sum256(digest[t]), k.excludeScopeFields,
                                          k.ipAddress), addr[t])
<1>1. digest[t] \in Digests /\ addr[t] \in Addresses  BY DEF TypeOK
<1>2. /\ scope = [f \in ScopeFieldNames |->
                     IF f \in k.excludeScopeFields THEN Unrestricted
                     ELSE IF f = "ip_address" THEN IF k.ipAddress # Empty THEN k.ipAddress ELSE addr[t]
                     ELSE IF sit[f] = Empty THEN Unrestricted ELSE sit[f]]
      /\ scope \in [ScopeFieldNames -> ScopeValues]
  BY <1>1, ProcessIs, ScopeMeant DEF SituationOf
<1>3. /\ was \in Situations
      /\ \A f \in ScopeFieldNames : f # "ip_address" => was[f] = sit[f]
  BY DEF TypeOK, DeniedInv
<1>4. k \in Configs /\ k.signingCount \in Nat /\ k.signingDuration \in BOOLEAN
  BY ProcessIs DEF ApprovalConfig
<1>5. AskOf(t) = [scope |-> scope, count |-> k.signingCount, window |-> k.signingDuration,
                  denied |-> was, cfg |-> k, from |-> addr[t]]
  BY DEF AskOf
<1>. HIDE DEF p, k, sit, was, scope
<1>6. /\ AskOf(t).scope = scope /\ AskOf(t).denied = was
      /\ AskOf(t).cfg = k /\ AskOf(t).from = addr[t]
  BY <1>5
<1>7. AskOf(t) \in Ask  BY <1>1, <1>2, <1>3, <1>4, <1>5 DEF Ask
<1>8. Meant(AskOf(t))
  <2>1. \A f \in ScopeFieldNames :
          (IF f \in k.excludeScopeFields THEN Unrestricted
           ELSE IF f = "ip_address" THEN IF k.ipAddress # Empty THEN k.ipAddress ELSE addr[t]
           ELSE IF sit[f] = Empty THEN Unrestricted ELSE sit[f])
          = (IF f \notin ScopeFieldNames \ k.excludeScopeFields THEN Unrestricted
             ELSE IF f = "ip_address" THEN IF k.ipAddress # Empty THEN k.ipAddress ELSE addr[t]
             ELSE IF was[f] = Empty THEN Unrestricted ELSE was[f])
    BY <1>3
  <2>. QED  BY <1>2, <1>6, <2>1 DEF Meant, Bound, AddressOf
<1>. QED  BY <1>7, <1>8

\* No context field and no digest is of the kind that stands for "unrestricted".
LEMMA AskValues ==
    ASSUME NEW a \in Ask
    PROVE  /\ AddressOf(a) # Unrestricted
           /\ \A f \in ScopeFieldNames : a.denied[f] # Unrestricted
<1>1. a.denied \in Situations /\ a.cfg \in Configs /\ a.from \in Addresses  BY DEF Ask
<1>2. PICK c \in Contexts, d \in Digests, x \in Addresses : a.denied = Situation(c, d, x)
  BY <1>1 DEF Situations
<1>3. \A f \in ScopeFieldNames : a.denied[f] # Unrestricted
  BY <1>2, SituationIs, Fields
<1>4. a.cfg \in ApprovalConfig  BY <1>1, SetupAssumption
<1>5. a.cfg.ipAddress \in Addresses \cup {Empty}  BY <1>4 DEF ApprovalConfig
<1>6. AddressOf(a) \in Addresses  BY <1>1, <1>5 DEF AddressOf
<1>. QED  BY <1>3, <1>6, SentinelAssumption

\* A situation that an ask covers agrees with the one that was denied.
LEMMA CoveredAgrees ==
    ASSUME NEW a \in Ask, Meant(a), NEW sit, Covers(a.scope, sit), NEW f \in Bound(a)
    PROVE  IF f = "ip_address" THEN sit[f] = AddressOf(a) ELSE a.denied[f] \in {Empty, sit[f]}
<1>1. f \in ScopeFieldNames  BY DEF Bound
<1>2. a.scope[f] = IF f = "ip_address" THEN AddressOf(a)
                   ELSE IF a.denied[f] = Empty THEN Unrestricted ELSE a.denied[f]
  BY <1>1 DEF Meant
<1>3. a.scope[f] \in {Unrestricted, sit[f]}  BY <1>1 DEF Covers
<1>. QED  BY <1>1, <1>2, <1>3, AskValues

\* Asks that mean the same are the same to the server.
LEMMA MeaningIdentifies ==
    ASSUME NEW a \in Ask, NEW b \in Ask, Meant(a), Meant(b), Meaning(a) = Meaning(b)
    PROVE  Same(a, b)
<1> DEFINE M(x) == [f \in Bound(x) |-> IF f = "ip_address" THEN AddressOf(x) ELSE x.denied[f]]
<1>1. a.count = b.count /\ a.window = b.window /\ M(a) = M(b)  BY DEF Meaning
<1>2. \A x : DOMAIN M(x) = Bound(x)  OBVIOUS
<1>3. Bound(a) = Bound(b)  BY <1>1, <1>2
<1>4. ASSUME NEW f \in ScopeFieldNames PROVE a.scope[f] = b.scope[f]
  <2>1. CASE f \notin Bound(a)  BY <1>3, <2>1 DEF Meant
  <2>2. CASE f \in Bound(a)
    <3>1. M(a)[f] = M(b)[f]  BY <1>1
    <3>2. M(a)[f] = IF f = "ip_address" THEN AddressOf(a) ELSE a.denied[f]  BY <2>2
    <3>3. M(b)[f] = IF f = "ip_address" THEN AddressOf(b) ELSE b.denied[f]  BY <1>3, <2>2
    <3>. HIDE DEF M
    <3>4. /\ a.scope[f] = IF f = "ip_address" THEN AddressOf(a)
                          ELSE IF a.denied[f] = Empty THEN Unrestricted ELSE a.denied[f]
          /\ b.scope[f] = IF f = "ip_address" THEN AddressOf(b)
                          ELSE IF b.denied[f] = Empty THEN Unrestricted ELSE b.denied[f]
      BY <1>3, <2>2 DEF Meant
    <3>5. CASE f = "ip_address"  BY <3>1, <3>2, <3>3, <3>4, <3>5
    <3>6. CASE f # "ip_address"  BY <3>1, <3>2, <3>3, <3>4, <3>6
    <3>. QED  BY <3>5, <3>6
  <2>. QED  BY <2>1, <2>2
<1>5. a.scope = b.scope  BY <1>4 DEF Ask
<1>. QED  BY <1>1, <1>5 DEF Same

-----------------------------------------------------------------------------
(* Answers and errors *)

\* No code of a refusal is one of the values with a meaning of their own.
LEMMA Codes == \A c \in RefusalCodes : c \in Int /\ c >= 400 /\ c <= 599
BY SetupAssumption

LEMMA Responses ==
    /\ Waiting \in Response /\ Waiting.status = 0 /\ ~IsApprovalRequired(Waiting)
    /\ \A c \in StatusCodes : /\ Plain(c) \in Response /\ Plain(c).status = c
                              /\ ~IsApprovalRequired(Plain(c))
BY DEF Waiting, Plain, Response, StatusCodes, IsApprovalRequired

\* The advice for an approval outcome is the outcome's, although every one of them
\* wraps the APIError of the denial.
LEMMA OutcomeAdvice == ASSUME NEW o \in Outcomes PROVE adviceForError(Denied(o)) = o
<1> DEFINE matching == {i \in DOMAIN adviceOrder : adviceOrder[i] \in {o, "api"}}
           First(i) == i \in matching /\ \A j \in matching : i <= j
<1>1. adviceForError(Denied(o)) =
        IF matching = {} THEN "none" ELSE AdviceFor(adviceOrder[CHOOSE i : First(i)], 403)
  BY DEF adviceForError, Types, Denied
<1>2. /\ DOMAIN adviceOrder = 1 .. 6
      /\ adviceOrder[1] = "opened" /\ adviceOrder[2] = "pending"
      /\ adviceOrder[3] = "notConfigured" /\ adviceOrder[4] = "failed"
      /\ adviceOrder[5] = "api" /\ adviceOrder[6] = "request"
  BY DEF adviceOrder
<1>3. \E i \in 1 .. 4 : adviceOrder[i] = o /\ First(i)
  BY <1>2 DEF Outcomes
<1>4. \A i, j : First(i) /\ First(j) => i = j
  BY <1>2
<1>5. adviceOrder[CHOOSE i : First(i)] = o
  <2>. HIDE DEF First
  <2>. QED  BY <1>3, <1>4
<1>6. matching # {}  BY <1>3
<1>. QED  BY <1>1, <1>5, <1>6 DEF AdviceFor, Outcomes

\* The advice for any other error.
LEMMA PlainAdvice ==
    ASSUME NEW r \in Response, ~IsApprovalRequired(r), r.status \notin {0, 200}
    PROVE  adviceForError(ErrorOf(r)) =
              AdviceFor(IF r.status = 1 THEN "request" ELSE "api", r.status)
<1> DEFINE inner == IF r.status = 1 THEN "request" ELSE "api"
           matching == {i \in DOMAIN adviceOrder : adviceOrder[i] \in {"none", inner}}
           First(i) == i \in matching /\ \A j \in matching : i <= j
<1>1. adviceForError(ErrorOf(r)) =
        IF matching = {} THEN "none" ELSE AdviceFor(adviceOrder[CHOOSE i : First(i)], r.status)
  BY DEF adviceForError, Types, ErrorOf
<1>2. /\ DOMAIN adviceOrder = 1 .. 6
      /\ adviceOrder[1] = "opened" /\ adviceOrder[2] = "pending"
      /\ adviceOrder[3] = "notConfigured" /\ adviceOrder[4] = "failed"
      /\ adviceOrder[5] = "api" /\ adviceOrder[6] = "request"
  BY DEF adviceOrder
<1>3. \E i \in 5 .. 6 : adviceOrder[i] = inner /\ First(i)
  BY <1>2
<1>4. \A i, j : First(i) /\ First(j) => i = j
  BY <1>2
<1>5. adviceOrder[CHOOSE i : First(i)] = inner
  <2>. HIDE DEF First
  <2>. QED  BY <1>3, <1>4
<1>6. matching # {}  BY <1>3
<1>. QED  BY <1>1, <1>5, <1>6

\* What the host and the log may say, given what the server did.
Tells(r, d) ==
    /\ r.log.advice = "opened" => d = "opened"
    /\ d = "opened" => r.log.advice \in {"opened", "failed"}
    /\ r.log.advice = "pending" => d = "waiting"
    /\ r.log.advice \in Outcomes => r.status = "PERM" /\ r.log.error = "advice"
    /\ r.status = "PERM" => r.log.advice # "none"
    /\ r.status = "SUCCESS" => d = "signed"
    /\ d = "signed" => r.status \in {"SUCCESS", "BUFFER_TOO_SMALL", "FAIL"}

Reported(e) == [status |-> statusFromError(e), log |-> logError(e)]

LEMMA OutcomeReported ==
    ASSUME NEW o \in Outcomes
    PROVE  LET r == Reported(Denied(o)) IN
           /\ r \in Result
           /\ r.status = "PERM" /\ r.log.advice = o /\ r.log.error = "advice"
<1>1. adviceForError(Denied(o)) = o  BY OutcomeAdvice
<1>2. statusFromError(Denied(o)) = "PERM"  BY DEF statusFromError, Denied
<1>3. logError(Denied(o)) = [error |-> "advice", advice |-> o]
  BY <1>1 DEF logError, IsApprovalOutcome, Denied
<1>4. o \in Hints \cup {"none"}  BY DEF Hints
<1>. QED  BY <1>2, <1>3, <1>4 DEF Reported, Result

LEMMA PlainReported ==
    ASSUME NEW r \in Response, ~IsApprovalRequired(r), r.status \notin {0, 200}
    PROVE  LET o == Reported(ErrorOf(r)) IN
           /\ o \in Result
           /\ o.log.advice \notin Outcomes
           /\ o.status = "PERM" => o.log.advice # "none"
           /\ o.status \notin {"none", "SUCCESS"}
           /\ r.status = 1 => o.status = "FAIL"
<1> DEFINE e == ErrorOf(r)
           advice == adviceForError(e)
           type == IF r.status = 1 THEN "request" ELSE "api"
<1>1. r.status = 1 \/ (r.status \in Int /\ r.status >= 400)
  <2>1. r.status \in {0, 1, 200, 403} \cup RefusalCodes  BY DEF Response, StatusCodes
  <2>. QED  BY <2>1, Codes
<1>2. e.outer = "none" /\ e.inner = type /\ e.status = r.status  BY DEF ErrorOf
<1>3. advice = AdviceFor(type, r.status)  BY PlainAdvice
<1>4. /\ advice \in Hints \cup {"none"} /\ advice \notin Outcomes
      /\ r.status \in {401, 403} => advice # "none"
  BY <1>1, <1>3 DEF AdviceFor, Hints, Outcomes
<1>5. /\ statusFromError(e) \in {"PERM", "BAD_KEYSET", "INVALID_PARAMETER", "FAIL"}
      /\ statusFromError(e) = "PERM" => r.status \in {401, 403}
      /\ r.status = 1 => statusFromError(e) = "FAIL"
  BY <1>2 DEF statusFromError
<1>6. logError(e) = [error |-> "err", advice |-> advice]
  BY <1>2 DEF logError, IsApprovalOutcome, Outcomes
<1>. HIDE DEF e, advice
<1>7. Reported(e) = [status |-> statusFromError(e), log |-> [error |-> "err", advice |-> advice]]
  BY <1>6 DEF Reported
<1>8. Reported(e) \in Result  BY <1>4, <1>5, <1>7 DEF Result
<1>9. Reported(e).status = statusFromError(e) /\ Reported(e).log.advice = advice
  BY <1>7
<1>. QED  BY <1>4, <1>5, <1>8, <1>9 DEF e

LEMMA BadSignatureReported ==
    LET o == Reported(BadSignature) IN
    o \in Result /\ o.status = "FAIL" /\ o.log.advice = "none"
<1>1. /\ BadSignature.outer = "none" /\ BadSignature.inner = "other"
  BY DEF BadSignature
<1>2. \A i \in DOMAIN adviceOrder : adviceOrder[i] \notin Types(BadSignature)
  BY <1>1 DEF adviceOrder, Types
<1>3. adviceForError(BadSignature) = "none"  BY <1>2 DEF adviceForError
<1>4. statusFromError(BadSignature) = "FAIL"  BY <1>1 DEF statusFromError
<1>5. logError(BadSignature) = [error |-> "err", advice |-> "none"]
  BY <1>1, <1>3 DEF logError, IsApprovalOutcome, Outcomes
<1>. QED  BY <1>4, <1>5 DEF Reported, Result

-----------------------------------------------------------------------------
(* The inductive invariant *)

IInv == TypeOK /\ AskInv /\ BasisInv /\ CallInv /\ DeniedInv /\ LogTellsWhatHappened

LEMMA LogTells ==
    LogTellsWhatHappened <=>
        \A t \in Threads : pc[t] = "idle" /\ out[t].status # "none" => Tells(out[t], did[t])
BY Zenon DEF LogTellsWhatHappened, Tells

LEMMA InvInit == Init => IInv
<1>. SUFFICES ASSUME Init PROVE IInv
  OBVIOUS
<1>1. TypeOK
  <2>1. \A t \in Threads : proc[t] \in Process  BY SetupAssumption DEF Init
  <2>2. \A t \in Threads : proc[t].home \in Addresses  BY <2>1 DEF Process
  <2>3. \A t \in Threads : (CHOOSE d \in proc[t].work : TRUE) \in Digests
    <3>. TAKE t \in Threads
    <3>1. proc[t].work \in (SUBSET Digests) \ {{}}  BY <2>1 DEF Process
    <3>. QED  BY <3>1
  <2>4. Quiet("none") \in Result  BY DEF Quiet, Result, Hints
  <2>. QED  BY <2>2, <2>3, <2>4, Responses DEF Init, TypeOK
<1>2. AskInv  BY DEF Init, AskInv
<1>3. BasisInv /\ CallInv /\ DeniedInv
  BY DEF Init, BasisInv, CallInv, DeniedInv, DeniedNow, Answered
<1>4. LogTellsWhatHappened
  <2>1. \A t \in Threads : out[t].status = "none"  BY DEF Init, Quiet
  <2>. QED  BY <2>1 DEF LogTellsWhatHappened
<1>. QED  BY <1>1, <1>2, <1>3, <1>4 DEF IInv

\* A call that returns and says what happened.
LEMMA ReturnStep ==
    ASSUME IInv, NEW t \in Threads, NEW r \in Result, Tells(r, did[t]), Return(t, r)
    PROVE  IInv'
<1>. USE DEF IInv
<1>1. TypeOK'
  BY ProcessIs, Responses DEF TypeOK, Return, serverVars
<1>2. AskInv'  BY DEF AskInv, Return, serverVars
<1>3. /\ \A u \in Threads : u # t => /\ pc'[u] = pc[u] /\ out'[u] = out[u] /\ resp'[u] = resp[u]
                                     /\ addr'[u] = addr[u] /\ basis'[u] = basis[u]
                                     /\ denied'[u] = denied[u]
      /\ pc'[t] = "idle" /\ out'[t] = r /\ basis'[t] = NoBasis /\ denied'[t] = NotDenied
      /\ UNCHANGED <<proc, digest, did>>
  BY DEF TypeOK, Return
<1>4. BasisInv'  BY <1>3 DEF BasisInv, SituationOf
<1>5. CallInv'  BY <1>3 DEF CallInv
<1>7. DeniedInv'  BY <1>3 DEF DeniedInv, DeniedNow, Answered, SituationOf
<1>6. LogTellsWhatHappened'
  <2>1. ASSUME NEW u \in Threads, pc'[u] = "idle", out'[u].status # "none"
        PROVE  Tells(out'[u], did'[u])
    <3>1. CASE u = t  BY <1>3, <3>1
    <3>2. CASE u # t  BY <1>3, <2>1, <3>2, LogTells
    <3>. QED  BY <3>1, <3>2
  <2>. QED  BY <2>1, Zenon DEF LogTellsWhatHappened, Tells
<1>. QED  BY <1>1, <1>2, <1>4, <1>5, <1>6, <1>7

Deeds == {"nothing", "signed", "denied", "waiting", "opened"}

\* What CallInv says of a thread at the given place, after the deed k and the answer r.
CallAt(place, k, r) ==
    /\ place = "sign" =>
          /\ k # "opened"
          /\ r.status = 200 => k = "signed"
          /\ k = "signed" => r.status \in {1, 200}
          /\ IsApprovalRequired(r) => k = IF r.hasPending THEN "waiting" ELSE "denied"
    /\ place = "request" =>
          /\ k \in {"denied", "opened"}
          /\ r.status = 200 => k = "opened"

LEMMA CallsAt == CallInv <=> \A t \in Threads : CallAt(pc[t], did[t], resp[t])
BY DEF CallInv, CallAt

\* What BasisInv says of the thread t after the answer r to a signing under b.
Founded(t, r, b) ==
    b # NoBasis => /\ pc[t] = "sign" /\ r.status \in {1, 200}
                   /\ Meant(b) /\ Covers(b.scope, SituationOf(t))

\* A request leaves.
LEMMA SendStep ==
    ASSUME IInv, NEW t \in Threads, NEW stage \in {"sign", "request"}, Send(t, stage),
           NEW d \in Digests, NEW k \in Deeds, NEW o \in Result,
           digest' = [digest EXCEPT ![t] = d], did' = [did EXCEPT ![t] = k],
           out' = [out EXCEPT ![t] = o],
           basis[t] = NoBasis, CallAt(stage, k, Waiting),
           denied[t] # NotDenied => digest[t] = d, stage = "request" => denied[t] # NotDenied,
           UNCHANGED <<proc, denied, basis, serverVars, trouble>>
    PROVE  IInv'
<1>. USE DEF IInv
<1>1. PICK a \in Addresses : addr' = [addr EXCEPT ![t] = a]
  BY ProcessIs DEF Send
<1>2. TypeOK'
  BY <1>1, Responses DEF TypeOK, Send, serverVars, Deeds
<1>3. AskInv'  BY DEF AskInv, serverVars
<1>4. /\ \A u \in Threads : u # t =>
            /\ pc'[u] = pc[u] /\ out'[u] = out[u] /\ resp'[u] = resp[u]
            /\ addr'[u] = addr[u] /\ digest'[u] = digest[u] /\ did'[u] = did[u]
      /\ pc'[t] = stage /\ resp'[t] = Waiting /\ did'[t] = k
      /\ digest'[t] = d /\ UNCHANGED <<proc, denied, basis>>
  BY <1>1 DEF TypeOK, Send
<1>5. BasisInv'  BY <1>4 DEF BasisInv, SituationOf
<1>6. CallInv'
  <2>1. ASSUME NEW u \in Threads PROVE CallAt(pc'[u], did'[u], resp'[u])
    BY <1>4, CallsAt
  <2>. QED  BY <2>1 DEF CallInv, CallAt
<1>7. LogTellsWhatHappened'
  <2>1. ASSUME NEW u \in Threads, pc'[u] = "idle", out'[u].status # "none"
        PROVE  Tells(out'[u], did'[u])
    BY <1>4, <2>1, LogTells
  <2>. QED  BY <2>1, Zenon DEF LogTellsWhatHappened, Tells
<1>8. DeniedInv'
  <2>. SUFFICES ASSUME NEW u \in Threads
                PROVE  /\ DeniedNow(u)' \/ pc'[u] = "request" => denied'[u] # NotDenied
                       /\ denied'[u] # NotDenied =>
                             \A f \in ScopeFieldNames \ {"ip_address"} :
                                 denied'[u][f] = SituationOf(u)'[f]
                       /\ pc'[u] = "idle" => denied'[u] = NotDenied
    BY DEF DeniedInv
  <2>1. CASE u # t  BY <1>4, <2>1 DEF DeniedInv, DeniedNow, Answered, SituationOf
  <2>2. CASE u = t
    <3>1. pc'[t] # "idle" /\ ~DeniedNow(t)'  BY <1>4, Responses DEF DeniedNow, Answered
    <3>2. ASSUME denied[t] # NotDenied, NEW f \in ScopeFieldNames \ {"ip_address"}
          PROVE  denied'[t][f] = SituationOf(t)'[f]
      <4>1. denied[t][f] = SituationOf(t)[f] /\ digest'[t] = digest[t]
        BY <1>4, <3>2 DEF DeniedInv
      <4>2. SituationOf(t)'[f] = SituationOf(t)[f]
        BY <1>4, <3>2, <4>1 DEF SituationOf, Situation
      <4>. QED  BY <1>4, <4>1, <4>2
    <3>. QED  BY <1>4, <2>2, <3>1, <3>2
  <2>. QED  BY <2>1, <2>2
<1>. QED  BY <1>2, <1>3, <1>5, <1>6, <1>7, <1>8

\* An answer is made for a request, or lost.
LEMMA AnswerStep ==
    ASSUME IInv, NEW t \in Threads, pc[t] # "idle", NEW r \in Response, Answer(t, r),
           NEW k \in Deeds, NEW b \in Ask \cup {NoBasis},
           did' = [did EXCEPT ![t] = k], basis' = [basis EXCEPT ![t] = b],
           NEW s \in Situations \cup {NotDenied}, denied' = [denied EXCEPT ![t] = s],
           CallAt(pc[t], k, r), Founded(t, r, b),
           s \in {denied[t], SituationOf(t)},
           IsApprovalRequired(r) \/ pc[t] = "request" => s # NotDenied,
           pending' \subseteq Ask, grants' \subseteq Grant, AskInv'
    PROVE  IInv'
<1>. USE DEF IInv
<1>1. TypeOK'  BY DEF TypeOK, Answer, Deeds
<1>2. /\ \A u \in Threads : u # t =>
            /\ resp'[u] = resp[u] /\ did'[u] = did[u] /\ basis'[u] = basis[u]
            /\ denied'[u] = denied[u]
      /\ resp'[t] = r /\ did'[t] = k /\ basis'[t] = b /\ denied'[t] = s
      /\ UNCHANGED <<proc, pc, digest, addr, out>>
  BY DEF TypeOK, Answer
<1>3. BasisInv'  BY <1>2 DEF BasisInv, Founded, SituationOf
<1>4. CallInv'
  <2>1. ASSUME NEW u \in Threads PROVE CallAt(pc'[u], did'[u], resp'[u])
    BY <1>2, CallsAt
  <2>. QED  BY <2>1 DEF CallInv, CallAt
<1>5. LogTellsWhatHappened'
  <2>1. ASSUME NEW u \in Threads, pc'[u] = "idle", out'[u].status # "none"
        PROVE  Tells(out'[u], did'[u])
    BY <1>2, <2>1, LogTells
  <2>. QED  BY <2>1, Zenon DEF LogTellsWhatHappened, Tells
<1>6. DeniedInv'
  <2>1. \A u \in Threads : SituationOf(u)' = SituationOf(u)  BY <1>2 DEF SituationOf
  <2>. QED  BY <1>2, <2>1 DEF DeniedInv, DeniedNow, Answered
<1>. QED  BY <1>1, <1>3, <1>4, <1>5, <1>6

\* The same when the server does nothing.
LEMMA NoDeed ==
    ASSUME IInv, NEW t \in Threads, pc[t] # "idle", NEW r \in Response, Answer(t, r),
           ~IsApprovalRequired(r), r.status # 200, r.status = 1 \/ resp[t].status = 0,
           UNCHANGED <<did, denied, basis, serverVars>>
    PROVE  IInv'
<1>. USE DEF IInv
<1>1. did' = [did EXCEPT ![t] = did[t]] /\ did[t] \in Deeds  BY DEF TypeOK, Deeds
<1>2. basis' = [basis EXCEPT ![t] = basis[t]] /\ basis[t] \in Ask \cup {NoBasis}  BY DEF TypeOK
<1>6. /\ denied' = [denied EXCEPT ![t] = denied[t]] /\ denied[t] \in Situations \cup {NotDenied}
      /\ pc[t] = "request" => denied[t] # NotDenied
  BY DEF TypeOK, DeniedInv
<1>3. CallAt(pc[t], did[t], r)
  <2>1. CallAt(pc[t], did[t], resp[t])  BY CallsAt
  <2>. QED  BY <2>1 DEF CallAt
<1>4. Founded(t, r, basis[t])  BY DEF BasisInv, Founded
<1>5. pending' \subseteq Ask /\ grants' \subseteq Grant /\ AskInv'
  BY DEF TypeOK, AskInv, serverVars
<1>. QED  BY <1>1, <1>2, <1>3, <1>4, <1>5, <1>6, AnswerStep

\* The review of requests.
LEMMA ReviewStep ==
    ASSUME IInv, UNCHANGED <<proc, callVars>>, trouble' \in BOOLEAN,
           pending' \subseteq Ask, grants' \subseteq Grant, AskInv'
    PROVE  IInv'
<1>. USE DEF IInv
<1>1. UNCHANGED <<proc, pc, digest, addr, resp, out, did, denied, basis>>  BY DEF callVars
<1>2. TypeOK'  BY <1>1 DEF TypeOK
<1>3. BasisInv'  BY <1>1 DEF BasisInv, SituationOf
<1>4. CallInv'  BY <1>1 DEF CallInv
<1>5. LogTellsWhatHappened'  BY <1>1, Zenon DEF LogTellsWhatHappened
<1>6. DeniedInv'  BY <1>1 DEF DeniedInv, DeniedNow, Answered, SituationOf
<1>. QED  BY <1>2, <1>3, <1>4, <1>5, <1>6

LEMMA ProviderStep ==
    ASSUME IInv, NEW t \in Threads, Provider(t)
    PROVE  IInv'
<1>. USE DEF IInv
<1>0. resp[t] \in Response /\ CallAt(pc[t], did[t], resp[t])
  BY CallsAt DEF TypeOK
<1>1. CASE SignReturned(t)
  <2>1. did[t] = "signed"  BY <1>0, <1>1 DEF SignReturned, Answered, CallAt
  <2>2. ASSUME NEW s \in {"SUCCESS", "BUFFER_TOO_SMALL"}
        PROVE  Quiet(s) \in Result /\ Tells(Quiet(s), did[t])
    BY <2>1 DEF Quiet, Result, Tells, Outcomes
  <2> DEFINE b == Reported(BadSignature)
  <2>3. b \in Result /\ b.status = "FAIL" /\ b.log.advice = "none"
    BY BadSignatureReported
  <2>4. Tells(b, did[t])
    <3>. HIDE DEF b
    <3>. QED  BY <2>1, <2>3 DEF Tells, Outcomes
  <2>5. \/ Return(t, Quiet("SUCCESS")) \/ Return(t, Quiet("BUFFER_TOO_SMALL")) \/ Return(t, b)
    BY <1>1 DEF SignReturned, Fail, Reported
  <2>. HIDE DEF b, IInv
  <2>. QED  BY <2>2, <2>3, <2>4, <2>5, ReturnStep
<1>2. CASE SignFailed(t)
  <2>1. /\ resp[t].status \notin {0, 200} /\ ~IsApprovalRequired(resp[t]) /\ did[t] # "opened"
        /\ did[t] = "signed" => resp[t].status = 1
        /\ Return(t, Reported(ErrorOf(resp[t])))
    BY <1>0, <1>2 DEF SignFailed, Answered, Fail, Reported, CallAt
  <2> DEFINE r == Reported(ErrorOf(resp[t]))
  <2>2. /\ r \in Result /\ r.log.advice \notin Outcomes
        /\ r.status = "PERM" => r.log.advice # "none"
        /\ r.status # "SUCCESS" /\ (resp[t].status = 1 => r.status = "FAIL")
    BY <1>0, <2>1, PlainReported
  <2>. HIDE DEF r
  <2>3. Tells(r, did[t])  BY <2>1, <2>2 DEF Tells, Outcomes
  <2>. QED  BY <2>1, <2>2, <2>3, ReturnStep DEF r
<1>3. ASSUME NEW o \in Outcomes, Fail(t, Denied(o)),
             o = "opened" <=> did[t] = "opened" /\ o # "failed",
             o = "pending" => did[t] = "waiting", did[t] # "signed"
      PROVE  IInv'
  <2> DEFINE r == Reported(Denied(o))
  <2>1. r \in Result /\ r.status = "PERM" /\ r.log.advice = o /\ r.log.error = "advice"
    BY OutcomeReported
  <2>2. Return(t, r)  BY <1>3 DEF Fail, Reported
  <2>. HIDE DEF r
  <2>3. Tells(r, did[t])  BY <1>3, <2>1 DEF Tells, Outcomes
  <2>. QED  BY <2>1, <2>2, <2>3, ReturnStep
<1>4. CASE RequestPending(t)
  <2>1. did[t] = "waiting"
    BY <1>0, <1>4 DEF RequestPending, DeniedNow, Answered, CallAt
  <2>. QED  BY <1>3, <1>4, <2>1 DEF RequestPending, Outcomes
<1>5. CASE NotConfigured(t)
  <2>1. did[t] = "denied"
    BY <1>0, <1>5 DEF NotConfigured, DeniedNow, Answered, CallAt
  <2>. QED  BY <1>3, <1>5, <2>1 DEF NotConfigured, Outcomes
<1>6. CASE RequestApproval(t)
  <2>1. did[t] = "denied"
    BY <1>0, <1>6 DEF RequestApproval, DeniedNow, Answered, CallAt
  <2>2. basis[t] = NoBasis
    BY <1>6 DEF RequestApproval, DeniedNow, Answered, IsApprovalRequired, BasisInv
  <2>3. /\ digest' = [digest EXCEPT ![t] = digest[t]] /\ digest[t] \in Digests
        /\ did' = [did EXCEPT ![t] = "denied"] /\ "denied" \in Deeds
        /\ out' = [out EXCEPT ![t] = out[t]] /\ out[t] \in Result
    BY <1>6, <2>1 DEF RequestApproval, TypeOK, Deeds
  <2>4. CallAt("request", "denied", Waiting)  BY Responses DEF CallAt
  <2>5. Send(t, "request") /\ UNCHANGED <<proc, denied, basis, serverVars, trouble>>
    BY <1>6 DEF RequestApproval
  <2>6. denied[t] # NotDenied  BY <1>6 DEF RequestApproval, DeniedInv
  <2>. HIDE DEF IInv
  <2>. QED  BY <2>2, <2>3, <2>4, <2>5, <2>6, SendStep
<1>7. CASE RequestOpened(t)
  <2>1. did[t] = "opened"
    BY <1>0, <1>7 DEF RequestOpened, Answered, CallAt
  <2>. QED  BY <1>3, <1>7, <2>1 DEF RequestOpened, Outcomes
<1>8. CASE RequestFailed(t)
  <2>1. did[t] # "signed"  BY <1>0, <1>8 DEF RequestFailed, Answered, CallAt
  <2>. QED  BY <1>3, <1>8, <2>1 DEF RequestFailed, Outcomes
<1>. QED  BY <1>1, <1>2, <1>4, <1>5, <1>6, <1>7, <1>8 DEF Provider

LEMMA ServerStep ==
    ASSUME IInv, NEW t \in Threads, Server(t)
    PROVE  IInv'
<1>. USE DEF IInv
<1>0. CallAt(pc[t], did[t], resp[t])  BY CallsAt
<1>1. Plain(200) \in Response /\ Plain(200).status = 200 /\ ~IsApprovalRequired(Plain(200))
  BY Responses DEF StatusCodes
<1>2. CASE ServerSigns(t)
  <2>1. PICK g \in grants :
          /\ Covers(g.ask.scope, SituationOf(t))
          /\ grants' = (grants \ {g}) \cup Used(g)
          /\ basis' = [basis EXCEPT ![t] = g.ask]
    BY <1>2 DEF ServerSigns
  <2>2. g \in Grant /\ g.ask \in Ask /\ Meant(g.ask)  BY DEF TypeOK, AskInv, Grant
  <2>3. Used(g) \subseteq Grant /\ \A h \in Used(g) : h.ask = g.ask
    BY <2>2 DEF Used, Grant
  <2>4. pending' \subseteq Ask /\ grants' \subseteq Grant /\ AskInv'
    BY <1>2, <2>1, <2>2, <2>3 DEF ServerSigns, TypeOK, AskInv
  <2>5. CallAt(pc[t], "signed", Plain(200)) /\ pc[t] = "sign"
    BY <1>1, <1>2 DEF ServerSigns, Asked, CallAt
  <2>6. did' = [did EXCEPT ![t] = "signed"] /\ "signed" \in Deeds /\ Answer(t, Plain(200))
    BY <1>2 DEF ServerSigns, Deeds
  <2>7. Founded(t, Plain(200), g.ask)  BY <1>1, <2>1, <2>2, <2>5 DEF Founded
  <2>8. g.ask \in Ask \cup {NoBasis}  BY <2>2
  <2>9. pc[t] # "idle" /\ basis' = [basis EXCEPT ![t] = g.ask]  BY <2>1, <2>5
  <2>10. Plain(200) \in Response /\ ~IsApprovalRequired(Plain(200))  BY <1>1
  <2>11. denied' = [denied EXCEPT ![t] = denied[t]] /\ denied[t] \in Situations \cup {NotDenied}
    BY <1>2 DEF ServerSigns, TypeOK
  <2>. HIDE DEF IInv
  <2>. QED  BY <2>4, <2>5, <2>6, <2>7, <2>8, <2>9, <2>10, <2>11, AnswerStep
<1>3. CASE ServerDenies(t)
  <2>1. PICK w \in BOOLEAN :
          /\ did' = [did EXCEPT ![t] = IF w THEN "waiting" ELSE "denied"]
          /\ Answer(t, Denial(w))
          /\ denied' = [denied EXCEPT ![t] = SituationOf(t)]
    BY <1>3 DEF ServerDenies
  <2>2. /\ pc[t] = "sign" /\ resp[t].status = 0
        /\ UNCHANGED <<basis, serverVars>>
    BY <1>3 DEF ServerDenies, Asked
  <2>3. /\ basis' = [basis EXCEPT ![t] = NoBasis]
        /\ pending' \subseteq Ask /\ grants' \subseteq Grant /\ AskInv'
    BY <2>2 DEF TypeOK, AskInv, BasisInv, serverVars
  <2>4. 403 \in StatusCodes  BY DEF StatusCodes
  <2> DEFINE k == IF w THEN "waiting" ELSE "denied"
  <2>5. Founded(t, Denial(w), NoBasis)  BY DEF Founded
  <2>6. Denial(w) \in Response /\ CallAt("sign", k, Denial(w)) /\ k \in Deeds
    BY <2>4 DEF Denial, Response, CallAt, IsApprovalRequired, Deeds
  <2>7. SituationOf(t) \in Situations
    BY ProcessIs, SituationIs DEF SituationOf, TypeOK
  <2>8. SituationOf(t) # NotDenied  BY <2>7, SentinelAssumption
  <2>. HIDE DEF IInv, k
  <2>. QED  BY <2>1, <2>2, <2>3, <2>5, <2>6, <2>7, <2>8, AnswerStep DEF k
<1>4. CASE ServerOpens(t)
  <2>4. pc[t] = "request"  BY <1>4 DEF ServerOpens, Asked
  <2>1. AskOf(t) \in Ask /\ Meant(AskOf(t))  BY <2>4, AskOfMeant
  <2>2. /\ \/ pending' = pending
           \/ /\ \A p \in pending : ~Same(p, AskOf(t))
              /\ pending' = pending \cup {AskOf(t)}
        /\ UNCHANGED <<denied, basis, grants>>
    BY <1>4 DEF ServerOpens
  <2>3. pending' \subseteq Ask /\ grants' \subseteq Grant /\ AskInv'
    BY <2>1, <2>2 DEF TypeOK, AskInv, Same
  <2>5. basis' = [basis EXCEPT ![t] = NoBasis]
    BY <2>2, <2>4 DEF BasisInv, TypeOK
  <2>6. CallAt(pc[t], "opened", Plain(200)) /\ "opened" \in Deeds
    BY <2>4 DEF CallAt, Deeds
  <2>7. did' = [did EXCEPT ![t] = "opened"] /\ Answer(t, Plain(200))
    BY <1>4 DEF ServerOpens
  <2>8. Founded(t, Plain(200), NoBasis)  BY DEF Founded
  <2>9. /\ denied' = [denied EXCEPT ![t] = denied[t]] /\ denied[t] \in Situations \cup {NotDenied}
        /\ denied[t] # NotDenied
    BY <2>2, <2>4 DEF TypeOK, DeniedInv
  <2>10. NoBasis \in Ask \cup {NoBasis} /\ pc[t] # "idle"  BY <2>4
  <2>11. /\ denied[t] \in {denied[t], SituationOf(t)}
         /\ IsApprovalRequired(Plain(200)) \/ pc[t] = "request" => denied[t] # NotDenied
    BY <2>9
  <2>12. Plain(200) \in Response  BY <1>1
  <2>. HIDE DEF IInv
  <2>. QED  BY <2>3, <2>5, <2>6, <2>7, <2>8, <2>9, <2>10, <2>11, <2>12, AnswerStep
<1>. QED  BY <1>2, <1>3, <1>4 DEF Server

LEMMA InvStep == IInv /\ [Next]_vars => IInv'
<1>. SUFFICES ASSUME IInv, [Next]_vars PROVE IInv'
  OBVIOUS
<1>0. TypeOK /\ AskInv /\ BasisInv /\ CallInv /\ DeniedInv  BY DEF IInv
<1>1. ASSUME NEW t \in Threads, NEW d \in proc[t].work, SignHash(t, d) PROVE IInv'
  <2>1. d \in Digests /\ "nothing" \in Deeds  BY <1>0, <1>1, ProcessIs DEF Deeds
  <2>2. Quiet("none") \in Result  BY DEF Quiet, Result, Hints
  <2>3. basis[t] = NoBasis  BY <1>0, <1>1 DEF SignHash, BasisInv
  <2>4. CallAt("sign", "nothing", Waiting)  BY Responses DEF CallAt
  <2>5. denied[t] = NotDenied  BY <1>0, <1>1 DEF SignHash, DeniedInv
  <2>. QED  BY <1>1, <2>1, <2>2, <2>3, <2>4, <2>5, SendStep DEF SignHash
<1>2. ASSUME NEW t \in Threads, ServerRefuses(t) PROVE IInv'
  <2>1. PICK c \in RefusalCodes : Answer(t, Plain(c))  BY <1>2 DEF ServerRefuses
  <2>2. c \in StatusCodes /\ c # 200  BY Codes DEF StatusCodes
  <2>3. /\ Plain(c) \in Response /\ Plain(c).status # 200 /\ ~IsApprovalRequired(Plain(c))
    BY <2>2, Responses
  <2>4. pc[t] # "idle" /\ resp[t].status = 0 /\ UNCHANGED <<did, denied, basis, serverVars>>
    BY <1>2 DEF ServerRefuses
  <2>. QED  BY <2>1, <2>3, <2>4, NoDeed
<1>3. ASSUME NEW t \in Threads, Lose(t) PROVE IInv'
  <2>1. Plain(1) \in Response /\ Plain(1).status = 1 /\ ~IsApprovalRequired(Plain(1))
    BY Responses DEF StatusCodes
  <2>. QED  BY <1>3, <2>1, NoDeed DEF Lose
<1>4. ASSUME NEW p \in pending, Approve(p) PROVE IInv'
  <2> DEFINE g == [ask |-> p, left |-> IF p.count = 0 THEN 1 ELSE p.count]
  <2>1. p \in Ask /\ Meant(p) /\ p.count \in Nat  BY <1>0 DEF TypeOK, AskInv, Ask
  <2>2. g \in Grant /\ g.ask = p  BY <2>1 DEF Grant
  <2>. HIDE DEF g
  <2>3. /\ pending' = pending \ {p}
        /\ grants' = {x \in grants : ~Same(x.ask, p)} \cup {g}
        /\ UNCHANGED <<proc, callVars, trouble>>
    BY <1>4 DEF Approve, g
  <2>4. pending' \subseteq Ask /\ grants' \subseteq Grant /\ trouble' \in BOOLEAN
    BY <1>0, <2>2, <2>3 DEF TypeOK
  <2>5. AskInv'  BY <1>0, <2>1, <2>2, <2>3 DEF AskInv
  <2>. QED  BY <2>3, <2>4, <2>5, ReviewStep
<1>5. ASSUME NEW p \in pending, Reject(p) PROVE IInv'
  <2>1. pending' \subseteq Ask /\ grants' \subseteq Grant /\ trouble' \in BOOLEAN /\ AskInv'
    BY <1>0, <1>5 DEF Reject, TypeOK, AskInv
  <2>. QED  BY <1>5, <2>1, ReviewStep DEF Reject
<1>6. ASSUME NEW g \in grants, GrantEnds(g) PROVE IInv'
  <2>1. pending' \subseteq Ask /\ grants' \subseteq Grant /\ trouble' \in BOOLEAN /\ AskInv'
    BY <1>0, <1>6 DEF GrantEnds, TypeOK, AskInv
  <2>. QED  BY <1>6, <2>1, ReviewStep DEF GrantEnds
<1>7. ASSUME UNCHANGED <<proc, callVars, serverVars>>, trouble' \in BOOLEAN PROVE IInv'
  <2>1. pending' \subseteq Ask /\ grants' \subseteq Grant /\ AskInv'
    BY <1>0, <1>7 DEF TypeOK, AskInv, serverVars
  <2>. QED  BY <1>7, <2>1, ReviewStep
<1>8. CASE ChangeWeather  BY <1>7, <1>8 DEF ChangeWeather
<1>9. CASE UNCHANGED vars  BY <1>0, <1>7, <1>9 DEF vars, TypeOK
<1>. QED
  BY <1>1, <1>2, <1>3, <1>4, <1>5, <1>6, <1>8, <1>9, ProviderStep, ServerStep DEF Next

LEMMA Invariance == Spec => []IInv
BY InvInit, InvStep, PTL DEF Spec

-----------------------------------------------------------------------------
(* The theorems *)

\* Every variable keeps its type; the host sees NTE_* codes only, and whatever is
\* asked for, granted or used is made of observed values.  provider_windows.go:202-235,
\* signing_context.go:220-256.
THEOREM TypeCorrect == Spec => []TypeOK
BY Invariance, PTL DEF IInv

\* A signature is made only where the call agrees with the one whose denial led to its
\* grant, in all that was observed and is not excluded, whichever address is pinned,
\* wherever requests arrive from and however the requests, reviews and retries of other
\* processes interleave.  session.go:249-250, 266, signing_context.go:220-256.
THEOREM DeniedCases == Spec => []OnlyDeniedCasesSigned
<1>1. IInv => OnlyDeniedCasesSigned
  <2>. SUFFICES ASSUME IInv, NEW t \in Threads, basis[t] # NoBasis, NEW f \in Bound(basis[t])
                PROVE  IF f = "ip_address" THEN SituationOf(t)[f] = AddressOf(basis[t])
                       ELSE basis[t].denied[f] \in {Empty, SituationOf(t)[f]}
    BY DEF OnlyDeniedCasesSigned
  <2>1. Meant(basis[t]) /\ Covers(basis[t].scope, SituationOf(t))
    BY DEF IInv, BasisInv
  <2>2. basis[t] \in Ask  BY DEF IInv, TypeOK
  <2>. QED  BY <2>1, <2>2, CoveredAgrees
<1>. QED  BY <1>1, Invariance, PTL

\* Two requests that await review mean different things.  session.go:240, 250.
THEOREM NoDuplicates == Spec => []NoDuplicateRequests
<1>1. IInv => NoDuplicateRequests
  <2>. SUFFICES ASSUME IInv, NEW p \in pending, NEW q \in pending, Meaning(p) = Meaning(q)
                PROVE  p = q
    BY DEF NoDuplicateRequests
  <2>1. p \in Ask /\ q \in Ask /\ Meant(p) /\ Meant(q)  BY DEF IInv, TypeOK, AskInv
  <2>2. Same(p, q)  BY <2>1, MeaningIdentifies
  <2>. QED  BY <2>2 DEF IInv, AskInv
<1>. QED  BY <1>1, Invariance, PTL

\* The status and the log agree with what the server did, for every way in which
\* requests are refused or answers lost.  session.go:229-255, errors.go:73-80,
\* logging_windows.go:41-53, provider_windows.go:202-268, bridge_windows.c:83-87.
THEOREM LogTruthful == Spec => []LogTellsWhatHappened
BY Invariance, PTL DEF IInv

=============================================================================
