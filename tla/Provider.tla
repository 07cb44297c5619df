------------------------------ MODULE Provider ------------------------------
(***************************************************************************)
(* cmd/ksp: the handle registry and the CNG entry points of the provider,  *)
(* called by the threads of a host such as signtool.                       *)
(*                                                                         *)
(* A call looks its handle up under handleMu and then works on the object  *)
(* it found, without any lock: other threads may free the handle, or open  *)
(* new ones, while it waits for the server.  A key handle keeps the public *)
(* key that OpenKey saw; the Signer's certificate may be reissued later.   *)
(*                                                                         *)
(* Steps.  What a call does up to its first network call, or all of it if  *)
(* it makes none, is one step: it touches the registry once.               *)
(*                                                                         *)
(* Data.  A key is its family and size; a signature, a blob or a property  *)
(* value is its length in bytes.  The session (Session.tla) appears as the *)
(* outcomes of its calls.                                                  *)
(***************************************************************************)
EXTENDS Integers

CONSTANTS
    Threads,      \* the host's threads
    Names,        \* the Signers keys are opened for
    NoName,       \* "no Signer" (a provider object)
    Keys,         \* the keys certificates are issued for
    Reissues,     \* <<old, new>>: the changes of key a reissue may bring
    Buffers,      \* output buffer sizes a host may come up with by itself
    MaxHandle     \* bound: how many handles a run hands out

Family == {"RSA", "ECDSA", "other"}
Key == [type : Family, bits : Nat]
NoKey == [type |-> "other", bits |-> 0]

ASSUME NameAssumption == NoName \notin Names

ASSUME KeyAssumption ==
    /\ Keys \subseteq {k \in Key : k.bits > 0}
    /\ Reissues \subseteq Keys \X Keys

ASSUME BoundAssumption == MaxHandle \in Nat /\ Buffers \subseteq Nat

VARIABLES
    handles,      \* the registry: what each handle stands for
    nextHandle,   \* the next handle to give out
    pc,           \* the network call a thread waits for
    args,         \* the handle, the Signer's name and the buffer of its call
    obj,          \* the object its call works on
    last,         \* the status of the call that returned last
    certs,        \* server: per Signer the keys it has had; a cache may hold any
    cert,         \* server: per Signer the key it signs with now
    \* history
    host,         \* what the host may believe of a handle
    told,         \* the signature size reported for a handle, 0 for none
    signed        \* the signatures obtained

registryVars == <<handles, nextHandle>>
threadVars == <<pc, args, obj, last>>
serverVars == <<certs, cert>>
historyVars == <<host, told, signed>>
vars == <<registryVars, threadVars, serverVars, historyVars>>

-----------------------------------------------------------------------------
(* Types *)

Handles == 1 .. MaxHandle

Object == [kind : {"none", "provider", "key"}, name : Names \cup {NoName}, pub : Key]
NoObject == [kind |-> "none", name |-> NoName, pub |-> NoKey]
providerState == [kind |-> "provider", name |-> NoName, pub |-> NoKey]
keyState(name, pub) == [kind |-> "key", name |-> name, pub |-> pub]

Padding == {"none", "PKCS1", "PSS"}
Hashes == {"SHA256", "SHA384", "SHA512", "unknown"}

\* What can be asked of a key: the public blob or another blob; a property that is
\* a DWORD (Length, Export Policy, Key Usage), the two that are strings, another.
Queries == {"blob", "other blob", "DWORD", "Algorithm Group", "Algorithm Name", "other"}

Null == -1    \* pbOutput = NULL

Args == [h : Handles \cup {0}, name : Names \cup {NoName}, buf : Nat \cup {Null}]
NoArgs == [h |-> 0, name |-> NoName, buf |-> Null]

\* A signature: the handle and the Signer it was asked for, the family of the key, its
\* length, the host's buffer and what became of it.
Signature == [h : Handles, name : Names, type : Family, len : Nat, buf : Nat \cup {Null},
              status : {"SUCCESS", "BUFFER_TOO_SMALL"}]

Statuses == {"SUCCESS", "NOT_SUPPORTED", "PERM", "BAD_KEYSET", "INVALID_PARAMETER",
             "FAIL", "BUFFER_TOO_SMALL"}

\* One type for every variable.
TypeOK ==
    /\ handles \in [Handles -> Object]
    /\ nextHandle \in 1 .. MaxHandle + 1
    /\ pc \in [Threads -> {"idle", "find", "publickey", "sign"}]
    /\ args \in [Threads -> Args]
    /\ obj \in [Threads -> Object]
    /\ last \in Statuses
    /\ certs \in [Names -> SUBSET Keys]
    /\ cert \in [Names -> Keys]
    /\ host \in [Handles -> [state : {"never", "held", "freed"}, name : Names \cup {NoName}]]
    /\ told \in [Handles -> Nat]
    /\ signed \subseteq Signature

-----------------------------------------------------------------------------
(* Sizes, algorithms and status codes *)

Bytes(bits) == (bits + 7) \div 8

\* GoSignatureMaxSize
SignatureMaxSize(pub) == IF pub.type = "ECDSA" THEN 2 * Bytes(pub.bits) ELSE Bytes(pub.bits)

\* cng.Algorithm: is there a signing algorithm for this request?
Algorithm(type, padding, hash) ==
    /\ hash \in {"SHA256", "SHA384", "SHA512"}
    /\ type = "ECDSA" \/ (type = "RSA" /\ padding \in {"PKCS1", "PSS"})

\* Mutant of ECDSADERToRaw: r and s are padded to the longer of the two.
ECDSADERToRawUnpadded(n, curveBits) == IF n > Bytes(curveBits) THEN 0 ELSE 2 * n

\* cng.ECDSADERToRaw for a signature whose longer integer has n bytes: the length
\* of the result, 0 for an error.
ECDSADERToRaw(n, curveBits) == IF n > Bytes(curveBits) THEN 0 ELSE 2 * Bytes(curveBits)

\* The lengths of the public blobs, 0 for an error: CNG has no blob for a curve it
\* does not name.  An RSA key's public exponent takes three bytes.
Curves == {256, 384, 521}
RSAPublicBlob(pub) == 24 + 3 + Bytes(pub.bits)
ECCPublicBlob(pub) == IF pub.bits \in Curves THEN 8 + 2 * Bytes(pub.bits) ELSE 0
exportPublicBlob(pub) == IF pub.type = "RSA" THEN RSAPublicBlob(pub) ELSE ECCPublicBlob(pub)

utf16z(chars) == 2 * (chars + 1)
algorithmGroup(pub) == IF pub.type = "RSA" THEN 3 ELSE 5
algorithmName(pub) == IF pub.type = "ECDSA" /\ pub.bits \in Curves THEN 10 ELSE algorithmGroup(pub)

\* keyProperty: the length of the value, 0 for a property that is not supported.
keyProperty(pub, property) ==
    IF property = "DWORD" THEN 4
    ELSE IF property = "Algorithm Group" THEN utf16z(algorithmGroup(pub))
    ELSE IF property = "Algorithm Name" THEN utf16z(algorithmName(pub))
    ELSE 0

Answer(pub, query) ==
    IF query = "blob" THEN exportPublicBlob(pub) ELSE keyProperty(pub, query)

\* statusFromError on the errors a session returns.
Errors == {"403", "401", "404", "400", "other status", "no status"}

\* Mutant of statusFromError: codes without a mapping reach the host as they are.
statusFromErrorRaw(err) == IF err \in {"403", "401"} THEN "PERM" ELSE err

statusFromError(err) ==
    CASE err \in {"403", "401"} -> "PERM"
      [] err = "404" -> "BAD_KEYSET"
      [] err = "400" -> "INVALID_PARAMETER"
      [] OTHER -> "FAIL"

\* copyOut: the status, given the length of the data and the caller's buffer.
copyOut(len, buf) == IF buf # Null /\ buf < len THEN "BUFFER_TOO_SMALL" ELSE "SUCCESS"

-----------------------------------------------------------------------------
(* The handle registry *)

\* Mutant of registerHandle: the lowest handle that is free is used again.
registerHandleLowest(v, h) ==
    /\ handles[h] = NoObject /\ \A x \in Handles : x < h => handles[x] # NoObject
    /\ nextHandle <= MaxHandle
    /\ nextHandle' = nextHandle + 1
    /\ handles' = [handles EXCEPT ![h] = v]

\* registerHandle: h is what it returns.
registerHandle(v, h) ==
    /\ h = nextHandle
    /\ nextHandle' = nextHandle + 1
    /\ handles' = [handles EXCEPT ![h] = v]

lookupHandle(h) == handles[h]

freeHandle(h) == handles' = [handles EXCEPT ![h] = NoObject]

-----------------------------------------------------------------------------
(* Calls *)

Returns(status) == last' = status

\* ksp_OpenProvider and ksp_OpenKey return: the host gets the handle h, for a Signer or
\* none, with SUCCESS and nothing with any other status.
OpenReturns(status, h, name) ==
    /\ Returns(status)
    /\ host' = IF status = "SUCCESS"
               THEN [host EXCEPT ![h] = [state |-> "held", name |-> name]] ELSE host

\* ksp_FreeProvider and ksp_FreeKey return: the host has given h up.
FreeReturns(h) ==
    /\ Returns("SUCCESS")
    /\ host' = [host EXCEPT ![h] = IF @.state = "held"
                                   THEN [state |-> "freed", name |-> @.name] ELSE @]

\* A call that makes no network call.
AtOnce(t) == pc[t] = "idle" /\ UNCHANGED <<pc, args, obj>>

\* A call goes as far as its first network call, with the object it has looked up.
Wait(t, stage, a, v) ==
    /\ pc[t] = "idle"
    /\ pc' = [pc EXCEPT ![t] = stage]
    /\ args' = [args EXCEPT ![t] = a]
    /\ obj' = [obj EXCEPT ![t] = v]

\* The call of t is over.
Done(t) ==
    /\ pc' = [pc EXCEPT ![t] = "idle"]
    /\ args' = [args EXCEPT ![t] = NoArgs]
    /\ obj' = [obj EXCEPT ![t] = NoObject]

\* openProvider: the configuration and the session's TLS set-up may fail.
OpenProvider(t) ==
    /\ AtOnce(t)
    /\ \/ OpenReturns("FAIL", 0, NoName) /\ UNCHANGED registryVars
       \/ \E h \in Handles :
             registerHandle(providerState, h) /\ OpenReturns("SUCCESS", h, NoName)
    /\ UNCHANGED <<serverVars, told, signed>>

\* openKey, up to FindSigner.
OpenKey(t, h, name) ==
    /\ \/ /\ lookupHandle(h).kind # "provider"
          /\ AtOnce(t)
          /\ Returns("INVALID_PARAMETER")
       \/ /\ lookupHandle(h).kind = "provider"
          /\ Wait(t, "find", [h |-> h, name |-> name, buf |-> Null], lookupHandle(h))
          /\ UNCHANGED last
    /\ UNCHANGED <<registryVars, serverVars, historyVars>>

FindSigner(t) ==
    /\ pc[t] = "find"
    /\ pc' = [pc EXCEPT ![t] = "publickey"]
    /\ UNCHANGED <<args, obj, last, registryVars, serverVars, historyVars>>

\* Mutant of PublicKey: the key is registered before its family is looked at.
PublicKeyRegistersFirst(t) ==
    /\ pc[t] = "publickey"
    /\ Done(t)
    /\ \E pub \in certs[args[t].name], h \in Handles :
          /\ registerHandle(keyState(args[t].name, pub), h)
          /\ OpenReturns(IF pub.type = "other" THEN "FAIL" ELSE "SUCCESS", h, args[t].name)
    /\ UNCHANGED <<serverVars, told, signed>>

\* The session returns a key, possibly from its cache; the rest of openKey.
PublicKey(t) ==
    /\ pc[t] = "publickey"
    /\ Done(t)
    /\ \E pub \in certs[args[t].name] :
          \/ /\ pub.type = "other"
             /\ OpenReturns("FAIL", 0, NoName)
             /\ UNCHANGED registryVars
          \/ /\ pub.type # "other"
             /\ \E h \in Handles : /\ registerHandle(keyState(args[t].name, pub), h)
                                   /\ OpenReturns("SUCCESS", h, args[t].name)
    /\ UNCHANGED <<serverVars, told, signed>>

\* A session call of openKey or signHash fails.  The server may have signed.
SessionCallFails(t) ==
    /\ pc[t] \in {"find", "publickey", "sign"}
    /\ Done(t)
    /\ \E err \in Errors : Returns(statusFromError(err))
    /\ UNCHANGED <<registryVars, serverVars, historyVars>>

\* ExportKey and GetKeyProperty.  ExportKey turns down other blobs before it looks
\* at the handle.
Query(t, h, query, buf) ==
    LET len == Answer(lookupHandle(h).pub, query) IN
    /\ AtOnce(t)
    /\ \/ query = "other blob" /\ Returns("NOT_SUPPORTED")
       \/ /\ query # "other blob" /\ lookupHandle(h).kind # "key"
          /\ Returns("INVALID_PARAMETER")
       \/ /\ query # "other blob" /\ lookupHandle(h).kind = "key"
          /\ IF len = 0
             THEN Returns(IF query = "blob" THEN "FAIL" ELSE "NOT_SUPPORTED")
             ELSE Returns(copyOut(len, buf))
    /\ UNCHANGED <<registryVars, serverVars, historyVars>>

\* SignHash without a buffer: the size, without contacting the server.
SizingCall(t, h) ==
    LET size == SignatureMaxSize(lookupHandle(h).pub) IN
    /\ AtOnce(t)
    /\ \/ /\ lookupHandle(h).kind # "key"
          /\ Returns("INVALID_PARAMETER")
          /\ UNCHANGED told
       \/ /\ lookupHandle(h).kind = "key"
          /\ told' = [told EXCEPT ![h] = size]
          /\ Returns("SUCCESS")
    /\ UNCHANGED <<registryVars, serverVars, host, signed>>

\* Without padding the hash is inferred from the digest's length, or not at all.
NoHash(padding, hash) == padding = "none" /\ hash = "unknown"

\* SignHash with a buffer, up to the session's Sign.
SignHash(t, h, padding, hash, buf) ==
    LET supported == Algorithm(lookupHandle(h).pub.type, padding, hash) IN
    /\ \/ /\ lookupHandle(h).kind # "key" \/ NoHash(padding, hash)
          /\ AtOnce(t)
          /\ Returns("INVALID_PARAMETER")
       \/ /\ lookupHandle(h).kind = "key" /\ ~NoHash(padding, hash) /\ ~supported
          /\ AtOnce(t)
          /\ Returns("FAIL")
       \/ /\ lookupHandle(h).kind = "key" /\ supported
          /\ Wait(t, "sign", [h |-> h, name |-> NoName, buf |-> buf], lookupHandle(h))
          /\ UNCHANGED last
    /\ UNCHANGED <<registryVars, serverVars, historyVars>>

\* The signature t gets.
Obtained(t, len) ==
    [h |-> args[t].h, name |-> obj[t].name, type |-> obj[t].pub.type, len |-> len,
     buf |-> args[t].buf, status |-> copyOut(len, args[t].buf)]

\* The server signs with the key the Signer has now, which must be of the
\* requested family; signHash then reshapes an ECDSA signature.  The integers r
\* and s may be shorter than the curve.
SignatureArrives(t) ==
    LET now == cert[obj[t].name] IN
    /\ pc[t] = "sign"
    /\ now.type = obj[t].pub.type
    /\ Done(t)
    /\ \E n \in {Bytes(now.bits), Bytes(now.bits) - 1} :
          LET len == IF now.type = "ECDSA"
                     THEN ECDSADERToRaw(n, obj[t].pub.bits)
                     ELSE Bytes(now.bits)
          IN  IF len = 0
              THEN Returns("FAIL") /\ UNCHANGED signed
              ELSE /\ Returns(copyOut(len, args[t].buf))
                   /\ signed' = signed \cup {Obtained(t, len)}
    /\ UNCHANGED <<registryVars, serverVars, host, told>>

\* FreeProvider and FreeKey.
Free(t, h) ==
    /\ AtOnce(t)
    /\ freeHandle(h)
    /\ FreeReturns(h)
    /\ UNCHANGED <<nextHandle, serverVars, told, signed>>

-----------------------------------------------------------------------------
(* The server (external) *)

Reissue(name) ==
    \E new \in Keys :
        /\ <<cert[name], new>> \in Reissues
        /\ cert' = [cert EXCEPT ![name] = new]
        /\ certs' = [certs EXCEPT ![name] = @ \cup {new}]
        /\ UNCHANGED <<registryVars, threadVars, historyVars>>

-----------------------------------------------------------------------------
(* The specification *)

Init ==
    /\ handles = [h \in Handles |-> NoObject]
    /\ nextHandle = 1
    /\ pc = [t \in Threads |-> "idle"]
    /\ args = [t \in Threads |-> NoArgs]
    /\ obj = [t \in Threads |-> NoObject]
    /\ last = "SUCCESS"
    /\ cert \in [Names -> Keys]
    /\ certs = [n \in Names |-> {cert[n]}]
    /\ host = [h \in Handles |-> [state |-> "never", name |-> NoName]]
    /\ told = [h \in Handles |-> 0]
    /\ signed = {}

\* A buffer of the size the host was told, or of a size it made up.
HostBuffers(h) == Buffers \cup {told[h]}

Next ==
    \/ \E t \in Threads :
          \/ OpenProvider(t)
          \/ FindSigner(t) \/ PublicKey(t) \/ SessionCallFails(t) \/ SignatureArrives(t)
          \/ \E h \in Handles :
                \/ \E n \in Names : OpenKey(t, h, n)
                \/ \E q \in Queries, b \in HostBuffers(h) \cup {Null} : Query(t, h, q, b)
                \/ SizingCall(t, h)
                \/ \E p \in Padding, x \in Hashes, b \in HostBuffers(h) : SignHash(t, h, p, x, b)
                \/ Free(t, h)
    \/ \E n \in Names : Reissue(n)

Spec == Init /\ [][Next]_vars

-----------------------------------------------------------------------------
(* Properties *)

\* The registry holds exactly the handles that calls have returned to the host and
\* the host has not freed: an open that fails, at whatever step, leaves nothing
\* behind, and no handle dies but by being freed (keys survive their provider).
\* provider_windows.go:44-69, 72-113, bridge_windows.c:33-47.
RegistryMatchesHost ==
    \A h \in Handles : handles[h].kind # "none" <=> host[h].state = "held"

\* A signature obtained through a handle is one of the Signer the handle was
\* opened for, whatever was freed and opened since.  provider_windows.go:50-57,
\* 115-150.
SignsForItsOwnSigner ==
    \A s \in signed : host[s.h].state # "never" /\ host[s.h].name = s.name

\* A signature has the length the sizing call reports for its handle: "report the
\* exact signature size", bridge_windows.c:76.  The code does not keep this when an
\* RSA Signer is reissued with a modulus of another size.
SizingCallIsExact ==
    \A s \in signed : told[s.h] # 0 => s.len = told[s.h]

\* The Signer has had RSA keys of two sizes.
ModulusChanged(name) ==
    \E j, k \in certs[name] :
        j.type = "RSA" /\ k.type = "RSA" /\ Bytes(j.bits) # Bytes(k.bits)

\* The signature s is as a host expects that was told the size n: of that length, and
\* delivered if the host came with that much room.
AsTold(s, n) == s.len = n /\ (s.buf >= n => s.status = "SUCCESS")

\* A host that makes the sizing call first gets what it was told, and loses no
\* signature the server has made and counted for want of room.  The one exception
\* is an RSA signature of a Signer whose modulus has changed its size; a change of
\* curve or of family is none.  bridge_windows.c:18-30, 76-87,
\* bridge_windows.go:72-87, provider_windows.go:137-150, ecdsa.go:24-43.
SizedCallsSucceed ==
    \A s \in signed : told[s.h] # 0 =>
        AsTold(s, told[s.h]) \/ (s.type = "RSA" /\ ModulusChanged(s.name))

-----------------------------------------------------------------------------
(* The parts of the inductive invariant that ProviderProofs establishes *)

\* A handle not given out yet stands for nothing; a key is its handle's Signer's.
RegistryInv ==
    \A h \in Handles :
        /\ handles[h].kind # "none" <=> host[h].state = "held"
        /\ handles[h].kind = "key" => handles[h].name \in Names /\ handles[h].name = host[h].name
        /\ h >= nextHandle => host[h].state = "never"

\* A call that waits for a signature does so for the Signer of its handle.
CallInv ==
    \A t \in Threads :
        /\ pc[t] \in {"find", "publickey"} => args[t].name \in Names
        /\ pc[t] = "sign" => /\ args[t].h \in Handles
                             /\ obj[t].name \in Names
                             /\ host[args[t].h].state # "never"
                             /\ host[args[t].h].name = obj[t].name

=============================================================================
