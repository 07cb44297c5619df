--------------------------- MODULE ProviderProofs ---------------------------
(***************************************************************************)
(* Proofs about Provider.tla, for every number of threads, Signers and     *)
(* handles, every set of keys and every way of reissuing them.             *)
(*                                                                         *)
(* The invariant is IInv.  A registration takes a handle that nobody has   *)
(* seen (RegistryInv), so what the host knows of the handles it has been   *)
(* given never changes but from held to freed (Remembers).  A thread that  *)
(* waits for a signature relies on exactly that (CallInv), because it does *)
(* not look at the registry again when the signature arrives.              *)
(***************************************************************************)
EXTENDS Provider, TLAPS

IInv == TypeOK /\ RegistryInv /\ CallInv /\ SignsForItsOwnSigner

\* A handle the host has been given keeps its Signer, also once it is freed.
Remembers ==
    \A h \in Handles : host[h].state # "never" =>
        host'[h].state # "never" /\ host'[h].name = host[h].name

RegistryTypeOK ==
    /\ handles \in [Handles -> Object]
    /\ nextHandle \in 1 .. MaxHandle + 1
    /\ host \in [Handles -> [state : {"never", "held", "freed"}, name : Names \cup {NoName}]]

ThreadTypeOK ==
    /\ pc \in [Threads -> {"idle", "find", "publickey", "sign"}]
    /\ args \in [Threads -> Args]
    /\ obj \in [Threads -> Object]

ResultTypeOK == last \in Statuses

ServerTypeOK ==
    /\ certs \in [Names -> SUBSET Keys]
    /\ cert \in [Names -> Keys]

HistoryTypeOK ==
    /\ told \in [Handles -> Nat]
    /\ signed \subseteq Signature

LEMMA TypeParts ==
    TypeOK <=> RegistryTypeOK /\ ThreadTypeOK /\ ResultTypeOK /\ ServerTypeOK /\ HistoryTypeOK
BY Zenon DEF TypeOK, RegistryTypeOK, ThreadTypeOK, ResultTypeOK, ServerTypeOK, HistoryTypeOK

-----------------------------------------------------------------------------
(* Lengths and status codes *)

\* A key's size in bytes, a signature and a blob are natural numbers.
LEMMA BytesNat == ASSUME NEW n \in Nat PROVE Bytes(n) \in Nat
BY DEF Bytes

LEMMA SizeNat == ASSUME NEW k \in Key PROVE SignatureMaxSize(k) \in Nat
<1>1. k.bits \in Nat  BY DEF Key
<1>2. Bytes(k.bits) \in Nat  BY <1>1, BytesNat
<1>. QED  BY <1>2 DEF SignatureMaxSize

LEMMA AnswerNat == ASSUME NEW k \in Key, NEW q \in Queries PROVE Answer(k, q) \in Nat
<1>1. k.bits \in Nat  BY DEF Key
<1>2. Bytes(k.bits) \in Nat  BY <1>1, BytesNat
<1>. QED
  BY <1>2 DEF Answer, exportPublicBlob, RSAPublicBlob, ECCPublicBlob, keyProperty,
             algorithmGroup, algorithmName, utf16z

LEMMA RawNat == ASSUME NEW n \in Int, NEW b \in Nat PROVE ECDSADERToRaw(n, b) \in Nat
<1>1. Bytes(b) \in Nat  BY BytesNat
<1>. QED  BY <1>1 DEF ECDSADERToRaw

LEMMA CopyOutStatus ==
    ASSUME NEW len \in Nat, NEW buf \in Nat \cup {Null}
    PROVE  /\ copyOut(len, buf) \in Statuses
           /\ copyOut(len, buf) \in {"SUCCESS", "BUFFER_TOO_SMALL"}
           /\ buf >= len => copyOut(len, buf) = "SUCCESS"
BY DEF copyOut, Statuses, Null

\* An error of the session never looks like a success.
LEMMA ErrorStatus ==
    ASSUME NEW err \in Errors
    PROVE  statusFromError(err) \in Statuses \ {"SUCCESS"}
BY DEF Errors, statusFromError, Statuses

-----------------------------------------------------------------------------
(* The registry *)

LEMMA ObjectTypes ==
    /\ NoObject \in Object /\ NoObject.kind = "none"
    /\ providerState \in Object /\ providerState.kind = "provider"
    /\ providerState.name = NoName
    /\ \A n \in Names, k \in Key :
          /\ keyState(n, k) \in Object
          /\ keyState(n, k).kind = "key" /\ keyState(n, k).name = n
BY DEF Object, NoObject, providerState, keyState, Key, NoKey, Family

\* A call that registers an object and returns its handle with SUCCESS.
LEMMA RegisterStep ==
    ASSUME RegistryTypeOK, RegistryInv,
           NEW v \in Object, v.kind # "none", v.kind = "key" => v.name \in Names,
           NEW h \in Handles, registerHandle(v, h), OpenReturns("SUCCESS", h, v.name)
    PROVE  RegistryTypeOK' /\ RegistryInv' /\ Remembers
<1>1. nextHandle \in Handles /\ MaxHandle \in Nat /\ h = nextHandle
  BY BoundAssumption DEF RegistryTypeOK, registerHandle
<1>2. /\ handles' = [handles EXCEPT ![nextHandle] = v]
      /\ nextHandle' = nextHandle + 1
      /\ host' = [host EXCEPT ![nextHandle] = [state |-> "held", name |-> v.name]]
  BY <1>1 DEF registerHandle, OpenReturns
<1>3. v.name \in Names \cup {NoName}  BY DEF Object
<1>4. RegistryTypeOK'
  BY <1>1, <1>2, <1>3 DEF RegistryTypeOK, Handles
<1>5. host[nextHandle].state = "never"
  BY <1>1 DEF RegistryInv, RegistryTypeOK, Handles
<1>6. Remembers
  BY <1>1, <1>2, <1>5 DEF RegistryTypeOK, Remembers
<1>7. ASSUME NEW x \in Handles
      PROVE  /\ handles'[x].kind # "none" <=> host'[x].state = "held"
             /\ handles'[x].kind = "key" =>
                   handles'[x].name \in Names /\ handles'[x].name = host'[x].name
             /\ x >= nextHandle' => host'[x].state = "never"
  <2>1. CASE x = nextHandle
    <3>1. handles'[x] = v /\ host'[x] = [state |-> "held", name |-> v.name]
      BY <1>1, <1>2, <2>1 DEF RegistryTypeOK
    <3>2. ~(x >= nextHandle')
      BY <1>1, <1>2, <2>1 DEF RegistryTypeOK, Handles
    <3>. QED  BY <3>1, <3>2
  <2>2. CASE x # nextHandle
    <3>1. handles'[x] = handles[x] /\ host'[x] = host[x]
      BY <1>1, <1>2, <2>2 DEF RegistryTypeOK
    <3>2. x >= nextHandle' => x >= nextHandle
      BY <1>1, <1>2, <2>2 DEF RegistryTypeOK, Handles
    <3>. QED  BY <3>1, <3>2 DEF RegistryInv
  <2>. QED  BY <2>1, <2>2
<1>. QED  BY <1>4, <1>6, <1>7 DEF RegistryInv

LEMMA FreeStep ==
    ASSUME RegistryTypeOK, RegistryInv, NEW h \in Handles, freeHandle(h), FreeReturns(h),
           UNCHANGED nextHandle
    PROVE  RegistryTypeOK' /\ RegistryInv' /\ Remembers
<1>1. handles' = [handles EXCEPT ![h] = NoObject]
  BY DEF freeHandle
<1>2. host' = [host EXCEPT ![h] = IF host[h].state = "held"
                                  THEN [state |-> "freed", name |-> host[h].name]
                                  ELSE host[h]]
  BY DEF FreeReturns
<1>3. RegistryTypeOK'
  BY <1>1, <1>2, ObjectTypes DEF RegistryTypeOK
<1>4. Remembers
  BY <1>2 DEF Remembers, RegistryTypeOK
<1>5. ASSUME NEW x \in Handles
      PROVE  /\ handles'[x].kind # "none" <=> host'[x].state = "held"
             /\ handles'[x].kind = "key" =>
                   handles'[x].name \in Names /\ handles'[x].name = host'[x].name
             /\ x >= nextHandle' => host'[x].state = "never"
  BY <1>1, <1>2, ObjectTypes DEF RegistryTypeOK, RegistryInv
<1>. QED  BY <1>3, <1>4, <1>5 DEF RegistryInv

LEMMA RegistryIdle ==
    ASSUME RegistryTypeOK, RegistryInv, UNCHANGED <<registryVars, host>>
    PROVE  RegistryTypeOK' /\ RegistryInv' /\ Remembers
BY DEF RegistryTypeOK, RegistryInv, Remembers, registryVars

-----------------------------------------------------------------------------
(* Calls *)

\* A thread that returns, or stays where it is, relies on no more than before.
LEMMA DoneStep ==
    ASSUME ThreadTypeOK, CallInv, Remembers, NEW t \in Threads, Done(t)
    PROVE  ThreadTypeOK' /\ CallInv'
<1>1. NoArgs \in Args  BY DEF NoArgs, Args, Null
<1>2. ThreadTypeOK'  BY <1>1, ObjectTypes DEF ThreadTypeOK, Done
<1>3. CallInv'  BY DEF CallInv, Done, ThreadTypeOK, Remembers
<1>. QED  BY <1>2, <1>3

LEMMA AtOnceStep ==
    ASSUME ThreadTypeOK, CallInv, Remembers, UNCHANGED <<pc, args, obj>>
    PROVE  ThreadTypeOK' /\ CallInv'
BY DEF ThreadTypeOK, CallInv, Remembers

LEMMA WaitStep ==
    ASSUME ThreadTypeOK, CallInv, Remembers,
           NEW t \in Threads, NEW stage \in {"find", "sign"}, NEW a \in Args, NEW v \in Object,
           Wait(t, stage, a, v),
           stage = "find" => a.name \in Names,
           stage = "sign" => /\ a.h \in Handles
                             /\ v.name \in Names
                             /\ host[a.h].state # "never"
                             /\ host[a.h].name = v.name
    PROVE  ThreadTypeOK' /\ CallInv'
<1>1. ThreadTypeOK'  BY DEF ThreadTypeOK, Wait
<1>2. CallInv'  BY DEF CallInv, Wait, ThreadTypeOK, Remembers
<1>. QED  BY <1>1, <1>2

\* Signatures already obtained stay the right Signer's.
LEMMA SignedKept ==
    ASSUME HistoryTypeOK, SignsForItsOwnSigner, Remembers, UNCHANGED signed
    PROVE  SignsForItsOwnSigner'
<1>1. \A s \in signed : s.h \in Handles  BY DEF HistoryTypeOK, Signature
<1>. QED  BY <1>1 DEF SignsForItsOwnSigner, Remembers

-----------------------------------------------------------------------------
(* The invariant *)

LEMMA ReturnsType ==
    ASSUME NEW st \in Statuses, Returns(st)
    PROVE  ResultTypeOK'
BY DEF Returns, ResultTypeOK

\* The parts of IInv, each on its own; what an action leaves alone is kept.
LEMMA ServerIdle ==
    ASSUME ServerTypeOK, UNCHANGED serverVars
    PROVE  ServerTypeOK'
BY DEF ServerTypeOK, serverVars

LEMMA HistoryIdle ==
    ASSUME HistoryTypeOK, UNCHANGED <<told, signed>>
    PROVE  HistoryTypeOK'
BY DEF HistoryTypeOK

LEMMA KeysAreKeys == Keys \subseteq Key
BY KeyAssumption

\* What a thread finds under a handle.
LEMMA Looked ==
    ASSUME RegistryTypeOK, RegistryInv, NEW h \in Handles
    PROVE  /\ lookupHandle(h) \in Object
           /\ lookupHandle(h).pub \in Key
           /\ lookupHandle(h).kind = "key" =>
                 /\ lookupHandle(h).name \in Names
                 /\ host[h].state # "never"
                 /\ host[h].name = lookupHandle(h).name
BY DEF RegistryTypeOK, RegistryInv, lookupHandle, Object

\* What a thread gets when its signature arrives: an error, or the signature, whose
\* length is that of the object's curve, or of the modulus the server signs with.
LEMMA SignatureLength ==
    ASSUME RegistryTypeOK, ThreadTypeOK, ServerTypeOK, CallInv,
           NEW t \in Threads, SignatureArrives(t)
    PROVE  \/ Returns("FAIL") /\ UNCHANGED signed
           \/ \E len \in Nat :
                 /\ Returns(copyOut(len, args[t].buf))
                 /\ signed' = signed \cup {Obtained(t, len)}
                 /\ len = IF obj[t].pub.type = "ECDSA" THEN SignatureMaxSize(obj[t].pub)
                          ELSE Bytes(cert[obj[t].name].bits)
<1> DEFINE now == cert[obj[t].name]
           length(n) == IF now.type = "ECDSA" THEN ECDSADERToRaw(n, obj[t].pub.bits)
                                              ELSE Bytes(now.bits)
<1>1. obj[t].name \in Names
  BY DEF CallInv, SignatureArrives
<1>2. now.bits \in Nat /\ obj[t].pub.bits \in Nat
  BY <1>1, KeysAreKeys DEF ServerTypeOK, ThreadTypeOK, Key, Object
<1>3. Bytes(now.bits) \in Nat /\ Bytes(obj[t].pub.bits) \in Nat  BY <1>2, BytesNat
<1>4. now.type = obj[t].pub.type
  BY DEF SignatureArrives
<1>5. PICK n \in {Bytes(now.bits), Bytes(now.bits) - 1} :
          IF length(n) = 0
          THEN Returns("FAIL") /\ UNCHANGED signed
          ELSE /\ Returns(copyOut(length(n), args[t].buf))
               /\ signed' = signed \cup {Obtained(t, length(n))}
  BY DEF SignatureArrives
<1>6. n \in Int  BY <1>3
<1>7. length(n) # 0 =>
        /\ length(n) \in Nat
        /\ length(n) = IF obj[t].pub.type = "ECDSA" THEN SignatureMaxSize(obj[t].pub)
                                                    ELSE Bytes(now.bits)
  BY <1>3, <1>4, <1>6 DEF ECDSADERToRaw, SignatureMaxSize
<1>. HIDE DEF length
<1>. QED  BY <1>5, <1>7

LEMMA InvInit == Init => IInv
<1>. SUFFICES ASSUME Init PROVE IInv  OBVIOUS
<1>0. MaxHandle \in Nat  BY BoundAssumption
<1>1. RegistryTypeOK  BY <1>0, ObjectTypes DEF Init, RegistryTypeOK
<1>2. ThreadTypeOK
  <2>1. NoArgs \in Args  BY DEF NoArgs, Args, Null
  <2>. QED  BY <2>1, ObjectTypes DEF Init, ThreadTypeOK
<1>3. ResultTypeOK  BY DEF Init, ResultTypeOK, Statuses
<1>4. ServerTypeOK  BY DEF Init, ServerTypeOK
<1>5. HistoryTypeOK  BY DEF Init, HistoryTypeOK
<1>6. RegistryInv  BY ObjectTypes DEF Init, RegistryInv
<1>7. CallInv  BY DEF Init, CallInv
<1>8. SignsForItsOwnSigner  BY DEF Init, SignsForItsOwnSigner
<1>. QED  BY <1>1, <1>2, <1>3, <1>4, <1>5, <1>6, <1>7, <1>8, TypeParts DEF IInv

LEMMA InvStep == IInv /\ [Next]_vars => IInv'
<1>. SUFFICES ASSUME IInv, [Next]_vars
              PROVE  /\ RegistryTypeOK' /\ RegistryInv'
                     /\ ThreadTypeOK' /\ CallInv'
                     /\ ResultTypeOK' /\ ServerTypeOK' /\ HistoryTypeOK'
                     /\ SignsForItsOwnSigner'
  <2>1. TypeOK' <=> RegistryTypeOK' /\ ThreadTypeOK' /\ ResultTypeOK' /\ ServerTypeOK'
                       /\ HistoryTypeOK'
    BY Zenon DEF TypeOK, RegistryTypeOK, ThreadTypeOK, ResultTypeOK, ServerTypeOK,
                 HistoryTypeOK
  <2>. QED  BY <2>1 DEF IInv
<1>0. /\ RegistryTypeOK /\ RegistryInv
      /\ ThreadTypeOK /\ CallInv
      /\ ResultTypeOK /\ ServerTypeOK /\ HistoryTypeOK
      /\ SignsForItsOwnSigner
  BY TypeParts DEF IInv
<1>s. {"SUCCESS", "FAIL", "INVALID_PARAMETER", "NOT_SUPPORTED"} \subseteq Statuses
  BY DEF Statuses
<1>1. ASSUME NEW t \in Threads, OpenProvider(t)
      PROVE  /\ RegistryTypeOK' /\ RegistryInv' /\ Remembers
             /\ UNCHANGED <<pc, args, obj, serverVars, told, signed>> /\ ResultTypeOK'
  <2>1. CASE OpenReturns("FAIL", 0, NoName) /\ UNCHANGED registryVars
    BY <1>0, <1>1, <1>s, <2>1, RegistryIdle, ReturnsType DEF OpenProvider, OpenReturns, AtOnce
  <2>2. ASSUME NEW h \in Handles, registerHandle(providerState, h),
               OpenReturns("SUCCESS", h, NoName)
        PROVE  RegistryTypeOK' /\ RegistryInv' /\ Remembers /\ ResultTypeOK'
    <3>1. RegistryTypeOK' /\ RegistryInv' /\ Remembers
      BY <1>0, <2>2, ObjectTypes, RegisterStep
    <3>. QED  BY <1>s, <2>2, <3>1, ReturnsType DEF OpenReturns
  <2>. QED  BY <1>1, <2>1, <2>2 DEF OpenProvider, AtOnce
<1>2. ASSUME NEW t \in Threads, NEW h \in Handles, NEW n \in Names, OpenKey(t, h, n)
      PROVE  /\ UNCHANGED <<registryVars, serverVars, historyVars>>
             /\ ThreadTypeOK' /\ CallInv' /\ ResultTypeOK'
  <2>0. UNCHANGED <<registryVars, serverVars, historyVars>> /\ Remembers
    BY <1>0, <1>2, RegistryIdle DEF OpenKey, historyVars
  <2>1. CASE AtOnce(t) /\ Returns("INVALID_PARAMETER")
    BY <1>0, <1>s, <2>0, <2>1, AtOnceStep, ReturnsType DEF AtOnce
  <2>2. CASE /\ Wait(t, "find", [h |-> h, name |-> n, buf |-> Null], lookupHandle(h))
             /\ UNCHANGED last
    <3>1. [h |-> h, name |-> n, buf |-> Null] \in Args  BY DEF Args
    <3>2. ThreadTypeOK' /\ CallInv'
      BY <1>0, <2>0, <2>2, <3>1, Looked, WaitStep
    <3>3. ResultTypeOK'  BY <1>0, <2>2 DEF ResultTypeOK
    <3>. QED  BY <2>0, <3>2, <3>3
  <2>. QED  BY <1>2, <2>1, <2>2 DEF OpenKey
<1>3. ASSUME NEW t \in Threads, FindSigner(t)
      PROVE  /\ UNCHANGED <<registryVars, serverVars, historyVars>>
             /\ ThreadTypeOK' /\ CallInv' /\ ResultTypeOK'
  <2>1. ThreadTypeOK'  BY <1>0, <1>3 DEF ThreadTypeOK, FindSigner
  <2>2. CallInv'
    BY <1>0, <1>3 DEF ThreadTypeOK, FindSigner, CallInv, historyVars
  <2>3. ResultTypeOK'  BY <1>0, <1>3 DEF ResultTypeOK, FindSigner
  <2>. QED  BY <1>3, <2>1, <2>2, <2>3 DEF FindSigner
<1>4. ASSUME NEW t \in Threads, PublicKey(t)
      PROVE  /\ RegistryTypeOK' /\ RegistryInv' /\ Remembers
             /\ Done(t) /\ UNCHANGED <<serverVars, told, signed>> /\ ResultTypeOK'
  <2>0. args[t].name \in Names
    BY <1>0, <1>4 DEF CallInv, PublicKey
  <2>1. PICK pub \in certs[args[t].name] :
          \/ /\ OpenReturns("FAIL", 0, NoName)
             /\ UNCHANGED registryVars
          \/ \E h \in Handles : /\ registerHandle(keyState(args[t].name, pub), h)
                                /\ OpenReturns("SUCCESS", h, args[t].name)
    BY <1>4 DEF PublicKey
  <2>2. pub \in Key
    BY <1>0, <2>0, <2>1, KeysAreKeys DEF ServerTypeOK
  <2>3. CASE OpenReturns("FAIL", 0, NoName) /\ UNCHANGED registryVars
    BY <1>0, <1>4, <1>s, <2>3, RegistryIdle, ReturnsType DEF PublicKey, OpenReturns
  <2>4. ASSUME NEW h \in Handles, registerHandle(keyState(args[t].name, pub), h),
               OpenReturns("SUCCESS", h, args[t].name)
        PROVE  RegistryTypeOK' /\ RegistryInv' /\ Remembers /\ ResultTypeOK'
    <3>1. /\ keyState(args[t].name, pub) \in Object
          /\ keyState(args[t].name, pub).kind = "key"
          /\ keyState(args[t].name, pub).name = args[t].name
      BY <2>0, <2>2, ObjectTypes
    <3>2. RegistryTypeOK' /\ RegistryInv' /\ Remembers
      BY <1>0, <2>0, <2>4, <3>1, RegisterStep
    <3>. QED  BY <1>s, <2>4, <3>2, ReturnsType DEF OpenReturns
  <2>. QED  BY <1>4, <2>1, <2>3, <2>4 DEF PublicKey
<1>5. ASSUME NEW t \in Threads, SessionCallFails(t)
      PROVE  UNCHANGED <<registryVars, serverVars, historyVars>> /\ Done(t) /\ ResultTypeOK'
  <2>1. PICK err \in Errors : Returns(statusFromError(err))
    BY <1>5 DEF SessionCallFails
  <2>2. ResultTypeOK'  BY <2>1, ErrorStatus, ReturnsType
  <2>. QED  BY <1>5, <2>2 DEF SessionCallFails
<1>6. ASSUME NEW t \in Threads, NEW h \in Handles, NEW q \in Queries,
             NEW b \in Nat \cup {Null}, Query(t, h, q, b)
      PROVE  UNCHANGED <<registryVars, pc, args, obj, serverVars, historyVars>> /\ ResultTypeOK'
  <2> DEFINE len == Answer(lookupHandle(h).pub, q)
  <2>1. len \in Nat  BY <1>0, Looked, AnswerNat
  <2>2. copyOut(len, b) \in Statuses  BY <2>1, CopyOutStatus
  <2>3. \E st \in Statuses : Returns(st)
    <3>1. CASE Returns("NOT_SUPPORTED")  BY <1>s, <3>1
    <3>2. CASE Returns("INVALID_PARAMETER")  BY <1>s, <3>2
    <3>3. CASE Returns("FAIL")  BY <1>s, <3>3
    <3>4. CASE Returns(copyOut(len, b))  BY <2>1, <2>2, <3>4
    <3>. QED  BY <1>6, <3>1, <3>2, <3>3, <3>4 DEF Query
  <2>4. ResultTypeOK'  BY <2>3, ReturnsType
  <2>. QED  BY <1>6, <2>4 DEF Query, AtOnce
<1>7. ASSUME NEW t \in Threads, NEW h \in Handles, SizingCall(t, h)
      PROVE  /\ UNCHANGED <<registryVars, pc, args, obj, serverVars, host, signed>>
             /\ ResultTypeOK' /\ HistoryTypeOK'
  <2> DEFINE size == SignatureMaxSize(lookupHandle(h).pub)
  <2>1. size \in Nat  BY <1>0, Looked, SizeNat
  <2>2. CASE Returns("INVALID_PARAMETER") /\ UNCHANGED told
    BY <1>0, <1>7, <1>s, <2>2, ReturnsType DEF SizingCall, AtOnce, HistoryTypeOK
  <2>3. CASE told' = [told EXCEPT ![h] = size] /\ Returns("SUCCESS")
    <3>1. HistoryTypeOK'  BY <1>0, <1>7, <2>1, <2>3 DEF SizingCall, HistoryTypeOK
    <3>. QED  BY <1>7, <1>s, <2>1, <2>3, <3>1, ReturnsType DEF SizingCall, AtOnce
  <2>. QED  BY <1>7, <2>2, <2>3 DEF SizingCall
<1>8. ASSUME NEW t \in Threads, NEW h \in Handles, NEW p \in Padding, NEW x \in Hashes,
             NEW b \in Nat, SignHash(t, h, p, x, b)
      PROVE  /\ UNCHANGED <<registryVars, serverVars, historyVars>>
             /\ ThreadTypeOK' /\ CallInv' /\ ResultTypeOK'
  <2>0. UNCHANGED <<registryVars, serverVars, historyVars>> /\ Remembers
    BY <1>0, <1>8, RegistryIdle DEF SignHash, historyVars
  <2>1. ASSUME NEW st \in {"INVALID_PARAMETER", "FAIL"}, AtOnce(t), Returns(st)
        PROVE  ThreadTypeOK' /\ CallInv' /\ ResultTypeOK'
    BY <1>0, <1>s, <2>0, <2>1, AtOnceStep, ReturnsType DEF AtOnce
  <2>2. CASE /\ lookupHandle(h).kind = "key"
             /\ Wait(t, "sign", [h |-> h, name |-> NoName, buf |-> b], lookupHandle(h))
             /\ UNCHANGED last
    <3>1. [h |-> h, name |-> NoName, buf |-> b] \in Args  BY DEF Args
    <3>2. ThreadTypeOK' /\ CallInv'
      BY <1>0, <2>0, <2>2, <3>1, Looked, WaitStep
    <3>3. ResultTypeOK'  BY <1>0, <2>2 DEF ResultTypeOK
    <3>. QED  BY <2>0, <3>2, <3>3
  <2>. QED  BY <1>8, <2>0, <2>1, <2>2 DEF SignHash
<1>9. ASSUME NEW t \in Threads, SignatureArrives(t)
      PROVE  /\ UNCHANGED <<registryVars, serverVars, host, told>> /\ Done(t)
             /\ ResultTypeOK' /\ HistoryTypeOK' /\ SignsForItsOwnSigner'
  <2>0. UNCHANGED <<registryVars, serverVars, host, told>> /\ Done(t)
    BY <1>9 DEF SignatureArrives
  <2>1. /\ args[t].h \in Handles /\ obj[t].name \in Names
        /\ host[args[t].h].state # "never" /\ host[args[t].h].name = obj[t].name
    BY <1>0, <1>9 DEF CallInv, SignatureArrives
  <2>2. args[t].buf \in Nat \cup {Null} /\ obj[t].pub.type \in Family
    BY <1>0 DEF ThreadTypeOK, Args, Object, Key
  <2>3. CASE Returns("FAIL") /\ UNCHANGED signed
    <3>1. ResultTypeOK'  BY <1>s, <2>3, ReturnsType
    <3>2. HistoryTypeOK' /\ SignsForItsOwnSigner'
      BY <1>0, <2>0, <2>3 DEF HistoryTypeOK, SignsForItsOwnSigner
    <3>. QED  BY <2>0, <3>1, <3>2
  <2>4. ASSUME NEW len \in Nat, Returns(copyOut(len, args[t].buf)),
               signed' = signed \cup {Obtained(t, len)}
        PROVE  ResultTypeOK' /\ HistoryTypeOK' /\ SignsForItsOwnSigner'
    <3>1. /\ copyOut(len, args[t].buf) \in Statuses
          /\ copyOut(len, args[t].buf) \in {"SUCCESS", "BUFFER_TOO_SMALL"}
      BY <2>2, CopyOutStatus
    <3>2. ResultTypeOK'  BY <2>4, <3>1, ReturnsType
    <3>3. Obtained(t, len) \in Signature
      BY <2>1, <2>2, <3>1 DEF Obtained, Signature
    <3>4. HistoryTypeOK'
      BY <1>0, <2>0, <2>4, <3>3 DEF HistoryTypeOK
    <3>5. SignsForItsOwnSigner'
      BY <1>0, <2>0, <2>1, <2>4 DEF SignsForItsOwnSigner, Obtained
    <3>. QED  BY <3>2, <3>4, <3>5
  <2>. QED  BY <1>0, <1>9, <2>0, <2>3, <2>4, SignatureLength
<1>10. ASSUME NEW t \in Threads, NEW h \in Handles, Free(t, h)
       PROVE  /\ RegistryTypeOK' /\ RegistryInv' /\ Remembers
              /\ UNCHANGED <<pc, args, obj, serverVars, told, signed>> /\ ResultTypeOK'
  <2>1. RegistryTypeOK' /\ RegistryInv' /\ Remembers
    BY <1>0, <1>10, FreeStep DEF Free
  <2>2. ResultTypeOK'  BY <1>10, <1>s, ReturnsType DEF Free, FreeReturns
  <2>. QED  BY <1>10, <2>1, <2>2 DEF Free, AtOnce
<1>11. ASSUME NEW n \in Names, Reissue(n)
       PROVE  UNCHANGED <<registryVars, threadVars, historyVars>> /\ ServerTypeOK'
  BY <1>0, <1>11 DEF Reissue, ServerTypeOK
<1>12. ASSUME UNCHANGED <<registryVars, historyVars>>
       PROVE  /\ RegistryTypeOK' /\ RegistryInv' /\ Remembers
              /\ HistoryTypeOK' /\ SignsForItsOwnSigner'
  BY <1>0, <1>12, RegistryIdle, HistoryIdle, SignedKept DEF historyVars
<1>13. ASSUME NEW h \in Handles
       PROVE  HostBuffers(h) \subseteq Nat
  BY <1>0, <1>13, BoundAssumption DEF HostBuffers, HistoryTypeOK
<1>. QED
  <2>1. CASE \E t \in Threads : OpenProvider(t)
    BY <1>0, <1>1, <2>1, AtOnceStep, ServerIdle, HistoryIdle, SignedKept
  <2>2. CASE \E t \in Threads, h \in Handles, n \in Names : OpenKey(t, h, n)
    BY <1>0, <1>2, <1>12, <2>2, ServerIdle
  <2>3. CASE \E t \in Threads : FindSigner(t)
    BY <1>0, <1>3, <1>12, <2>3, ServerIdle
  <2>4. CASE \E t \in Threads : PublicKey(t)
    BY <1>0, <1>4, <2>4, DoneStep, ServerIdle, HistoryIdle, SignedKept
  <2>5. CASE \E t \in Threads : SessionCallFails(t)
    BY <1>0, <1>5, <1>12, <2>5, DoneStep, ServerIdle
  <2>6. CASE \E t \in Threads, h \in Handles :
                \E q \in Queries, b \in HostBuffers(h) \cup {Null} : Query(t, h, q, b)
    <3>1. PICK t \in Threads, h \in Handles :
                \E q \in Queries, b \in HostBuffers(h) \cup {Null} : Query(t, h, q, b)
      BY <2>6
    <3>2. UNCHANGED <<registryVars, pc, args, obj, serverVars, historyVars>> /\ ResultTypeOK'
      BY <1>6, <1>13, <3>1
    <3>. QED  BY <1>0, <1>12, <3>2, AtOnceStep, ServerIdle
  <2>7. CASE \E t \in Threads, h \in Handles : SizingCall(t, h)
    BY <1>0, <1>7, <2>7, RegistryIdle, AtOnceStep, ServerIdle, SignedKept
  <2>8. CASE \E t \in Threads, h \in Handles :
                \E p \in Padding, x \in Hashes, b \in HostBuffers(h) : SignHash(t, h, p, x, b)
    <3>1. PICK t \in Threads, h \in Handles :
                \E p \in Padding, x \in Hashes, b \in HostBuffers(h) : SignHash(t, h, p, x, b)
      BY <2>8
    <3>2. /\ UNCHANGED <<registryVars, serverVars, historyVars>>
          /\ ThreadTypeOK' /\ CallInv' /\ ResultTypeOK'
      BY <1>8, <1>13, <3>1
    <3>. QED  BY <1>0, <1>12, <3>2, ServerIdle
  <2>9. CASE \E t \in Threads : SignatureArrives(t)
    BY <1>0, <1>9, <2>9, RegistryIdle, DoneStep, ServerIdle
  <2>10. CASE \E t \in Threads, h \in Handles : Free(t, h)
    BY <1>0, <1>10, <2>10, AtOnceStep, ServerIdle, HistoryIdle, SignedKept
  <2>11. CASE \E n \in Names : Reissue(n)
    <3>1. UNCHANGED <<registryVars, threadVars, historyVars>> /\ ServerTypeOK'
      BY <1>11, <2>11
    <3>2. ThreadTypeOK' /\ CallInv' /\ ResultTypeOK'
      BY <1>0, <1>12, <3>1, AtOnceStep DEF threadVars, ResultTypeOK
    <3>. QED  BY <1>12, <3>1, <3>2
  <2>12. CASE UNCHANGED vars
    <3>1. UNCHANGED <<registryVars, threadVars, serverVars, historyVars>>
      BY <2>12 DEF vars
    <3>2. ThreadTypeOK' /\ CallInv' /\ ResultTypeOK'
      BY <1>0, <1>12, <3>1, AtOnceStep DEF threadVars, ResultTypeOK
    <3>. QED  BY <1>0, <1>12, <3>1, <3>2, ServerIdle
  <2>. QED
    BY <2>1, <2>2, <2>3, <2>4, <2>5, <2>6, <2>7, <2>8, <2>9, <2>10, <2>11, <2>12 DEF Next

LEMMA Invariance == Spec => []IInv
<1>1. IInv /\ [Next]_vars => IInv'  BY InvStep
<1>. QED  BY <1>1, InvInit, PTL DEF Spec

-----------------------------------------------------------------------------
(* Sizes *)

\* h stands for the key k: in the registry, or for a call that has looked it up.
Stands(h, k) ==
    \/ handles[h].kind = "key" /\ k = handles[h].pub
    \/ \E t \in Threads : pc[t] = "sign" /\ args[t].h = h /\ k = obj[t].pub

\* What SizedCallsSucceed says of a signature s and a size n.
Exact(s, n) == AsTold(s, n) \/ (s.type = "RSA" /\ ModulusChanged(s.name))

\* A handle stands for one key; the size told and the signatures are that key's.
OneKey == \A h \in Handles : \A j, k \in Key : Stands(h, j) /\ Stands(h, k) => j = k

ToldSize ==
    \A h \in Handles : \A k \in Key : Stands(h, k) /\ told[h] # 0 => told[h] = SignatureMaxSize(k)

SignedSize ==
    \A s \in signed : \A k \in Key : Stands(s.h, k) => Exact(s, SignatureMaxSize(k))

ToldInv == \A h \in Handles : told[h] # 0 => host[h].state # "never"

\* A key in use is of a family that CNG knows, and one that its Signer has had.
Usable(v) == v.pub.type # "other" /\ v.pub \in certs[v.name]

\* The same of the certificates after a step.
StaysUsable(v) == v.pub.type # "other" /\ v.pub \in certs'[v.name]

KeyInv ==
    /\ \A h \in Handles : handles[h].kind = "key" => Usable(handles[h])
    /\ \A t \in Threads : pc[t] = "sign" => Usable(obj[t])

\* The key a Signer signs with is one it has had.
CertInv == \A name \in Names : cert[name] \in certs[name]

\* Nothing but a reissue changes what the server has.
LEMMA OnlyReissues == [Next]_vars => UNCHANGED serverVars \/ \E name \in Names : Reissue(name)
<1>1. ASSUME NEW t \in Threads,
             OpenProvider(t) \/ FindSigner(t) \/ PublicKey(t) \/ SessionCallFails(t)
                \/ SignatureArrives(t)
      PROVE  UNCHANGED serverVars
  BY <1>1, Zenon DEF OpenProvider, FindSigner, PublicKey, SessionCallFails, SignatureArrives
<1>2. ASSUME NEW t, NEW h, NEW n, OpenKey(t, h, n) PROVE UNCHANGED serverVars
  BY <1>2 DEF OpenKey
<1>3. ASSUME NEW t, NEW h, NEW q, NEW b, Query(t, h, q, b) PROVE UNCHANGED serverVars
  BY <1>3, Zenon DEF Query
<1>4. ASSUME NEW t, NEW h, SizingCall(t, h) \/ Free(t, h) PROVE UNCHANGED serverVars
  BY <1>4, Zenon DEF SizingCall, Free
<1>5. ASSUME NEW t, NEW h, NEW p, NEW x, NEW b, SignHash(t, h, p, x, b)
      PROVE  UNCHANGED serverVars
  BY <1>5, Zenon DEF SignHash
<1>6. UNCHANGED vars => UNCHANGED serverVars  BY DEF vars
<1>. QED  BY <1>1, <1>2, <1>3, <1>4, <1>5, <1>6 DEF Next

LEMMA CertStep ==
    ASSUME IInv, CertInv, [Next]_vars
    PROVE  CertInv'
<1>1. ASSUME UNCHANGED serverVars PROVE CertInv'
  BY <1>1 DEF CertInv, serverVars
<1>2. ASSUME NEW name \in Names, Reissue(name) PROVE CertInv'
  <2>1. PICK new \in Keys :
          /\ cert' = [cert EXCEPT ![name] = new]
          /\ certs' = [certs EXCEPT ![name] = certs[name] \cup {new}]
    BY <1>2 DEF Reissue
  <2>2. cert \in [Names -> Keys] /\ certs \in [Names -> SUBSET Keys]
    BY DEF IInv, TypeOK
  <2>. QED  BY <2>1, <2>2 DEF CertInv
<1>. QED  BY <1>1, <1>2, OnlyReissues

\* A Signer never loses the keys it has had.
LEMMA CertsGrow ==
    ASSUME IInv, [Next]_vars
    PROVE  \A name \in Names : certs[name] \subseteq certs'[name]
<1>1. certs \in [Names -> SUBSET Keys]  BY DEF IInv, TypeOK
<1>2. ASSUME UNCHANGED serverVars PROVE certs' = certs  BY <1>2 DEF serverVars
<1>3. ASSUME NEW name \in Names, Reissue(name)
      PROVE  \A x \in Names : certs[x] \subseteq certs'[x]
  BY <1>1, <1>3 DEF Reissue
<1>. QED  BY <1>2, <1>3, OnlyReissues

\* No thread starts to wait for a signature.
NoNewSigning ==
    \A t \in Threads : pc'[t] = "sign" =>
        pc[t] = "sign" /\ args'[t] = args[t] /\ obj'[t] = obj[t]

LEMMA NoneStarts ==
    ASSUME ThreadTypeOK
    PROVE  /\ UNCHANGED <<pc, args, obj>> => NoNewSigning
           /\ \A t \in Threads : Done(t) => NoNewSigning
           /\ \A t \in Threads : \A a, v : Wait(t, "find", a, v) => NoNewSigning
BY DEF ThreadTypeOK, NoNewSigning, Done, Wait

\* The parts of the invariant about sizes.
Sizes == CertInv /\ ToldInv /\ KeyInv /\ OneKey /\ ToldSize /\ SignedSize /\ SizedCallsSucceed

\* A signature that was as promised stays so.
LEMMA ExactKept ==
    ASSUME IInv, [Next]_vars, NEW s \in Signature, NEW n, Exact(s, n)
    PROVE  Exact(s, n)'
<1>1. s.name \in Names  BY DEF Signature
<1>2. certs[s.name] \subseteq certs'[s.name]  BY <1>1, CertsGrow
<1>3. ModulusChanged(s.name) => ModulusChanged(s.name)'
  BY <1>2 DEF ModulusChanged
<1>. QED  BY <1>3 DEF Exact

\* As long as no handle comes to stand for a key, and nothing is told or signed.
LEMMA SizesKept ==
    ASSUME IInv, OneKey, ToldSize, SignedSize, SizedCallsSucceed, [Next]_vars,
           UNCHANGED <<told, signed>>,
           \A h \in Handles : \A k \in Key : Stands(h, k)' => Stands(h, k)
    PROVE  OneKey' /\ ToldSize' /\ SignedSize' /\ SizedCallsSucceed'
<1>1. signed \subseteq Signature /\ \A s \in signed : s.h \in Handles
  BY DEF IInv, TypeOK, Signature
<1>2. OneKey'  BY DEF OneKey
<1>3. ToldSize'  BY DEF ToldSize
<1>4. SignedSize'
  <2>. SUFFICES ASSUME NEW s \in signed, NEW k \in Key, Stands(s.h, k)'
                PROVE  Exact(s, SignatureMaxSize(k))'
    BY DEF SignedSize
  <2>1. Exact(s, SignatureMaxSize(k))  BY <1>1 DEF SignedSize
  <2>. QED  BY <1>1, <2>1, ExactKept
<1>5. SizedCallsSucceed'
  <2>. SUFFICES ASSUME NEW s \in signed, told[s.h] # 0
                PROVE  Exact(s, told[s.h])'
    BY <1>1 DEF SizedCallsSucceed, Exact
  <2>0. PICK n : n = told[s.h]  OBVIOUS
  <2>1. Exact(s, n)  BY <2>0 DEF SizedCallsSucceed, Exact
  <2>2. Exact(s, n)'  BY <1>1, <2>1, ExactKept
  <2>. QED  BY <2>0, <2>2 DEF Exact, AsTold
<1>. QED  BY <1>2, <1>3, <1>4, <1>5

\* KeyInv relies on what threads and handles carry, and on what Signers have had.
LEMMA KeyKept ==
    ASSUME IInv, KeyInv, NoNewSigning, [Next]_vars,
           \A h \in Handles : handles'[h].kind = "key" =>
                handles'[h] = handles[h] \/ StaysUsable(handles'[h])
    PROVE  KeyInv'
<1>1. \A name \in Names : certs[name] \subseteq certs'[name]  BY CertsGrow
<1>2. RegistryInv /\ CallInv  BY DEF IInv
<1>3. ASSUME NEW h \in Handles, handles'[h].kind = "key" PROVE StaysUsable(handles'[h])
  <2>1. CASE handles'[h] = handles[h]
    <3>1. Usable(handles[h]) /\ handles[h].name \in Names
      BY <1>2, <1>3, <2>1 DEF KeyInv, RegistryInv
    <3>. QED  BY <1>1, <2>1, <3>1 DEF Usable, StaysUsable
  <2>. QED  BY <1>3, <2>1
<1>4. ASSUME NEW t \in Threads, pc'[t] = "sign" PROVE StaysUsable(obj'[t])
  <2>1. pc[t] = "sign" /\ obj'[t] = obj[t]  BY <1>4 DEF NoNewSigning
  <2>2. Usable(obj[t]) /\ obj[t].name \in Names  BY <1>2, <2>1 DEF KeyInv, CallInv
  <2>. QED  BY <1>1, <2>1, <2>2 DEF Usable, StaysUsable
<1>. QED  BY <1>3, <1>4 DEF KeyInv, Usable, StaysUsable

\* A step that adds no key, no signing and no signature changes none of it.
LEMMA QuietStep ==
    ASSUME IInv, Sizes, NoNewSigning, Remembers, [Next]_vars, UNCHANGED <<told, signed>>,
           \A h \in Handles : handles'[h].kind = "key" => handles'[h] = handles[h]
    PROVE  Sizes'
<1>1. KeyInv' /\ CertInv'  BY KeyKept, CertStep DEF Sizes
<1>2. ToldInv'  BY DEF Sizes, ToldInv, Remembers
<1>3. \A h \in Handles : \A k \in Key : Stands(h, k)' => Stands(h, k)
  BY DEF Stands, NoNewSigning
<1>. QED  BY <1>1, <1>2, <1>3, SizesKept DEF Sizes

\* A new handle has stood for nothing before.
LEMMA NewKeyStep ==
    ASSUME IInv, Sizes, NoNewSigning, Remembers, [Next]_vars, UNCHANGED <<told, signed>>,
           NEW name \in Names, NEW pub \in certs[name], pub.type # "other",
           NEW g \in Handles, registerHandle(keyState(name, pub), g)
    PROVE  Sizes'
<1> DEFINE v == keyState(name, pub)
<1>0. /\ RegistryTypeOK /\ RegistryInv /\ CallInv /\ SignsForItsOwnSigner /\ HistoryTypeOK
      /\ ThreadTypeOK
  BY TypeParts DEF IInv
<1>1. host[g].state = "never"
  BY <1>0 DEF RegistryTypeOK, registerHandle, Handles, RegistryInv
<1>2. \A h \in Handles : handles'[h] = IF h = g THEN v ELSE handles[h]
  BY <1>0 DEF RegistryTypeOK, registerHandle
<1>3. v.kind = "key" /\ v.name = name /\ v.pub = pub  BY DEF keyState
<1>. HIDE DEF v
<1>4. KeyInv' /\ CertInv'
  <2>1. StaysUsable(v)
    <3>1. pub \in certs'[name]  BY CertsGrow
    <3>. QED  BY <1>3, <3>1 DEF StaysUsable
  <2>. QED  BY <1>2, <2>1, KeyKept, CertStep DEF Sizes
<1>5. ToldInv'  BY DEF Sizes, ToldInv, Remembers
<1>6. /\ \A k \in Key : Stands(g, k)' => k = pub
      /\ \A h \in Handles : \A k \in Key : h # g => (Stands(h, k)' => Stands(h, k))
  <2>1. \A t \in Threads : pc[t] = "sign" => args[t].h # g
    BY <1>0, <1>1 DEF CallInv
  <2>. QED  BY <1>2, <1>3, <2>1 DEF Stands, NoNewSigning
<1>7. told[g] = 0 /\ \A s \in signed : s.h # g
  BY <1>0, <1>1 DEF Sizes, ToldInv, SignsForItsOwnSigner
<1>8. signed \subseteq Signature /\ \A s \in signed : s.h \in Handles
  BY <1>0 DEF HistoryTypeOK, Signature
<1>9. OneKey'  BY <1>6 DEF Sizes, OneKey
<1>10. ToldSize'  BY <1>6, <1>7 DEF Sizes, ToldSize
<1>11. SignedSize'
  <2>. SUFFICES ASSUME NEW s \in signed, NEW k \in Key, Stands(s.h, k)'
                PROVE  Exact(s, SignatureMaxSize(k))'
    BY DEF SignedSize
  <2>1. Exact(s, SignatureMaxSize(k))  BY <1>6, <1>7, <1>8 DEF Sizes, SignedSize
  <2>. QED  BY <1>8, <2>1, ExactKept
<1>12. SizedCallsSucceed'
  <2>. SUFFICES ASSUME NEW s \in signed, told[s.h] # 0
                PROVE  Exact(s, told[s.h])'
    BY DEF SizedCallsSucceed, Exact
  <2>0. PICK n : n = told[s.h]  OBVIOUS
  <2>1. Exact(s, n)  BY <2>0 DEF Sizes, SizedCallsSucceed, Exact
  <2>2. Exact(s, n)'  BY <1>8, <2>1, ExactKept
  <2>. QED  BY <2>0, <2>2 DEF Exact, AsTold
<1>. QED  BY <1>4, <1>5, <1>9, <1>10, <1>11, <1>12 DEF Sizes

\* The host is told the size of the key that the handle stands for.
LEMMA SizingStep ==
    ASSUME IInv, Sizes, [Next]_vars, NEW t \in Threads, NEW h \in Handles, SizingCall(t, h)
    PROVE  Sizes'
<1>0. /\ RegistryTypeOK /\ RegistryInv /\ ThreadTypeOK /\ HistoryTypeOK
  BY TypeParts DEF IInv
<1> DEFINE size == SignatureMaxSize(lookupHandle(h).pub)
<1>1. UNCHANGED <<registryVars, pc, args, obj, serverVars, host, signed>>
  BY DEF SizingCall, AtOnce
<1>2. NoNewSigning /\ Remembers /\ UNCHANGED handles
  BY <1>0, <1>1, NoneStarts, RegistryIdle DEF registryVars
<1>3. CASE UNCHANGED told  BY <1>1, <1>2, <1>3, QuietStep
<1>4. CASE lookupHandle(h).kind = "key" /\ told' = [told EXCEPT ![h] = size]
  <2>0. lookupHandle(h).pub \in Key /\ Stands(h, lookupHandle(h).pub)
    BY <1>0, <1>4, Looked DEF Stands, lookupHandle
  <2>1. KeyInv' /\ CertInv'  BY <1>2, KeyKept, CertStep DEF Sizes
  <2>2. ToldInv'
    <3>1. host[h].state # "never"  BY <1>0, <1>4, Looked
    <3>. QED  BY <1>0, <1>1, <1>4, <3>1 DEF Sizes, ToldInv, HistoryTypeOK
  <2>3. \A x \in Handles : \A k \in Key : Stands(x, k)' => Stands(x, k)
    BY <1>1, <1>2 DEF Stands
  <2>4. \A x \in Handles : told'[x] = IF x = h THEN size ELSE told[x]
    BY <1>0, <1>4 DEF HistoryTypeOK
  <2>5. signed \subseteq Signature /\ \A s \in signed : s.h \in Handles
    BY <1>0 DEF HistoryTypeOK, Signature
  <2>6. OneKey'  BY <2>3 DEF Sizes, OneKey
  <2>7. ToldSize'
    <3>. SUFFICES ASSUME NEW x \in Handles, NEW k \in Key, Stands(x, k)', told'[x] # 0
                  PROVE  told'[x] = SignatureMaxSize(k)
      BY DEF ToldSize
    <3>1. CASE x = h
      <4>1. k = lookupHandle(h).pub  BY <2>0, <2>3, <3>1 DEF Sizes, OneKey
      <4>. QED  BY <2>4, <3>1, <4>1
    <3>2. CASE x # h  BY <2>3, <2>4, <3>2 DEF Sizes, ToldSize
    <3>. QED  BY <3>1, <3>2
  <2>8. SignedSize'
    <3>. SUFFICES ASSUME NEW s \in signed, NEW k \in Key, Stands(s.h, k)'
                  PROVE  Exact(s, SignatureMaxSize(k))'
      BY <1>1 DEF SignedSize
    <3>1. Exact(s, SignatureMaxSize(k))  BY <2>3, <2>5 DEF Sizes, SignedSize
    <3>. QED  BY <2>5, <3>1, ExactKept
  <2>9. SizedCallsSucceed'
    <3>. SUFFICES ASSUME NEW s \in signed, told'[s.h] # 0
                  PROVE  Exact(s, told[s.h])'
      BY <1>1 DEF SizedCallsSucceed, Exact
    <3>0. PICK n : n = IF s.h = h THEN size ELSE told[s.h]  OBVIOUS
    <3>1. told'[s.h] = n  BY <2>4, <2>5, <3>0
    <3>2. Exact(s, n)
      <4>1. CASE s.h = h  BY <2>0, <3>0, <4>1 DEF Sizes, SignedSize
      <4>2. CASE s.h # h  BY <3>0, <3>1, <4>2 DEF Sizes, SizedCallsSucceed, Exact
      <4>. QED  BY <4>1, <4>2
    <3>3. Exact(s, n)'  BY <2>5, <3>2, ExactKept
    <3>. QED  BY <3>1, <3>3 DEF Exact, AsTold
  <2>. QED  BY <2>1, <2>2, <2>6, <2>7, <2>8, <2>9 DEF Sizes
<1>. QED  BY <1>3, <1>4 DEF SizingCall

\* A signing starts with the key that the registry holds.
LEMMA SignStep ==
    ASSUME IInv, Sizes, [Next]_vars, NEW t \in Threads, NEW h \in Handles,
           NEW p, NEW x, NEW b, SignHash(t, h, p, x, b)
    PROVE  Sizes'
<1>0. /\ RegistryTypeOK /\ RegistryInv /\ ThreadTypeOK /\ HistoryTypeOK /\ CallInv
  BY TypeParts DEF IInv
<1>1. UNCHANGED <<handles, certs, host, told, signed>>
  BY Zenon DEF SignHash, registryVars, serverVars, historyVars
<1>2. CASE AtOnce(t)
  <2>1. NoNewSigning  BY <1>0, <1>2, NoneStarts DEF AtOnce
  <2>2. Remembers  BY <1>1 DEF Remembers
  <2>. QED  BY <1>1, <2>1, <2>2, QuietStep
<1>3. CASE /\ lookupHandle(h).kind = "key"
           /\ Wait(t, "sign", [h |-> h, name |-> NoName, buf |-> b], lookupHandle(h))
  <2>1. /\ args'[t].h = h /\ obj'[t] = handles[h] /\ handles[h].kind = "key"
        /\ \A u \in Threads : u # t => pc'[u] = pc[u] /\ args'[u] = args[u] /\ obj'[u] = obj[u]
    BY <1>0, <1>3 DEF ThreadTypeOK, Wait, lookupHandle
  <2>2. KeyInv' /\ CertInv'
    BY <1>1, <2>1, CertStep DEF Sizes, KeyInv, Usable
  <2>3. ToldInv'  BY <1>1 DEF Sizes, ToldInv
  <2>4. ASSUME NEW y \in Handles, NEW k \in Key, Stands(y, k)' PROVE Stands(y, k)
    <3>1. ASSUME NEW u \in Threads, pc'[u] = "sign", args'[u].h = y, k = obj'[u].pub
          PROVE  Stands(y, k)
      <4>1. CASE u = t  BY <2>1, <3>1, <4>1 DEF Stands
      <4>2. CASE u # t  BY <2>1, <3>1, <4>2 DEF Stands
      <4>. QED  BY <4>1, <4>2
    <3>. QED  BY <1>1, <2>4, <3>1 DEF Stands
  <2>. QED  BY <1>1, <2>2, <2>3, <2>4, SizesKept DEF Sizes
<1>. QED  BY <1>2, <1>3 DEF SignHash

\* The signature is as the key of the call promises, unless it is an RSA signature
\* made with a modulus of another size.
LEMMA SignatureStep ==
    ASSUME IInv, Sizes, [Next]_vars, NEW t \in Threads, SignatureArrives(t)
    PROVE  Sizes'
<1>0. /\ RegistryTypeOK /\ RegistryInv /\ ThreadTypeOK /\ ServerTypeOK /\ HistoryTypeOK /\ CallInv
  BY TypeParts DEF IInv
<1>1. UNCHANGED <<handles, certs, host, told>> /\ Done(t) /\ pc[t] = "sign"
  BY Zenon DEF SignatureArrives, registryVars, serverVars
<1>2. NoNewSigning /\ Remembers
  BY <1>0, <1>1, NoneStarts DEF Remembers
<1>3. CASE UNCHANGED signed  BY <1>1, <1>2, <1>3, QuietStep
<1>4. ASSUME NEW len \in Nat, signed' = signed \cup {Obtained(t, len)},
             len = IF obj[t].pub.type = "ECDSA" THEN SignatureMaxSize(obj[t].pub)
                   ELSE Bytes(cert[obj[t].name].bits)
      PROVE  Sizes'
  <2> DEFINE new == Obtained(t, len)
             pub == obj[t].pub
             h == args[t].h
  <2>1. KeyInv' /\ CertInv'  BY <1>1, <1>2, KeyKept, CertStep DEF Sizes
  <2>2. ToldInv'  BY <1>1 DEF Sizes, ToldInv
  <2>3. /\ obj[t].name \in Names /\ pub \in certs[obj[t].name] /\ pub \in Key
        /\ pub.type \in {"RSA", "ECDSA"} /\ cert[obj[t].name].type = pub.type
        /\ cert[obj[t].name] \in certs[obj[t].name] /\ h \in Handles
    BY <1>0, <1>1, KeysAreKeys
    DEF CallInv, Sizes, KeyInv, CertInv, Usable, SignatureArrives, ServerTypeOK, Key, Family
  <2>4. /\ new.h = h /\ new.name = obj[t].name /\ new.type = pub.type
        /\ new.len = len /\ new.buf = args[t].buf /\ new.status = copyOut(len, args[t].buf)
    BY DEF Obtained
  <2>5. Exact(new, SignatureMaxSize(pub))
    <3>1. CASE len = SignatureMaxSize(pub)
      <4>1. args[t].buf >= len => copyOut(len, args[t].buf) = "SUCCESS"
        BY <1>0, CopyOutStatus DEF ThreadTypeOK, Args
      <4>. QED  BY <2>4, <3>1, <4>1 DEF Exact, AsTold
    <3>2. CASE len # SignatureMaxSize(pub)
      BY <1>4, <2>3, <2>4, <3>2 DEF Exact, ModulusChanged, SignatureMaxSize
    <3>. QED  BY <3>1, <3>2
  <2>. HIDE DEF new
  <2>6. \A y \in Handles : \A k \in Key : Stands(y, k)' => Stands(y, k)
    BY <1>1, <1>2 DEF Stands, NoNewSigning
  <2>7. Stands(h, pub)  BY <1>1 DEF Stands
  <2>8. ASSUME NEW s, NEW n, Exact(s, n) PROVE Exact(s, n)'
    BY <1>1, <2>8 DEF Exact, ModulusChanged
  <2>9. \A s \in signed : s.h \in Handles
    BY <1>0 DEF HistoryTypeOK, Signature
  <2>10. OneKey'  BY <2>6 DEF Sizes, OneKey
  <2>11. ToldSize'  BY <1>1, <2>6 DEF Sizes, ToldSize
  <2>12. SignedSize'
    <3>. SUFFICES ASSUME NEW s \in signed', NEW k \in Key, Stands(s.h, k)'
                  PROVE  Exact(s, SignatureMaxSize(k))'
      BY DEF SignedSize
    <3>1. CASE s \in signed
      <4>1. Exact(s, SignatureMaxSize(k))  BY <2>6, <2>9, <3>1 DEF Sizes, SignedSize
      <4>. QED  BY <2>8, <4>1
    <3>2. CASE s = new
      <4>1. k = pub  BY <2>3, <2>4, <2>6, <2>7, <3>2 DEF Sizes, OneKey
      <4>. QED  BY <2>5, <2>8, <3>2, <4>1
    <3>. QED  BY <1>4, <3>1, <3>2 DEF new
  <2>13. SizedCallsSucceed'
    <3>. SUFFICES ASSUME NEW s \in signed', told[s.h] # 0
                  PROVE  Exact(s, told[s.h])
      BY <1>1 DEF SizedCallsSucceed, Exact, AsTold, ModulusChanged
    <3>1. CASE s \in signed  BY <3>1 DEF Sizes, SizedCallsSucceed, Exact
    <3>2. CASE s = new
      <4>1. told[h] = SignatureMaxSize(pub)  BY <2>3, <2>4, <2>7, <3>2 DEF Sizes, ToldSize
      <4>. QED  BY <2>4, <2>5, <3>2, <4>1
    <3>. QED  BY <1>4, <3>1, <3>2 DEF new
  <2>. QED  BY <2>1, <2>2, <2>10, <2>11, <2>12, <2>13 DEF Sizes
<1>. QED  BY <1>0, <1>3, <1>4, SignatureLength

LEMMA SizesInit == Init => Sizes
<1>. SUFFICES ASSUME Init PROVE Sizes
  OBVIOUS
<1>1. \A h \in Handles : handles[h].kind = "none" /\ told[h] = 0
  BY DEF Init, NoObject
<1>2. \A t \in Threads : pc[t] = "idle"  BY DEF Init
<1>3. signed = {}  BY DEF Init
<1>4. \A h \in Handles, k \in Key : ~Stands(h, k)
  BY <1>1, <1>2 DEF Stands
<1>5. CertInv  BY DEF Init, CertInv
<1>. QED
  BY <1>1, <1>2, <1>3, <1>4, <1>5
  DEF Sizes, ToldInv, KeyInv, OneKey, ToldSize, SignedSize, SizedCallsSucceed

LEMMA SizesStep ==
    ASSUME IInv, Sizes, [Next]_vars
    PROVE  Sizes'
<1>0. /\ RegistryTypeOK /\ RegistryInv /\ ThreadTypeOK /\ ServerTypeOK /\ HistoryTypeOK /\ CallInv
  BY TypeParts DEF IInv
<1>1. ASSUME NoNewSigning, UNCHANGED <<registryVars, historyVars>> PROVE Sizes'
  <2>1. UNCHANGED <<handles, host, told, signed>>
    BY <1>1 DEF registryVars, historyVars
  <2>2. Remembers  BY <2>1 DEF Remembers
  <2>. QED  BY <1>1, <2>1, <2>2, QuietStep
<1>2. ASSUME NEW t \in Threads, OpenProvider(t) PROVE Sizes'
  <2>1. NoNewSigning /\ UNCHANGED <<told, signed>>
    BY <1>0, <1>2, NoneStarts DEF OpenProvider, AtOnce
  <2>2. CASE OpenReturns("FAIL", 0, NoName) /\ UNCHANGED registryVars
    BY <1>1, <2>1, <2>2 DEF historyVars, OpenReturns
  <2>3. ASSUME NEW g \in Handles, registerHandle(providerState, g),
               OpenReturns("SUCCESS", g, NoName)
        PROVE  Sizes'
    <3>1. Remembers
      BY <1>0, <2>3, ObjectTypes, RegisterStep
    <3>2. \A h \in Handles : handles'[h] = IF h = g THEN providerState ELSE handles[h]
      BY <1>0, <2>3 DEF RegistryTypeOK, registerHandle
    <3>3. \A h \in Handles : handles'[h].kind = "key" => handles'[h] = handles[h]
      BY <3>2, ObjectTypes
    <3>. QED  BY <2>1, <3>1, <3>3, QuietStep
  <2>. QED  BY <1>2, <2>2, <2>3 DEF OpenProvider
<1>3. ASSUME NEW t \in Threads, NEW h \in Handles, NEW n \in Names, OpenKey(t, h, n) PROVE Sizes'
  <2>1. NoNewSigning
    BY <1>0, <1>3, NoneStarts DEF OpenKey, AtOnce
  <2>. QED  BY <1>1, <1>3, <2>1 DEF OpenKey
<1>4. ASSUME NEW t \in Threads, FindSigner(t) PROVE Sizes'
  <2>1. NoNewSigning
    BY <1>0, <1>4 DEF FindSigner, NoNewSigning, ThreadTypeOK
  <2>. QED  BY <1>1, <1>4, <2>1 DEF FindSigner
<1>5. ASSUME NEW t \in Threads, PublicKey(t) PROVE Sizes'
  <2>1. NoNewSigning /\ UNCHANGED <<told, signed>>
    BY <1>0, <1>5, NoneStarts DEF PublicKey
  <2>2. args[t].name \in Names  BY <1>0, <1>5 DEF CallInv, PublicKey
  <2>3. CASE OpenReturns("FAIL", 0, NoName) /\ UNCHANGED registryVars
    BY <1>1, <2>1, <2>3 DEF historyVars, OpenReturns
  <2>4. ASSUME NEW pub \in certs[args[t].name], pub.type # "other",
               NEW g \in Handles, registerHandle(keyState(args[t].name, pub), g),
               OpenReturns("SUCCESS", g, args[t].name)
        PROVE  Sizes'
    <3>1. pub \in Key  BY <1>0, <2>2, <2>4, KeysAreKeys DEF ServerTypeOK
    <3>2. /\ keyState(args[t].name, pub) \in Object
          /\ keyState(args[t].name, pub).kind = "key"
          /\ keyState(args[t].name, pub).name = args[t].name
      BY <2>2, <3>1, ObjectTypes
    <3>3. Remembers  BY <1>0, <2>2, <2>4, <3>2, RegisterStep
    <3>. QED  BY <2>1, <2>2, <2>4, <3>3, NewKeyStep
  <2>. QED  BY <1>5, <2>3, <2>4 DEF PublicKey
<1>6. ASSUME NEW t \in Threads, SessionCallFails(t) PROVE Sizes'
  BY <1>0, <1>1, <1>6, NoneStarts DEF SessionCallFails
<1>7. ASSUME NEW t \in Threads, NEW h \in Handles, NEW q, NEW b, Query(t, h, q, b) PROVE Sizes'
  <2>1. AtOnce(t) /\ UNCHANGED <<registryVars, historyVars>>
    BY <1>7, Zenon DEF Query
  <2>. QED  BY <1>0, <1>1, <2>1, NoneStarts DEF AtOnce
<1>8. ASSUME NEW t \in Threads, NEW h \in Handles, Free(t, h) PROVE Sizes'
  <2>1. NoNewSigning /\ Remembers /\ UNCHANGED <<told, signed>>
    BY <1>0, <1>8, NoneStarts, FreeStep DEF Free, AtOnce
  <2>2. \A x \in Handles : handles'[x] = IF x = h THEN NoObject ELSE handles[x]
    BY <1>0, <1>8 DEF Free, freeHandle, RegistryTypeOK
  <2>3. \A x \in Handles : handles'[x].kind = "key" => handles'[x] = handles[x]
    BY <2>2, ObjectTypes
  <2>. QED  BY <2>1, <2>3, QuietStep
<1>9. ASSUME NEW n \in Names, Reissue(n) PROVE Sizes'
  <2>1. UNCHANGED <<pc, args, obj, registryVars, historyVars>>
    BY <1>9, Zenon DEF Reissue, threadVars
  <2>. QED  BY <1>0, <1>1, <2>1, NoneStarts
<1>10. CASE UNCHANGED vars
  <2>1. UNCHANGED <<pc, args, obj, registryVars, historyVars>>
    BY <1>10, Zenon DEF vars, threadVars
  <2>. QED  BY <1>0, <1>1, <2>1, NoneStarts
<1>. QED
  BY <1>2, <1>3, <1>4, <1>5, <1>6, <1>7, <1>8, <1>9, <1>10,
     SizingStep, SignStep, SignatureStep DEF Next

-----------------------------------------------------------------------------
(* The theorems *)

\* Every variable keeps its type; the status a host sees is one of CNG's codes.
\* provider_windows.go:17-48, 174-200.
THEOREM TypeCorrect == Spec => []TypeOK
BY Invariance, PTL DEF IInv

\* The registry holds exactly the handles that calls have returned to the host and
\* the host has not freed, for any number of threads that open, fail half-way and
\* free.  provider_windows.go:44-69, 72-113, bridge_windows.c:33-47.
THEOREM RegistryExact == Spec => []RegistryMatchesHost
<1>1. IInv => RegistryMatchesHost
  BY DEF IInv, RegistryInv, RegistryMatchesHost
<1>. QED  BY <1>1, Invariance, PTL

\* Nobody gets the signature of another Signer through a handle, whatever is
\* freed and opened while the signature is under way.  provider_windows.go:50-57,
\* 115-150.
THEOREM OwnSigner == Spec => []SignsForItsOwnSigner
BY Invariance, PTL DEF IInv

\* Whatever certificates are reissued, whatever buffers hosts come up with: a signature
\* has the length that sizing calls report for its handle, and reaches a host with that
\* much room, unless it is an RSA signature of a Signer that has had moduli of two
\* sizes.  bridge_windows.c:18-30, 76-87, bridge_windows.go:72-87,
\* provider_windows.go:137-150.
THEOREM SizesKeptOrModulusChanged == Spec => []SizedCallsSucceed
<1>1. IInv /\ Sizes /\ [Next]_vars => Sizes'  BY SizesStep
<1>2. Sizes => SizedCallsSucceed  BY DEF Sizes
<1>. QED  BY <1>1, <1>2, SizesInit, Invariance, PTL DEF Spec

=============================================================================
