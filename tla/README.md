# Verification of the Infisical KSP

TLA+ models of the Infisical Key Storage Provider, a CNG provider that Windows
loads into a host such as `signtool` and that signs with keys held by an
Infisical server. The modules are checked with TLC on small instances; the
theorems are proved with TLAPS for every value of the constants. `PROJECT.json`
lists the runs, the source lines behind every definition, a mutant for every
property, the hazards and the theorems.

## The system

The provider is a DLL. The host's threads call its C entry points at any time
and from any thread; it owns no thread and persists nothing.

| part | state | operations | hard because |
|---|---|---|---|
| handle registry, `cmd/ksp/provider_windows.go` | `handles`, `nextHandle` under `handleMu` | register, look up, free | a call keeps working on the object it looked up while other threads free and open handles |
| CNG entry points, `bridge_windows.c`, `bridge_windows.go`, `properties_windows.go` | none of their own; a `keyState` keeps the public key `OpenKey` saw | OpenProvider, OpenKey, GetKeyProperty, ExportKey, SignHash (sizing and signing), Free* | half-failed opens, buffers of any size, certificates reissued under an open handle |
| session, `internal/infisical/session.go` | token, Signer list, public keys, each with an expiry, under `s.mu` | FindSigner, PublicKey, Sign | `s.mu` is held across some network calls and given up across others; expiry races with slow answers |
| authentication-failure cache, same file | process-wide map from identity to error and expiry under `authFailMu` | consult, record, clear | shared by sessions that have no lock in common |
| HTTP client, `client.go`, `errors.go` | none | login, list, certificate, sign, approval request | 30 s timeout, lost answers, refusals |
| approval flow, in `session.go`, `errors.go` | none in the provider | a denied Sign opens an approval request; the outcome reaches the host as a status and a log line | two calls on one token; lost answers; concurrent denials; signings that are counted and lost |
| CNG encodings, `internal/cng` | none | algorithm names, DER to raw signatures, public blobs | padding and odd curve sizes |
| configuration, `config.go` | none after loading | file, defaults, environment, validation | the order of the steps; a file edited meanwhile |
| signing context, `signing_context.go` | one context per process, captured once | what is sent with a signature; the scope of requests; redaction of command lines | racing first signings; flags and values span arguments; values that cannot be observed |
| logging, `logging_windows.go` | one logger, set up once | set up, log an error with a hint | first caller wins |

What makes each of them correct: the registry holds exactly what the host holds and a
handle never changes its meaning; a host that asks for a signature's size first gets
its signature; a session never sends a token it should know to be dead, never goes
back to older data where it holds the lock, and always returns; the failure cache
keeps a bad credential from hammering the server and never outlives its cause for
long. Under an approval policy a grant covers the case that was denied and no other,
approvers are not asked twice for the same thing, the host learns what really
happened, and whoever retries gets a signature in the end. The context reports the
process truthfully but for its credentials; a provider runs with the settings the
documentation says it does, and its failures leave a trace.

## Modules

| module | models |
|---|---|
| `Session` | sessions, the failure cache, the host's threads inside a call, and the server as far as the client sees it |
| `AuthBreaker` | the abstract promise of the failure cache |
| `SessionProofs` | theorems about `Session`, and that it implements `AuthBreaker` |
| `MCSession` | the configurations and symmetries of the runs |
| `Provider` | the handle registry and the entry points; the session appears as the outcomes of its calls |
| `ProviderProofs` | theorems about `Provider` |
| `MCProvider` | the keys and symmetries of the runs |
| `Approval` | a signing from the host's call to its status and log line under an approval policy, with the server's requests and grants |
| `ApprovalProofs` | theorems about `Approval` |
| `MCApproval` | the processes of the run |
| `SigningContext` | the capture of a process's signing context, redaction and truncation of its command line |
| `SigningContextProofs` | theorems about `SigningContext` |
| `MCSigningContext` | the arguments of the run |
| `Startup` | opening providers: configuration, log set-up, errors |
| `StartupProofs` | theorems about `Startup` |
| `MCStartup` | the files and environments of the run |

How they fit together: `Provider` is what the host sees, and takes the outcomes of
session calls as nondeterministic. `Session` is how these calls come about.
`Approval` takes up a signing where `Session` hands out its token and follows it through
the approval policy; a token that cannot be had is one of its refusals. The
contexts and configurations `Approval` is given are what `SigningContext` and
`Startup` produce.

### Session

One thread is in at most one call (`call[t]`). `pc[t]` is where it is: waiting for
`s.mu` (`lock`, and `store` for the second acquisition in `PublicKey`), or with a
request in flight (`login`, `list`, `cert`, `sign`, `request`). Everything a method
does from the moment it gets `s.mu` to its first network call is one action, since
nobody else can see the session in between: `CacheHit`, `TokenAuth`, `CachedToken`,
`CachedFailure`, `NoCredentials` and `StartLogin` are the ways out of that section
of `Signers`, `PublicKey`, `Sign` and `ensureToken`. `authFailMu` protects single map
accesses, so each of those is part of one action, and the check (`CachedFailure`,
`StartLogin`) and the record (`LoginFailed`) are different actions, as in the code.
What follows an answer is one action too (`LoginSucceeded`, `SignersListed`,
`RequestApproval`, ...). `HandOut` is where the methods differ: `FindSigner` goes on
with the mutex, the others give it up.

An expiry is the time left until it is reached; `Tick` moves all of them, the
remaining lifetimes of tokens and the HTTP timeouts. Time may pass whenever a thread
waits for the mutex or the server, never in the middle of a local step. A token
that has been issued loses lifetime while its answer is still on the way, which is
what the safety margin is for. The server (external) accepts or refuses; while
`trouble` holds it may also lose requests and answers, refuse good credentials and
revoke tokens. Signer lists and certificates are the version of the directory they
were read from.

`failedIn` is a history variable: the sessions whose failures keep the cache entry
of an identity alive.

### Provider

A handle stands for a provider, a key or nothing. A call that makes no network call
is one action; `OpenKey` is `OpenKey`, `FindSigner`, `PublicKey`, and a signing is
`SignHash`, `SignatureArrives`, with `SessionCallFails` at every network call. The
object found by `lookupHandle` travels with the call (`obj[t]`); the registry is not
looked at again. Signatures, blobs and property values are lengths. `PublicKey` may
return any key the Signer has had, since it may come from a cache; `Reissue` changes
the key the server signs with.

`host`, `told` and `signed` are history: what the host may believe of a handle, the
size it was told, and every signature the server has made for a call that came as far
as `copyOut`, with the host's buffer and the status it saw. `host` is
written where the entry points of the C bridge return (`OpenReturns`, `FreeReturns`), never by
the registry's own operations: the host learns of a handle only if the open returns
`ERROR_SUCCESS`.

### Approval

A thread belongs to some process, with a context, an `approval` block and an address
(`proc[t]`); different threads may belong to one process or to several that share a
machine identity. A call has at most two requests in flight one after the other: `sign`
(from `SignHash` to an answer) and `request` (from `RequestApproval` to an answer). What
`Sign` and `autoRequestOnDenial` do with an answer is one action per way out:
`SignReturned`, `SignFailed`, `RequestPending`, `NotConfigured`, `RequestApproval`,
`RequestOpened`, `RequestFailed`; each but `RequestApproval` ends the call with a status
(`statusFromError`) and a log line (`logError`, `adviceForError`). An error is what
`errors.As` finds in it: an approval outcome or none, around an `APIError` or a
`RequestError`. `adviceOrder` is the order in which `adviceForError` looks.

`RequestScope` and `Situation` are records over the seven scope fields. `Recorded` is how
the server reads a scope: an address that is left out is the sender's, `null` and any
other field that is left out are unrestricted. The server is external and modelled
after the repository's README, lines 235-277, and the way the code uses it: a signing that
a grant covers is made and counted; any other is denied, with the information whether a
covering request is pending; a request equal to a pending one resumes that one.

`trouble` is the bad weather: answers get lost, requests are refused (401, 403 without
the approval code, 500), addresses change, buffers are too small, signatures cannot be
decoded or reshaped (`BadSignature`), requests are rejected, windows end.

`did`, `basis` and `denied` are history: what the server did in the call, the request
behind the signature, and the situation in which the Sign of the call was denied. A
request carries the denied situation, the configuration and the address it came from
(`denied`, `cfg`, `from`); the server looks at none of them. The properties judge
scopes against these, not against what the code has made of them. The address in
`from` need not be that of the denied Sign: the provider does not know its own
address, the server fills in the one it sees (README, line 273), and the two calls may
take different routes.

### SigningContext

`signingCtxOnce` is `once`; the first thread runs the function in several steps
(`ReadExecutable`, a `Redact` and then a `Join` per argument, `Capture`), the others
wait in `Return`. An argument is a sequence of lexemes: a flag mark, separators, `=`,
words. That is all `redactCommandArgs` looks at, so `RedactArg` is its loop body branch by
branch, and `NextIsValue` what it leaves in `redactValue`. For `truncateCommand` a lexeme of
the joined command is one byte, and a rune of more bytes is a lexeme followed by
continuation bytes. `LexemeAssumption` says what makes arguments sequences of lexemes:
words are maximal, so the name of a credential follows a mark, a separator or `=` or starts
the argument, and an argument starts with a whole rune.

The properties say where a credential begins without reference to the loop: after `name=`
(`AfterEquals`), after `-name:` (`AfterColon`), and at the start of the argument after a flag
that bears its name (`AfterFlag`). `PropertyFlags` are the flags after whose colon MSBuild
expects a property and not a value (`/p:Configuration=Release`, which the tests want kept).

### Startup

`LoadConfig` reads the file (one moment of it) and computes the configuration with
`setDefaults`, `applyEnvOverrides`, `validate` in the code's order; `SetupLogging` is
`logOnce`; `OpenProvider` and `OpenProviderFails` are `NewSession` and what
`GoOpenProvider` makes of its result. `EditFile` is an administrator who may put any
file, broken ones too, in place at any moment. Settings are one of a few values each
that validation and precedence tell apart.

## Runs

All runs finish on two workers within two and a half minutes; `approval` (485,824 states,
with liveness) and `signing_context` (2,246,000 states) are the longest.

| run | instance | shows |
|---|---|---|
| `session_caches` | 2 threads, 1 session in each of 4 configurations, margin and timeout 2 ticks, lifetimes 4 and 5, 1 change of the directory | `NoExpiredTokenSent`, `SignerListNeverRegresses` |
| `session_breaker` | 2 threads, 2 sessions of one identity, each with the right or a wrong secret, failure window 2 ticks | `TypeOK`, `ThrottledSessionsDoNotLogIn`, and `Session` implements `AuthBreaker` |
| `session_liveness` | 2 threads, 1 session, margin and timeout 1 tick, failure window 2, lifetime 2, 1 change of the directory, fairness | `EveryCallReturns`, `AuthErrorsStop`, `RevokedTokensDropped`, `CachesConverge` |
| `provider_handles` | 2 threads, 2 Signers, 3 handles | `RegistryMatchesHost`, `SignsForItsOwnSigner` |
| `provider_sizes` | 2 threads, RSA with 2048 and 3072 bits, ECDSA on 224 and 521 bits, any of them reissued as any other | `TypeOK`, `SizedCallsSucceed` |
| `approval` | 2 threads, 2 digests, 2 addresses, 5 pairs of processes (one process; single signings and batches; changing addresses, not restricted, and an unreadable executable; a changing address in requests restricted by address; a pinned address and no approval block), fairness | `TypeOK`, `OnlyDeniedCasesSigned`, `NoDuplicateRequests`, `LogTellsWhatHappened`, `RetriesSucceed` |
| `signing_context` | 2 threads, 1 to 3 arguments of 20 forms, commands of at most 9 bytes, a rune of 3 bytes | `TypeOK`, `PlainCredentialsHidden`, `OnlyCredentialsHidden`, `CommandCutBetweenRunes`, `OneContextPerProcess` |
| `startup` | 2 threads, 10 states of the file, 4 environments, 2 log files that can or cannot be opened, fairness | `TypeOK`, `SettingsFollowPrecedence`, `ProvidersAreValid`, `FailuresAreLogged`, `RepairTakesEffect` |

Why the bounds are enough. Every property relates at most two threads: one that holds
a lock, a stale answer or a handle, and one that interferes. Two sessions are what it
takes to share the failure cache. Three handles are a provider and two keys, so a key
can be freed and another opened while a call on the first is in flight; two handles,
curves whose signatures differ in size and two moduli suffice for sizes. A margin of
two ticks tells apart a login that takes no time, half of and all of the timeout;
where liveness is checked it is one tick. `SignerTTLSeconds` and `CertTTLSeconds` are
negative (a legal configuration: such caches never hit) in the run about the failure
cache, and `TokenTTLSeconds` is in `session_caches`, so that no ceiling applies; 0 is
never used, because the configuration turns it into a default. A lifetime of 1 tick
lets an entry hit and run out; a failure window of 2 can be renewed before it ends.
`MaxEpoch` = 1 gives an old and a new directory. Symmetry is used only in runs without
liveness.

In `approval` the second thread is what can take a grant, open the same request or
cover a request with a broader one; each pair of processes exercises one way in which
configurations interact, and a count of 2 tells a grant that is used up from one that
is used. In `signing_context` the state that redaction carries reaches from one argument
to the next, so three arguments show every pair in every state; the 20 forms are every
combination of mark, name, separator and value that takes a branch of its own. In
`startup` each broken file breaks one thing, and two log files tell the configured
one from the default.

What the properties leave open:

* `NoExpiredTokenSent` speaks of the moment the token is handed out. `Sign` captures the
  signing context between that and its request, which hashes the host's executable the
  first time; the model gives it no time. Nor does it say that the token lives as long as
  the request takes: the expiry is counted from the end of the login, so a login that takes
  all of its timeout has used up the margin, and the token may expire during the
  first request. The comment at `session.go:18-19` promises more than that.
* `SizedCallsSucceed` excepts RSA Signers whose modulus has changed its size, the subject of
  `provider_reissue`.
* `OnlyDeniedCasesSigned` takes the address to be that of the approval request, and excepts
  fields that were not observed. A process whose executable could not be read asks without
  a checksum, and the approval then covers a process with any checksum; the repository's README
  says that an approval is scoped to what was observed (line 256), but also that a changed
  checksum needs a new request (line 269).
* `NoDuplicateRequests` rests on how the server matches requests of a machine identity
  (README, line 275). With a user token each retry opens its own request (line 277).
* `RetriesSucceed` promises a signature in the same case, not always to the thread that
  retries: another one may use up the grant. "The same case" is judged by the fields
  every process restricts (`CommonFields`), because a pending request with a broader
  scope keeps a process from asking for itself. So a process whose payload is covered by a
  batch request can be starved by another that uses up every such grant: the code asks only
  when nothing that covers it is pending, and nothing in the provider could prevent this.
* `PlainCredentialsHidden` covers values assigned with `=`, whatever they consist of, and
  values after a colon or in the next argument that contain no `=` and do not end like the
  name of a credential. The others are the subject of `context_colon`.
* `FailuresAreLogged` assumes that both log files can be written. A path that cannot be
  opened discards the log for the life of the process, as the comment in
  `logging_windows.go` says.

### Runs that find a disagreement

* `session_burst` (`OneFailurePerWindow`): two sessions of one identity that start
  together both log in with the bad secret. The cache is consulted before the login
  and filled after it; the sessions share no lock. What does hold is
  `ThrottledSessionsDoNotLogIn` and `AuthBreaker`: at most one failure per session
  and window.
* `session_shortlived` (`NoExpiredTokenSent`): a token lives longer than a login takes, but
  less than twice the margin. After a slow login `cacheExpiry` has little or nothing
  left, the 30 s floor keeps the token beyond its end, and the next call that finds it in
  the cache sends it.
* `provider_reissue` (`SizingCallIsExact`): "report the exact signature size", says
  `bridge_windows.c:76`. An open handle keeps the public key of the time it was opened;
  when its RSA Signer is reissued with a larger modulus, the signature is longer than
  announced, and the host gets NTE_BUFFER_TOO_SMALL after the server has signed. A change
  of curve is harmless: a signature that does not fit the handle's curve is an error.
* `context_colon` (`NoCredentialSurvives`): `signing_context_test.go:100` says that no
  credential survives, whatever shape it arrives in. `-pass:sec=ret` does, since the
  argument is cut at the equals sign first and the name then found is not a
  credential's. `-storepass:mypassword` is kept too, because it ends like a credential
  flag. A value that is itself spelled like a credential flag (`/p /p`) is kept as
  well, and the argument after it hidden instead; line 84 of the tests wants a value
  that looks like a flag hidden.

### Fairness

`FairSpec` assumes: time passes; a thread that can take a step of its call does
(the host's threads are scheduled); a request is answered, since the HTTP client gives
up after its timeout (`client.go:57`; a client without one would not be caught by these
runs); and, strongly, a thread waiting for `s.mu` gets it if it is
free again and again, which Go's mutex guarantees (its starvation mode hands the lock
to the oldest waiter after 1 ms). Nobody has to make calls, and nothing has to go
wrong or right: `trouble`, `Revoke`, `Lose` and `ChangeDirectory` have no fairness, and
the recovery properties assume `<>[]~trouble` where they need it.

`Approval` assumes that threads inside a call go on and that the server answers a request
it has received. Callers and approvers are free; that somebody keeps retrying, that
requests do not stay pending for ever (`[]<>(pending = {})`) and that trouble ends are
premises of `RetriesSucceed`. `Startup` assumes that a thread inside `GoOpenProvider` goes
on; `RepairTakesEffect` has the premise that the file is sound from some time on.

## Proofs

`SessionProofs`, from the named assumptions of `Session` (the sentinels are no
threads or calls; margin, window and timeout are positive and the timeout is at most
the margin, both being 30 s; cache lifetimes are any integers):

* `TypeCorrect`.
* `Throttled` needs `LockInv` (who logs in holds the session's mutex) and `ThrottleInv`
  (a failure is alive, filed under its session's identity, and its session is not
  logging in). A session cannot record a failure while another of its threads logs
  in, because both need the mutex.
* `ImplementsBreaker`: every action maps to `Fail`, `Succeed`, `Elapse` or a stutter; the
  guard of `Fail` is `ThrottleInv`.
* `ListMonotonic` needs `LockInv` and `ListInv` (an answer on its way is at least as new
  as the list it will replace): with the mutex held, nobody replaces the list
  meanwhile.
* `OnlyLiveTokensSent` assumes `LongLived` (lifetimes of at least twice the margin) and
  needs `TokenInv`: a token on its way has lost no more lifetime than its login has
  taken, which is at most the timeout and so at most the margin; a cached token
  outlives its cached expiry.

`ProviderProofs`: `TypeCorrect`, `RegistryExact` and `OwnSigner`. The invariant adds
`RegistryInv` (a handle beyond `nextHandle` is unknown to the host; a key is its
handle's Signer's) and `CallInv` (a call that waits for a signature does so for
the Signer of its handle). The one fact all threads rely on is that the host's view
of a handle it has been given changes only from held to freed.

* `RegistryExact` (`RegistryMatchesHost`): where an open returns SUCCESS it has
  registered exactly the handle it returns, and where it fails it has registered nothing.
* `SizesKeptOrModulusChanged` (`SizedCallsSucceed`), for any keys and any reissues,
  needs `Sizes`: a handle stands for one key from the moment it is opened, whether it
  is in the registry or only in a call that has looked it up before it was freed
  (`OneKey`); the size told (`ToldSize`) and every signature (`SignedSize`) are that
  key's, unless the signature is an RSA one of a Signer that has had moduli of two
  sizes. What a Signer has had only grows, so the exception, once it applies, stays.

`ApprovalProofs`, for any processes, digests and addresses (`SentinelAssumption`: no digest,
address or context value looks like one of the markers "empty", "skipped" and
"unrestricted"):

* `TypeCorrect`.
* `DeniedCases` (`OnlyDeniedCasesSigned`) and `NoDuplicates` rest on `DeniedInv` and
  `AskInv`. `DeniedInv`: from the denial on, the call is still in the situation that
  was denied, but for the address. `AskInv`: of every pending request and every grant,
  the scope the server recorded restricts exactly what the configuration does not
  exclude, to the values of the denied situation that were observed and to the address
  (`Meant`), and no two pending requests compare equal. The lemma `AskOfMeant` shows
  that the way from `RequestScope` to `Recorded` establishes it, for every set of
  excluded fields, pinned address and unobservable value. `BasisInv` keeps the grant
  behind a signature on its way applicable to the call.
* `LogTruthful` needs `CallInv` (the answer at hand tells what the server did) and the
  lemmas about the error chain: `errors.As` in `statusFromError` and the order of
  `adviceForError` lead from it to the right status and hint.

`StartupProofs`, for any contents of the file and any environments (`InputAssumption`:
they have the settings as fields and name log paths; `LogAssumption`: "no log" is no
log):

* `TypeCorrect`.
* `Precedence` and `Validated` need `LoadInv`: a thread's configuration is `Load` of the file
  as it read it, whatever the file has become. What `Load` yields is a fact about
  `setDefaults`, `applyEnvOverrides` and `validate` in the code's order.
* `Logged` needs `LogInv`: the log is set up before a session is tried, and open exactly if
  its path is usable; the path always is one of `LogPaths`, because a configuration that
  cannot be loaded falls back to the default.

`SigningContextProofs`, for command lines of any length made of any arguments, any table of
flags and any limit (`LexemeAssumption`, `LengthAssumption`):

* `TypeCorrect`, and `OneContext` from `OnceInv` (one thread at most captures, and nobody has a
  context before it is complete).
* `PlainHidden` (`PlainCredentialsHidden`) and `OnlyHidden` need `RedactInv`:
  `redactValue` is set exactly if the argument before is a credential flag, so each
  argument has become `RedactArg` of itself and that fact. The lemmas `SecretFlagIs`,
  `AssignmentIs` and `ColonFormIs` show that the tests the loop makes (`strings.Cut`,
  `flagName`, `LastIndexAny`, suffixes) accept exactly the forms by which the
  properties describe credentials.
* `CutBetweenRunes` is `TruncateIs`, a fact about all sequences of bytes that start with
  a whole rune, and `CutInv`: joining redacted arguments yields such a sequence.

With these, every invariant the runs check and the action property
`SignerListNeverRegresses` is a theorem, as is the refinement of `AuthBreaker`.

Only model-checked: the liveness properties (`EveryCallReturns`, `AuthErrorsStop`,
`RevokedTokensDropped`, `CachesConverge`, `RetriesSucceed`, `RepairTakesEffect`),
since reasoning under fairness is out of the prover's reach, and the disagreements
above.

## Not modelled

* Wording (log lines, hints, error texts, the justification of a request), JSON, TLS
  set-up except for the CA certificate, and the CNG function table.
* The contents of Signer lists: `Client.ListSigners` asks for one page of 100.
* The bytes of signatures and blobs: fixed layouts without state, which the unit tests
  compare with known values. Their lengths are in `Provider`.
* The text of URLs, durations and addresses. `parseApprovalDuration` multiplies days in
  64 bits and could wrap into the accepted range beyond 213503 days; the value is used
  for nothing else, since the server gets the text.
* The default of `log_file`: the repository's README, line 163, says "(disabled)", the code
  (`config.go:96-99`) uses the default path, and so does `Startup`.
* Approvals granted by hand on the server, without a request of the provider.
* Panics, `time` running backwards and the host unloading the DLL during a call.

## Plan

1. The safety half of the liveness properties as theorems: what bounds the life of a
   cached failure and of a revoked token (`AuthErrorsStop`, `RevokedTokensDropped`), and
   that a thread inside a call is never stuck behind a mutex nobody holds
   (`EveryCallReturns`).
2. Composition: `Provider` with `Session` in place of its nondeterministic outcomes,
   with several providers that share the failure cache.
