--------------------------- MODULE SigningContext ---------------------------
(***************************************************************************)
(* internal/infisical/signing_context.go: what the provider reports of the *)
(* process it runs in.  The context is captured once per process, by the   *)
(* first thread that signs; the command line is redacted argument by       *)
(* argument, joined and cut to a maximal length.                           *)
(*                                                                         *)
(* An argument is a sequence of lexemes: flag marks, separators, and words *)
(* (maximal runs of other characters, up to case).  The redaction looks at *)
(* nothing else.  In the joined command a lexeme stands for one byte; a    *)
(* rune of more bytes is a lexeme followed by continuation bytes.          *)
(***************************************************************************)
EXTENDS Integers, SequencesExt

CONSTANTS
    Threads,
    Lexemes,             \* flag marks, separators, words and single bytes
    Args,                \* the arguments a command line is made of
    MaxArgs,             \* bound: how many there are
    Continuations,       \* the bytes of a rune after its first one
    secretCommandFlags,  \* the words of the table of that name
    PropertyFlags,       \* those of them that MSBuild takes for "property", as in /p:Name=Value
    SecretSuffixes,      \* words that end in password, passphrase or passwd
    Spaced,              \* words that contain a blank or a tab
    maxCommandLen,       \* bound on the bytes of a command
    NoContext            \* "has not called CurrentSigningContext yet"

ASSUME LengthAssumption == maxCommandLen \in Nat /\ MaxArgs \in Nat

Marks == {"--", "-", "/"}
Separators == {":", ".", "_"}
redactedValue == "***"

\* Names of credentials, whole or by their ending.
CredentialWord(x) == x \in secretCommandFlags \cup SecretSuffixes

\* Words are words, and maximal: what comes before the name of a credential is a flag
\* mark, a separator or an equals sign.  Arguments are made of whole runes.
ASSUME LexemeAssumption ==
    /\ Args \subseteq Seq(Lexemes) /\ {redactedValue, "=", "\"", " "} \subseteq Lexemes
    /\ \A x \in Marks \cup Separators \cup {"="} : ~CredentialWord(x)
    /\ \A x \in {redactedValue, "=", "\"", " "} : x \notin Continuations
    /\ \A arg \in Args : arg # <<>> => arg[1] \notin Continuations
    /\ \A arg \in Args : \A k \in 2 .. Len(arg) :
          arg[k] \in secretCommandFlags =>
              \/ arg[k - 1] \in Separators \cup {"="}
              \/ k = 2 /\ arg[1] \in Marks
              \/ arg[k] \in SecretSuffixes

VARIABLES
    args,         \* processCommandLine()
    once,         \* signingCtxOnce: "new", "running" or "done"
    signingCtx,   \* the variable of that name
    pc,           \* where a thread is
    got,          \* what CurrentSigningContext returned to it
    redacted,     \* redactCommandArgs: the result so far,
    index,        \*    the argument to look at next,
    redactValue,  \*    and whether it is the value of the flag before it
    line,         \* joinCommandArgs: the result so far,
    joined        \*    and how many arguments are in it

loop == <<redacted, index, redactValue, line, joined>>
vars == <<args, once, signingCtx, pc, got, loop>>

-----------------------------------------------------------------------------
(* Redaction of one argument *)

\* strings.Cut(arg, "=")
HasInlineValue(arg) == Contains(arg, "=")
Equals(arg) == SelectInSeq(arg, LAMBDA x : x = "=")
Key(arg) == IF HasInlineValue(arg) THEN SubSeq(arg, 1, Equals(arg) - 1) ELSE arg

flagName(token) == IF token # <<>> /\ Head(token) \in Marks THEN Tail(token) ELSE <<>>

hasSecretSuffix(name) == name # <<>> /\ Last(name) \in SecretSuffixes

IsSecret(name) == (Len(name) = 1 /\ name[1] \in secretCommandFlags) \/ hasSecretSuffix(name)

LastSeparator(name) == SelectLastInSeq(name, LAMBDA x : x \in Separators)
subKey(name) == SubSeq(name, LastSeparator(name) + 1, Len(name))

isSecretFlagName(name, hasInlineValue) ==
    name # <<>> /\ (IsSecret(name) \/ (hasInlineValue /\ IsSecret(subKey(name))))

\* isSecret, as the loop computes it for an argument.
SecretArg(arg) ==
    LET name == flagName(Key(arg)) IN
    isSecretFlagName(IF name = <<>> /\ HasInlineValue(arg) THEN Key(arg) ELSE name,
                     HasInlineValue(arg))

Colon(arg) == SelectInSeq(arg, LAMBDA x : x = ":")

\* "-pass:secret"
ColonForm(arg) ==
    /\ Colon(arg) > 1
    /\ ~HasInlineValue(arg)
    /\ isSecretFlagName(flagName(SubSeq(arg, 1, Colon(arg) - 1)), FALSE)

\* Mutant of RedactArg: a value that looks like a flag is taken for one.
RedactArgFlagsSpared(arg, isValue) ==
    IF isValue /\ ~SecretArg(arg) /\ flagName(arg) = <<>> THEN <<redactedValue>>
    ELSE IF SecretArg(arg) /\ HasInlineValue(arg) THEN Key(arg) \o <<"=", redactedValue>>
    ELSE IF ~SecretArg(arg) /\ ColonForm(arg) THEN SubSeq(arg, 1, Colon(arg)) \o <<redactedValue>>
    ELSE arg

\* What the loop in redactCommandArgs makes of an argument: the value of the flag
\* before, unless it is a credential flag itself; key=value; -flag:value; anything else.
RedactArg(arg, isValue) ==
    IF isValue /\ ~SecretArg(arg) THEN <<redactedValue>>
    ELSE IF SecretArg(arg) /\ HasInlineValue(arg) THEN Key(arg) \o <<"=", redactedValue>>
    ELSE IF ~SecretArg(arg) /\ ColonForm(arg) THEN SubSeq(arg, 1, Colon(arg)) \o <<redactedValue>>
    ELSE arg

\* Mutant of NextIsValue: a value does not end the redaction.
NextIsValueNoReset(arg) == redactValue \/ (SecretArg(arg) /\ ~HasInlineValue(arg))

\* Does the loop set redactValue?  It has reset it before.
NextIsValue(arg) == SecretArg(arg) /\ ~HasInlineValue(arg)

-----------------------------------------------------------------------------
(* Joining and truncation *)

\* An argument that is empty or contains whitespace is quoted.
Render(arg) ==
    IF arg = <<>> THEN <<"\"", "\"">>
    ELSE IF \E k \in DOMAIN arg : arg[k] \in Spaced THEN <<"\"">> \o arg \o <<"\"">>
    ELSE arg

\* utf8.RuneStart
RuneStart(b) == b \notin Continuations

\* Mutant of truncateCommand: cut wherever the limit falls.
truncateCommandAnywhere(command) ==
    IF Len(command) <= maxCommandLen THEN command ELSE SubSeq(command, 1, maxCommandLen)

\* command[cut] in Go is command[cut + 1] here.
truncateCommand(command) ==
    LET cuts == {c \in 0 .. maxCommandLen : c = 0 \/ RuneStart(command[c + 1])} IN
    IF Len(command) <= maxCommandLen THEN command
    ELSE SubSeq(command, 1, CHOOSE c \in cuts : \A d \in cuts : d <= c)

-----------------------------------------------------------------------------
(* CurrentSigningContext *)

Context == [application : {"app", ""}, applicationHash : {"hash", ""}, command : Seq(Lexemes),
            hostname : {"host", ""}, osUsername : {"user", ""}]

Blank == [application |-> "", applicationHash |-> "", command |-> <<>>,
          hostname |-> "", osUsername |-> ""]

\* What os.Executable, filepath.Base and fileSHA256 yield; each may fail.
Executables == {<<"app", "hash">>, <<"app", "">>, <<"", "">>}

Enter(t) ==
    /\ pc[t] = "idle"
    /\ pc' = [pc EXCEPT ![t] = "once"]
    /\ UNCHANGED <<args, once, signingCtx, got, loop>>

\* The first thread runs the function.
ReadExecutable(t) ==
    /\ pc[t] = "once" /\ once = "new"
    /\ \E exe \in Executables :
          signingCtx' = [application |-> exe[1], applicationHash |-> exe[2], command |-> <<>>,
                         hostname |-> "", osUsername |-> ""]
    /\ once' = "running"
    /\ pc' = [pc EXCEPT ![t] = "redact"]
    /\ redacted' = args /\ index' = 1 /\ redactValue' = FALSE
    /\ UNCHANGED <<args, got, line, joined>>

\* Mutant of Redact: the redacted arguments are added to the others.
RedactAppends(t) ==
    /\ pc[t] = "redact" /\ index <= Len(redacted)
    /\ redacted' = Append(redacted, RedactArg(redacted[index], redactValue))
    /\ redactValue' = NextIsValue(redacted[index])
    /\ index' = index + 1
    /\ UNCHANGED <<args, once, signingCtx, pc, got, line, joined>>

Redact(t) ==
    /\ pc[t] = "redact" /\ index <= Len(redacted)
    /\ redacted' = [redacted EXCEPT ![index] = RedactArg(redacted[index], redactValue)]
    /\ redactValue' = NextIsValue(redacted[index])
    /\ index' = index + 1
    /\ UNCHANGED <<args, once, signingCtx, pc, got, line, joined>>

\* joinCommandArgs
Join(t) ==
    /\ pc[t] = "redact" /\ index > Len(redacted) /\ joined < Len(redacted)
    /\ line' = line \o (IF joined = 0 THEN <<>> ELSE <<" ">>) \o Render(redacted[joined + 1])
    /\ joined' = joined + 1
    /\ UNCHANGED <<args, once, signingCtx, pc, got, redacted, index, redactValue>>

\* The rest of the function; either of the last two values may be unavailable.
Capture(t) ==
    /\ pc[t] = "redact" /\ index > Len(redacted) /\ joined = Len(redacted)
    /\ \E host \in {"host", ""}, user \in {"user", ""} :
          signingCtx' = [application |-> signingCtx.application,
                         applicationHash |-> signingCtx.applicationHash,
                         command |-> truncateCommand(line),
                         hostname |-> host, osUsername |-> user]
    /\ once' = "done"
    /\ pc' = [pc EXCEPT ![t] = "once"]
    /\ UNCHANGED <<args, got, loop>>

\* Mutant of Return: a thread that finds the function started does not wait for it.
ReturnEarly(t) ==
    /\ pc[t] = "once" /\ once # "new"
    /\ got' = [got EXCEPT ![t] = signingCtx]
    /\ pc' = [pc EXCEPT ![t] = "idle"]
    /\ UNCHANGED <<args, once, signingCtx, loop>>

\* Once.Do returns when the function has, and the context is handed out.
Return(t) ==
    /\ pc[t] = "once" /\ once = "done"
    /\ got' = [got EXCEPT ![t] = signingCtx]
    /\ pc' = [pc EXCEPT ![t] = "idle"]
    /\ UNCHANGED <<args, once, signingCtx, loop>>

Init ==
    /\ \E n \in 1 .. MaxArgs : args \in [1 .. n -> Args]
    /\ once = "new"
    /\ signingCtx = Blank
    /\ pc = [t \in Threads |-> "idle"]
    /\ got = [t \in Threads |-> NoContext]
    /\ redacted = <<>>
    /\ index = 1
    /\ redactValue = FALSE
    /\ line = <<>>
    /\ joined = 0

Next == \E t \in Threads :
    Enter(t) \/ ReadExecutable(t) \/ Redact(t) \/ Join(t) \/ Capture(t) \/ Return(t)

Spec == Init /\ [][Next]_vars

-----------------------------------------------------------------------------
(* Properties *)

\* The arguments that redaction is for: a flag whose value is the next argument,
\* key=value, and -flag:value.
Flag(arg) == arg # <<>> /\ arg[1] \in Marks

CredentialFlag(arg) ==
    /\ Flag(arg) /\ Len(arg) > 1 /\ ~HasInlineValue(arg)
    /\ (Len(arg) = 2 /\ CredentialWord(arg[2])) \/ Last(arg) \in SecretSuffixes

CredentialAssignment(arg) ==
    \E k \in 1 .. Len(arg) - 1 :
        /\ CredentialWord(arg[k]) /\ arg[k + 1] = "="
        /\ \A j \in 1 .. k : arg[j] # "="

FlagWithCredential(arg) ==
    /\ Flag(arg) /\ ~HasInlineValue(arg) /\ ~CredentialFlag(arg)
    /\ \E k \in 2 .. Len(arg) - 1 :
          /\ (k = 2 /\ CredentialWord(arg[2])) \/ arg[k] \in SecretSuffixes
          /\ arg[k + 1] = ":" /\ \A j \in 1 .. k : arg[j] # ":"

Looked == {j \in DOMAIN redacted : j < index}

\* One type for every variable.
TypeOK ==
    /\ args \in Seq(Args)
    /\ once \in {"new", "running", "done"}
    /\ signingCtx \in Context
    /\ pc \in [Threads -> {"idle", "once", "redact"}]
    /\ got \in [Threads -> Context \cup {NoContext}]
    /\ redacted \in Seq(Seq(Lexemes))
    /\ redacted # <<>> => Len(redacted) = Len(args)
    /\ index \in 1 .. Len(args) + 1
    /\ redactValue \in BOOLEAN
    /\ line \in Seq(Lexemes)
    /\ joined \in 0 .. Len(args)

\* Where a credential begins in an argument, whatever it consists of: after the equals
\* sign that follows its name, or after the colon, unless MSBuild takes that for a
\* property; and at the start of the argument after a flag that bears its name.
AfterEquals(arg, c) ==
    /\ c \in 3 .. Len(arg) + 1
    /\ CredentialWord(arg[c - 2]) /\ arg[c - 1] = "="
    /\ \A k \in 1 .. c - 2 : arg[k] # "="

AfterColon(arg, c) ==
    /\ Flag(arg) /\ c \in 4 .. Len(arg) + 1
    /\ (c = 4 /\ CredentialWord(arg[2])) \/ arg[c - 2] \in SecretSuffixes
    /\ arg[c - 1] = ":" /\ \A k \in 1 .. c - 2 : arg[k] \notin {":", "="}
    /\ ~(arg[2] \in PropertyFlags /\ HasInlineValue(arg))

AfterFlag(j) == j > 1 /\ CredentialFlag(args[j - 1]) /\ ~Contains(args[j - 1], ":")

\* Argument j is left as it was at most up to the place c, and "***" takes over.
HiddenFrom(j, c) ==
    LET r == redacted[j] IN
    /\ Len(r) \in 1 .. c /\ r[Len(r)] = redactedValue
    /\ \A k \in 1 .. Len(r) - 1 : r[k] = args[j][k]

\* The rest of an argument, from c on, has no equals sign and does not end like the
\* name of a credential.
PlainFrom(arg, c) ==
    /\ \A k \in c .. Len(arg) : arg[k] # "="
    /\ c <= Len(arg) => ~CredentialWord(arg[Len(arg)])

\* Nothing is left of a credential that is assigned with "=", whatever it consists of,
\* nor of one that is plain and comes after a colon or as an argument of its own, be it
\* one that looks like a flag, and whatever comes before (signing_context.go:97-134,
\* README.md:260, 271).
PlainCredentialsHidden ==
    \A j \in Looked : \A c \in 1 .. Len(args[j]) + 1 :
        \/ AfterEquals(args[j], c)
        \/ PlainFrom(args[j], c) /\ (AfterColon(args[j], c) \/ (c = 1 /\ AfterFlag(j)))
        => HiddenFrom(j, c)

\* What signing_context_test.go:100 says: "Whatever shape a credential arrives in, it
\* must never survive into the value that is sent and stored", and :84 of a value that
\* looks like a flag (signing_context.go:109-131).
NoCredentialSurvives ==
    \A j \in Looked : \A c \in 1 .. Len(args[j]) + 1 :
        AfterEquals(args[j], c) \/ AfterColon(args[j], c) \/ (c = 1 /\ AfterFlag(j))
        => HiddenFrom(j, c)

\* Nothing else is changed, so that the approver sees the command and the server can
\* compare it (signing_context.go:97-134, README.md:269).
OnlyCredentialsHidden ==
    \A j \in Looked : redacted[j] # args[j] =>
        \/ CredentialAssignment(args[j]) \/ FlagWithCredential(args[j])
        \/ j > 1 /\ CredentialFlag(args[j - 1])

\* The command is the longest prefix of the joined arguments that fits and consists of
\* whole runes (signing_context.go:151-160).
CommandCutBetweenRunes ==
    once = "done" =>
        LET n == Len(signingCtx.command) IN
        /\ n <= maxCommandLen
        /\ signingCtx.command = SubSeq(line, 1, n)
        /\ n < Len(line) =>
              /\ RuneStart(line[n + 1])
              /\ \A m \in n + 1 .. Len(line) :
                    m = Len(line) \/ RuneStart(line[m + 1]) => m > maxCommandLen

\* All threads of a process, those that came while it was being captured too, report
\* the same, complete context, so that a retry matches the request of another thread
\* (signing_context.go:170-188).
OneContextPerProcess ==
    \A t \in Threads : got[t] # NoContext => once = "done" /\ got[t] = signingCtx

-----------------------------------------------------------------------------
(* The parts of the inductive invariant that SigningContextProofs establishes *)

\* One thread at most captures, and nobody has a context before it is complete.
OnceInv ==
    /\ \A t \in Threads : pc[t] = "redact" => once = "running"
    /\ \A t, u \in Threads : pc[t] = "redact" /\ pc[u] = "redact" => t = u
    /\ OneContextPerProcess

\* Is argument j the value of a credential flag?
IsValue(j) == j > 1 /\ CredentialFlag(args[j - 1])

\* redactValue remembers just that, and the arguments are redacted up to index.
RedactInv ==
    /\ once = "new" => redacted = <<>> /\ index = 1
    /\ once # "new" => Len(redacted) = Len(args)
    /\ redactValue = IsValue(index)
    /\ \A j \in DOMAIN redacted :
          redacted[j] = IF j < index THEN RedactArg(args[j], IsValue(j)) ELSE args[j]

\* A text that starts with the first byte of a rune, if it is not empty.
StartsRune(s) == s # <<>> => RuneStart(s[1])

CutInv ==
    /\ StartsRune(line)
    /\ once = "done" => signingCtx.command = truncateCommand(line)
=============================================================================
