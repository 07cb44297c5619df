\* Two threads; command lines of up to three arguments of every form; commands of at most
\* nine bytes.
SPECIFICATION Spec
CONSTANTS
    Threads = {t1, t2}
    t1 = t1
    t2 = t2
    Lexemes <- MCLexemes
    Args <- MCArgs
    MaxArgs = 3
    Continuations = {"cont"}
    secretCommandFlags = {"p"}
    PropertyFlags = {"p"}
    SecretSuffixes = {"certpassword"}
    Spaced = {"two words"}
    maxCommandLen = 9
    NoContext = NoContext
INVARIANTS
    TypeOK
    
    OnlyCredentialsHidden
    CommandCutBetweenRunes
    OneContextPerProcess
