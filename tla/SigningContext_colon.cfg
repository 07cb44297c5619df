\* Two threads; command lines of up to two arguments, some with a value after a colon.
SPECIFICATION Spec
CONSTANTS
    Threads = {t1, t2}
    t1 = t1
    t2 = t2
    Lexemes <- MCLexemes
    Args <- ColonArgs
    MaxArgs = 2
    Continuations = {"cont"}
    secretCommandFlags = {"p", "pass"}
    PropertyFlags = {"p"}
    SecretSuffixes = {"certpassword"}
    Spaced = {"two words"}
    maxCommandLen = 20
    NoContext = NoContext
INVARIANTS
    NoCredentialSurvives
