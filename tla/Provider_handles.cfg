\* Two threads open, use and free handles of two Signers, whose keys may not be supported.
SPECIFICATION Spec
CONSTANTS
    Threads = {t1, t2}
    Names = {k1, k2}
    t1 = t1
    t2 = t2
    k1 = k1
    k2 = k2
    NoName = NoName
    Keys <- TwoKeys
    Reissues <- NoReissues
    Buffers = {}
    MaxHandle = 3
SYMMETRY ThreadAndNameSymmetry
INVARIANTS
    RegistryMatchesHost
    SignsForItsOwnSigner
