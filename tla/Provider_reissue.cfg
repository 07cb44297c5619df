\* One thread; an RSA Signer reissued with a modulus of another size.
SPECIFICATION Spec
CONSTANTS
    Threads = {t1}
    Names = {k1}
    t1 = t1
    k1 = k1
    NoName = NoName
    Keys <- Moduli
    Reissues <- ModulusReissues
    Buffers = {64}
    MaxHandle = 2
INVARIANTS
    SizingCallIsExact
