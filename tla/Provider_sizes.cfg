\* Curves and moduli of two sizes; certificates reissued for any other key.
SPECIFICATION Spec
CONSTANTS
    Threads = {t1, t2}
    Names = {k1}
    t1 = t1
    t2 = t2
    k1 = k1
    NoName = NoName
    Keys <- CurvesAndModuli
    Reissues <- AnyReissue
    Buffers = {}
    MaxHandle = 2
SYMMETRY ThreadSymmetry
INVARIANTS
    TypeOK
    SizedCallsSucceed
