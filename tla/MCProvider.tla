----------------------------- MODULE MCProvider -----------------------------
(***************************************************************************)
(* Provider.tla on small instances.                                        *)
(***************************************************************************)
EXTENDS Provider, TLC

RSA(bits) == [type |-> "RSA", bits |-> bits]
ECDSA(bits) == [type |-> "ECDSA", bits |-> bits]
Ed25519 == [type |-> "other", bits |-> 256]

\* A key that can be opened and one that cannot, never changed.
TwoKeys == {ECDSA(256), Ed25519}
NoReissues == {}

\* Curves, one of which CNG has no blob for, and moduli of two sizes; any of these
\* keys takes the place of any other.
Moduli == {RSA(2048), RSA(3072)}
CurvesAndModuli == {ECDSA(224), ECDSA(521)} \cup Moduli
AnyReissue == CurvesAndModuli \X CurvesAndModuli

\* An RSA Signer reissued with a larger or a smaller modulus.
ModulusReissues == Moduli \X Moduli

ThreadSymmetry == Permutations(Threads)
ThreadAndNameSymmetry == Permutations(Threads) \cup Permutations(Names)
=============================================================================
