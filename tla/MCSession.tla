----------------------------- MODULE MCSession -----------------------------
(***************************************************************************)
(* Session.tla on small instances: the configurations the sessions of a    *)
(* run are created with, and the symmetries of the safety runs.            *)
(***************************************************************************)
EXTENDS Session, TLC

CONSTANTS id1

Conf(method, id, cred, approval) ==
    [method |-> method, id |-> id, cred |-> cred, approval |-> approval]

\* One session per run of the program: every way to configure it.
AnyConfig ==
    {Conf("universal-auth", id1, "right", TRUE), Conf("universal-auth", NoID, "none", FALSE),
     Conf("token", NoID, "right", FALSE), Conf("token", NoID, "none", FALSE)}

\* A single, correctly configured session.
RightConfig == {Conf("universal-auth", id1, "right", FALSE)}

\* Sessions of one identity, with the right and with a wrong secret.
SharedConfigs == RightConfig \cup {Conf("universal-auth", id1, "wrong", FALSE)}

\* Sessions of one identity with a wrong secret.
WrongConfig == {Conf("universal-auth", id1, "wrong", FALSE)}

\* A cache whose lifetime is negative never hits; 0 would stand for the default.
Disabled == -1

ThreadSymmetry == Permutations(Threads)

ThreadAndSessionSymmetry == Permutations(Threads) \cup Permutations(Sessions)
=============================================================================
