----------------------------- MODULE MCApproval -----------------------------
(***************************************************************************)
(* Approval.tla for two threads: the processes they run in.                *)
(***************************************************************************)
EXTENDS Approval, TLC

CONSTANTS t1, t2, d1, d2, a1, a2, v, h

Ctx(hash) == [f \in ContextFields |-> IF f = "signing_application_hash" THEN hash ELSE v]

\* The executable could be read, or not (fileSHA256 returns the empty string).
Known == Ctx(h)
Unknown == Ctx(Empty)
MCContexts == {Known, Unknown}

Conf(count, duration, excluded, pin) ==
    [signingCount |-> count, signingDuration |-> duration,
     excludeScopeFields |-> excluded, ipAddress |-> pin]

Once == Conf(1, FALSE, {}, Empty)
Batch == Conf(2, FALSE, {"data_hash"}, Empty)
AnyAddress == Conf(1, FALSE, {"ip_address"}, Empty)
Pinned == Conf(0, TRUE, {}, a2)
NoBlock == Conf(0, FALSE, {}, Empty)
MCConfigs == {Once, Batch, AnyAddress, Pinned, NoBlock}

P(ctx, cfg, work, home, via) ==
    [ctx |-> ctx, cfg |-> cfg, work |-> work, home |-> home, via |-> via]

\* Two threads of one process; processes with different configurations; machines whose
\* addresses change, restricted by address or not; a process that pins its requests to
\* another's address.
MCSetups ==
    {(t1 :> P(Known, Once, {d1, d2}, a1, {})) @@ (t2 :> P(Known, Once, {d1}, a1, {})),
     (t1 :> P(Known, Once, {d1}, a1, {})) @@ (t2 :> P(Known, Batch, {d1, d2}, a1, {})),
     (t1 :> P(Known, AnyAddress, {d1}, a1, {a2})) @@ (t2 :> P(Unknown, AnyAddress, {d1}, a2, {a1})),
     (t1 :> P(Known, Once, {d1}, a1, {a2})) @@ (t2 :> P(Known, Once, {d1}, a1, {})),
     (t1 :> P(Known, Pinned, {d1, d2}, a1, {})) @@ (t2 :> P(Known, NoBlock, {d1, d2}, a2, {}))}
=============================================================================
