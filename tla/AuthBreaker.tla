---------------------------- MODULE AuthBreaker ----------------------------
(***************************************************************************)
(* What the process-wide authentication-failure cache promises.            *)
(*                                                                         *)
(* Per client identity there is a window that opens when a login failure   *)
(* is recorded, is prolonged by every further failure, and closes when it  *)
(* runs out or when a login of that identity succeeds.  The promise: while *)
(* a window is open no session adds a second failure to it.  The number of *)
(* failed logins a server sees per window is therefore at most the number  *)
(* of sessions that share the identity, however often their callers retry. *)
(*                                                                         *)
(* Session.tla implements this specification (Breaker!Spec there).         *)
(***************************************************************************)
EXTENDS Integers

CONSTANTS
    Sessions,   \* the sessions of one process
    Keys,       \* the identities failures are cached under
    TTL         \* how long one recorded failure keeps the window open

VARIABLES
    window,     \* window[k]: ticks until the window of k closes, 0 when closed
    failed      \* failed[k]: the sessions that failed in the open window of k

vars == <<window, failed>>

Init ==
    /\ window = [k \in Keys |-> 0]
    /\ failed = [k \in Keys |-> {}]

\* A login of session s under k fails: s had not failed in this window yet.
Fail(s, k) ==
    /\ s \notin failed[k]
    /\ window' = [window EXCEPT ![k] = TTL]
    /\ failed' = [failed EXCEPT ![k] = @ \cup {s}]

\* A login under k succeeds: the window closes.
Succeed(k) ==
    /\ window' = [window EXCEPT ![k] = 0]
    /\ failed' = [failed EXCEPT ![k] = {}]

\* Time passes; a window that runs out is forgotten.
Elapse ==
    /\ window' = [k \in Keys |-> IF window[k] > 0 THEN window[k] - 1 ELSE 0]
    /\ failed' = [k \in Keys |-> IF window[k] > 1 THEN failed[k] ELSE {}]

Next ==
    \/ \E s \in Sessions, k \in Keys : Fail(s, k)
    \/ \E k \in Keys : Succeed(k)
    \/ Elapse

Spec == Init /\ [][Next]_vars
=============================================================================
