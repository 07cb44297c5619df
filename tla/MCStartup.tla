----------------------------- MODULE MCStartup -----------------------------
(***************************************************************************)
(* Startup.tla for a few configuration files and environments.             *)
(***************************************************************************)
EXTENDS Startup, TLC

\* EmptyConfig with other values in the fields of a record.
With(r) == r @@ EmptyConfig

MCFiles ==
    {Missing, Unreadable, Malformed,
     With([serverURL |-> "https://file", clientID |-> "file", clientSecret |-> "file",
           ttl |-> 60, logFile |-> "custom.log"]),
     With([serverURL |-> "https://file", token |-> "file", duration |-> "within", count |-> 1,
           scope |-> "wellformed"]),
     With([serverURL |-> "https://file", method |-> "universal-auth", token |-> "file",
           caCertPath |-> "bad.pem", logFile |-> "custom.log"]),
     With([serverURL |-> "https://file", duration |-> "long"]),
     With([serverURL |-> "https://file", count |-> -1]),
     With([serverURL |-> "https://file", scope |-> "illformed"]),
     With([serverURL |-> "ftp://file", method |-> "universal-auth", caCertPath |-> "ca.pem"])}

Env(url, id, secret, tok, path) ==
    [serverURL |-> url, clientID |-> id, clientSecret |-> secret, token |-> tok,
     configPath |-> path]

MCEnvironments ==
    {Env("", "", "", "", "config.json"), Env("https://env", "env", "env", "", ""),
     Env("", "", "", "env", ""), Env("https://", "env", "", "env", "")}
=============================================================================
