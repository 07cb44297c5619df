-------------------------- MODULE MCSigningContext --------------------------
(***************************************************************************)
(* SigningContext.tla for arguments of every form the redaction tells      *)
(* apart.                                                                  *)
(***************************************************************************)
EXTENDS SigningContext

\* The words: a value, one with a blank, two credential names, a name that is none;
\* and a rune of three bytes.
MCArgs ==
    {<<>>, <<"value">>, <<"two words">>, <<"wide", "cont", "cont">>,
     <<"/", "p">>, <<"-", "certpassword">>, <<"--", "verbose">>, <<"/", "p", ":", "value">>,
     <<"--", "verbose", ":", "value">>, <<"--", "certpassword", "=", "value">>,
     <<"p", "=", "value", "=", "wide", "cont", "cont">>, <<"/", "p", ":", "certpassword", "=", "value">>,
     <<"/", "p", ":", "verbose", "=", "value">>, <<"-", "verbose", "_", "p", "=", "value">>,
     <<"/", "verbose", ":", "certpassword">>, <<"certpassword">>, <<"p", ":", "value">>,
     <<"/", "verbose", ".", "certpassword", ":", "value">>,
     <<"-">>, <<"-", "=", "value">>}

\* What they and the rendered command are made of.
MCLexemes ==
    {"--", "-", "/", ":", ".", "_", "=", "\"", " ", "***",
     "value", "two words", "wide", "cont", "p", "pass", "certpassword", "verbose"}

\* Values after a colon, one with an equals sign, and MSBuild's properties.
ColonArgs ==
    {<<"value">>, <<"-", "pass", ":", "value">>, <<"-", "pass", ":", "value", "=", "value">>,
     <<"/", "p", ":", "verbose", "=", "value">>, <<"/", "p", ":", "certpassword", "=", "value">>}
=============================================================================
