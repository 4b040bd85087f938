-------------------------- MODULE MCSearchProvider --------------------------
(* Two TOTP tokens and a HOTP token; one query finds both.                  *)
EXTENDS SearchProvider, TLC

CONSTANTS t, u, h, s1, s2, both, one

MCTokens == {t, u, h}
MCTotp == {t, u}
MCFiles == {<<t, u>>, <<h, t, u>>}
MCSenders == {s1, s2}
MCQueries == {both, one}
MCMatches == (both :> MCTotp) @@ (one :> {t})
=============================================================================
