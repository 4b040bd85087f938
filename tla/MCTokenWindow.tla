--------------------------- MODULE MCTokenWindow ---------------------------
(* HOTP and TOTP tokens in two databases.                                  *)
EXTENDS TokenWindow, TLC

CONSTANTS h, t, u, a, b

MCTokens == {h, t, u}
MCHotp == {h, t}
MCDbs == {a, b}
DbSymmetry == Permutations(MCDbs) \cup Permutations({h, t})

\* A state after a drop or a move that could not save is checked and not continued:
\* every property but TypeOK excepts what follows it.
Followed == ~askew
=============================================================================
