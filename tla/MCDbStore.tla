----------------------------- MODULE MCDbStore -----------------------------
(* Two handles on one database, one valid token and two copies of one that *)
(* does not validate.                                                      *)
EXTENDS DbStore, TLC

CONSTANTS h1, h2, t1, bad

MCHandles == {h1, h2}
MCTokens == {t1, bad}
MCInvalid == {bad}
MCSeeds == {[t \in MCTokens |-> IF t = bad THEN 2 ELSE 1]}
MCOneToken == {t1}
MCNone == {}
MCOneSeed == {[t \in MCOneToken |-> 1]}
MCSymmetry == Permutations(MCHandles)
=============================================================================
