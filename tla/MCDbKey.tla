------------------------------ MODULE MCDbKey ------------------------------
(* Two passwords, one of them not ASCII, and two sets of parameters.        *)
EXTENDS DbKey

CONSTANTS ascii, umlaut, weak, strong, absurd

MCPasswords == {ascii, umlaut}
MCNonAscii == {umlaut}
MCParams == {weak, strong}
MCAll == {[ver |-> 1, cut |-> TRUE], [ver |-> 2, cut |-> TRUE],
          [ver |-> 2, cut |-> FALSE], [ver |-> 3, cut |-> FALSE]}
MCCurrent == {[ver |-> 2, cut |-> FALSE], [ver |-> 3, cut |-> FALSE]}
=============================================================================
