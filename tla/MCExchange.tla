----------------------------- MODULE MCExchange -----------------------------
(* Small databases and foreign files for the exchange of tokens.            *)
EXTENDS Exchange, TLC

Token(type, label, issuer, secret, value, group) ==
  [type |-> type, label |-> label, issuer |-> issuer, secret |-> secret,
   digits |-> 6, value |-> value, group |-> group]

Alice == <<"alice">>
Acme == <<"Acme">>

Counter == Token("HOTP", Alice, Acme, "H", 0, Absent)
Timed == Token("TOTP", Alice, Acme, "T", 30, "work")

\* A counter beside a clock; one secret in two groups, and colons in the issuer;
\* Steam beside a token without a label; names with characters a URI escapes,
\* and a colon in the label; a counter beside a token that gives no code under
\* the same name; a counter of the issuer Steam.
MCSeeds ==
  {<<Counter, Timed>>,
   <<Timed, Token("TOTP", <<"bob">>, <<"A", "B">>, "T", 60, "home")>>,
   <<Token("TOTP", Alice, <<"steam">>, "S", 30, Absent), Token("TOTP", Absent, Acme, "T", 30, Absent)>>,
   <<Token("TOTP", <<"50%">>, Acme, "T", 30, Absent), Token("TOTP", <<"a", "b">>, <<"AT&T">>, "S", 30, Absent)>>,
   <<Counter, Token("TOTP", Alice, Acme, "=", 30, Absent)>>,
   <<Token("HOTP", Alice, <<"steam">>, "S", 1, "work"), Timed>>}

File(format, slots, entries) ==
  [format |-> format, schema |-> 4, slots |-> slots, cut |-> FALSE, entries |-> entries]

P == Slot("password", "p")
Q == Slot("password", "q")

Item(type, name, issuer, secret, digits, period, counter) ==
  [type |-> type, name |-> name, issuer |-> issuer, group |-> Absent, secret |-> secret,
   digits |-> digits, period |-> period, counter |-> counter]

\* Entries of other programs: without a name, with bad digits, of an unknown
\* type, a Steam entry without a period, a counter out of range.
MCForeign ==
  {File("aegis", <<Slot("biometric", Absent), P, Q>>, <<Item("totp", Absent, Absent, "T", 6, 30, Absent),
                           Item("mobile", Alice, Acme, "S", 6, 30, Absent),
                           Item("steam", Alice, Absent, "S", 5, Absent, Absent)>>),
   File("2fas", << >>, <<Item("steam", Alice, Absent, "S", 5, Absent, Absent),
                       Item("HOTP", Alice, Acme, "H", 6, Absent, 0)>>),
   File("authpro", <<P>>, <<Item("TOTP", Alice, Acme, "T", 11, 30, 0),
                          Item("HOTP", Alice, Acme, "T", 6, 0, CounterMax)>>),
   File("google", << >>, <<Item("TOTP", Absent, Acme, "S", 6, Absent, Absent),
                            Item("HOTP", <<"Acme", "alice">>, Absent, "T", 8, Absent, 1)>>),
   File("qr", << >>, <<[type |-> "hotp", path |-> Alice, issuer |-> Absent, secret |-> "T",
                         digits |-> Absent, period |-> Absent, counter |-> 1]>>)}

MCExportTypes == {<<"uri", Absent>>, <<"aegis", Absent>>, <<"2fas", "p">>, <<"authpro", "p">>}

MCImportTypes ==
  MCExportTypes \cup {<<"aegis", "p">>, <<"aegis", "q">>, <<"2fas", Absent>>, <<"google", Absent>>}

Line(actions, named, account, issuer, type, file) ==
  [actions |-> actions, named |-> named, account |-> account, issuer |-> issuer,
   type |-> type, file |-> file, output |-> Absent]

\* All that is accepted for the three actions, and lines that are refused: two
\* actions, a show without a filter, an import of a migration file, or of none.
MCCommandLines ==
  {Line({"show"}, FALSE, q[1], q[2], Absent, FALSE) :
     q \in {<<Alice, Absent>>, <<Absent, Acme>>, <<Alice, Acme>>, <<Absent, Absent>>}}
  \cup {Line({"import"}, named, Absent, Absent, type, TRUE) :
           named \in BOOLEAN, type \in MCImportTypes}
  \cup {Line({"export"}, FALSE, Absent, Absent, type, FALSE) : type \in MCExportTypes}
  \cup {Line({"import", "export"}, FALSE, Absent, Absent, <<"uri", Absent>>, TRUE),
        Line({"import"}, FALSE, Absent, Absent, <<"uri", Absent>>, FALSE)}

Symmetry == Permutations(Runs)
=============================================================================
