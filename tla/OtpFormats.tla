----------------------------- MODULE OtpFormats -----------------------------
(***************************************************************************)
(* Tokens as the database stores them, and the backup files of the other   *)
(* programs they are read from and written to: otp-validation.c,           *)
(* build_json_obj and the importers and exporters of FreeOTP+ (otpauth     *)
(* URIs), Aegis, 2FAS, Authenticator Pro and Google's migration QR codes.  *)
(*                                                                         *)
(* A name is the sequence of its words between colons, for the one thing   *)
(* the formats do to names is to join and split them at a colon; the       *)
(* empty name has one empty word.  The algorithm travels beside the digits *)
(* everywhere and is left out: an entry with an unsupported one is skipped *)
(* like an entry of an unsupported type.  period and counter share a union *)
(* in otp_t and are exclusive in a stored token: both are `value'.         *)
(***************************************************************************)
EXTENDS Integers, Sequences, FiniteSets, SequencesExt

CONSTANTS
  Absent,       \* a NULL string, a missing JSON key or URI parameter
  Secrets,      \* the Base32 secrets
  Percent,      \* the words that hold a % no two hex digits follow
  Ampersand,    \* the words that hold a &
  CounterMax,   \* OTP_HOTP_COUNTER_MAX, 2^48 in the code
  UintWrap      \* the width of a guint32, 2^32 in the code

ASSUME CounterMaxAssumption == CounterMax \in Nat \ {0}
ASSUME UintWrapAssumption == UintWrap \in Nat /\ UintWrap > 120

\* What is absent is neither a number nor a name; the word Steam has no percent.
ASSUME AbsentAssumption == Absent \notin Nat \cup {<<"Steam">>, <<"steam">>}
ASSUME PercentAssumption == "Steam" \notin Percent

Empty == <<"">>
Name(n) == IF n = Absent THEN Empty ELSE n
Number(n) == IF n = Absent THEN 0 ELSE n
Uint(n) == n % UintWrap

\* The elements of s at the positions in I, in their order.
Pick(s, I) ==
  [k \in 1 .. Cardinality(I) |->
     s[CHOOSE i \in I : Cardinality({j \in I : j <= i}) = k]]

IsTotp(t) == t.type \in {"TOTP", "totp"}
IsHotp(t) == t.type \in {"HOTP", "hotp"}
IsSteam(issuer) == issuer \in {<<"Steam">>, <<"steam">>}
Lower(t) == IF IsTotp(t) THEN "totp" ELSE "hotp"
Upper(t) == IF IsTotp(t) THEN "TOTP" ELSE "HOTP"

-----------------------------------------------------------------------------
(* Validation and repair.                                                   *)

\* A name has words, or there is none.
IsWords(n) == n \in Seq(ToSet(n)) /\ n # << >>
IsName(n) == n = Absent \/ IsWords(n)

\* What a token holds, and nothing else.
IsToken(t) ==
  /\ t = [type |-> t.type, label |-> t.label, issuer |-> t.issuer, secret |-> t.secret,
          digits |-> t.digits, value |-> t.value, group |-> t.group]
  /\ IsName(t.label) /\ IsName(t.issuer)

Named(t) == Name(t.label) # Empty \/ Name(t.issuer) # Empty

DigitsOk(n) == n \in 4 .. 10
PeriodOk(n) == n \in 1 .. 120
CounterOk(n) == n \in 0 .. CounterMax - 1

Valid(t) ==
  /\ IsTotp(t) \/ IsHotp(t)
  /\ Named(t)
  /\ t.secret \in Secrets
  /\ DigitsOk(t.digits)
  /\ IF IsTotp(t) THEN PeriodOk(t.value) ELSE CounterOk(t.value)

\* The same of a token that was read: its period is 32 bits of a counter.
Importable(o) ==
  /\ IsTotp(o) \/ IsHotp(o)
  /\ Named(o)
  /\ o.secret \in Secrets
  /\ DigitsOk(o.digits)
  /\ IF IsTotp(o) THEN PeriodOk(Uint(o.value)) ELSE CounterOk(o.value)

ValidRoot(T) == \A i \in DOMAIN T : Valid(T[i])

\* A token without a name is called after its position in its list, from 0.
Repaired(t, i) ==
  IF Named(t) THEN t ELSE [t EXCEPT !.label = <<"Unknown " \o ToString(i - 1)>>]

\* build_json_obj: what is stored of a token that was read.
BuildObj(o) ==
  [o EXCEPT !.label = Name(@), !.issuer = Name(@),
            !.group = IF @ = "" THEN Absent ELSE @]

-----------------------------------------------------------------------------
(* otpauth URIs, one a line: FreeOTP+.                                      *)

\* A token without a label is written as an empty line.
UriOf(t) ==
  [type    |-> IF IsSteam(t.issuer) THEN "totp" ELSE Lower(t),
   path    |-> IF IsSteam(t.issuer) THEN <<"Steam">> \o t.label
               ELSE IF Name(t.issuer) # Empty THEN t.issuer \o t.label
               ELSE t.label,
   issuer  |-> IF Name(t.issuer) = Empty THEN Absent ELSE t.issuer,
   secret  |-> t.secret,
   digits  |-> t.digits,
   period  |-> IF IsTotp(t) THEN t.value ELSE Absent,
   counter |-> IF IsTotp(t) THEN Absent ELSE t.value]

ExportUris(T) ==
  LET labelled == Pick(T, {i \in DOMAIN T : T[i].label # Absent})
  IN  [i \in DOMAIN labelled |-> UriOf(labelled[i])]

\* g_uri_parse decodes the path and the query; the path, which may not be empty, is then
\* decoded again and the query split at its ampersands.
Parses(u) ==
  /\ u.type \in {"totp", "hotp"}
  /\ u.path # Empty
  /\ ToSet(u.path) \cap Percent = {}
  /\ u.issuer # Absent => ToSet(u.issuer) \cap (Percent \cup Ampersand) = {}

\* A number out of range is passed over.  The counter is read after the
\* period, into the same union.
UriValue(u) ==
  LET default == IF u.type = "totp" THEN 30 ELSE 0
      period == IF u.period # Absent /\ PeriodOk(u.period) THEN u.period ELSE default
      value == IF u.counter # Absent /\ CounterOk(u.counter) THEN u.counter ELSE period
  IN  IF u.type = "totp" THEN Uint(value) ELSE value

UriDigits(u) == IF u.digits # Absent /\ DigitsOk(u.digits) THEN u.digits ELSE 6

\* Mutant of ReadUri: the label keeps the issuer in front of it.
ReadUriWhole(u) ==
  [type   |-> IF u.type = "totp" THEN "TOTP" ELSE "HOTP",
   label  |-> u.path,
   issuer |-> Name(u.issuer),
   secret |-> u.secret,
   digits |-> UriDigits(u),
   value  |-> UriValue(u),
   group  |-> Absent]

ReadUri(u) ==
  [type   |-> IF u.type = "totp" THEN "TOTP" ELSE "HOTP",
   label  |-> IF Len(u.path) > 1 THEN Tail(u.path) ELSE u.path,
   issuer |-> IF u.issuer # Absent THEN u.issuer
              ELSE IF Len(u.path) > 1 THEN <<Head(u.path)>> ELSE Empty,
   secret |-> u.secret,
   digits |-> UriDigits(u),
   value  |-> UriValue(u),
   group  |-> Absent]

\* Only tokens that validate are kept, named by how many were kept before: a
\* name that is repaired is valid, whatever its number.
ReadUris(uris) ==
  LET good == {i \in DOMAIN uris :
                 Parses(uris[i]) /\ Importable(Repaired(ReadUri(uris[i]), 1))}
      kept == Pick(uris, good)
  IN  [i \in DOMAIN kept |-> Repaired(ReadUri(kept[i]), i)]

-----------------------------------------------------------------------------
(* Aegis, 2FAS and Authenticator Pro: JSON, an entry for each token.        *)

Entry(t, type, issuer) ==
  [type    |-> type,
   name    |-> t.label,
   issuer  |-> issuer,
   group   |-> t.group,
   secret  |-> t.secret,
   digits  |-> t.digits,
   period  |-> IF IsTotp(t) THEN t.value ELSE Absent,
   counter |-> IF IsTotp(t) THEN Absent ELSE t.value]

Otp(e, type, issuer, value, group) ==
  [type |-> type, label |-> e.name, issuer |-> issuer, secret |-> e.secret,
   digits |-> Uint(e.digits), value |-> value, group |-> group]

ValueIn(e) ==
  IF e.type \in {"HOTP", "hotp"} THEN Number(e.counter) ELSE Uint(Number(e.period))

ExportAegis(T) ==
  [i \in DOMAIN T |->
     Entry(T[i], IF IsSteam(T[i].issuer) THEN "steam" ELSE Lower(T[i]),
           IF Name(T[i].issuer) = Empty THEN Absent ELSE T[i].issuer)]

\* The type is kept as it is spelled in the file.
ReadAegis(e) ==
  IF e.type = "steam"
    THEN Otp(e, "TOTP", <<"Steam">>, IF ValueIn(e) = 0 THEN 30 ELSE ValueIn(e), e.group)
    ELSE Otp(e, e.type, e.issuer, ValueIn(e), e.group)

AegisKnows(e) == e.type \in {"TOTP", "totp", "HOTP", "hotp", "steam"}

\* The "STEAM" written as tokenType is overwritten further down.
ExportTwofas(T) ==
  [i \in DOMAIN T |->
     Entry(T[i], Upper(T[i]),
           IF IsSteam(T[i].issuer) THEN <<"Steam">> ELSE T[i].issuer)]

ReadTwofas(e) ==
  IF e.type = "steam"
    THEN Otp(e, "TOTP", <<"Steam">>, ValueIn(e), e.group)
    ELSE Otp(e, IF e.type \in {"TOTP", "totp"} THEN "TOTP" ELSE "HOTP",
             e.issuer, ValueIn(e), e.group)

\* Authenticator Pro's type codes are 1, 2 and 4, its unused number is 0.
ExportAuthpro(T) ==
  [i \in DOMAIN T |->
     LET issuer == IF IsSteam(T[i].issuer) THEN <<"Steam">> ELSE T[i].issuer
         type == IF IsTotp(T[i]) /\ IsSteam(issuer) THEN "steam" ELSE Upper(T[i])
         e == Entry(T[i], type, issuer)
     IN  [e EXCEPT !.period = Number(@), !.counter = Number(@)]]

\* It keeps the groups apart, by secret; the first group of a secret counts.
GroupOf(entries, secret) ==
  LET of == {i \in DOMAIN entries :
               entries[i].secret = secret /\ entries[i].group \notin {Absent, ""}}
  IN  IF of = {} THEN Absent ELSE Pick(entries, of)[1].group

ReadAuthpro(e, entries) ==
  LET group == GroupOf(entries, e.secret)
  IN  IF e.type = "steam"
        THEN Otp(e, "TOTP", <<"Steam">>, ValueIn(e), group)
        ELSE Otp(e, e.type, e.issuer, ValueIn(e), group)

-----------------------------------------------------------------------------
(* Google's migration payload: what is not valid is left out there.         *)

GoogleKnows(e) == e.type \in {"TOTP", "HOTP"} /\ Name(e.name) # Empty

ReadGoogle(e) ==
  LET account == IF Len(e.name) > 1 /\ Tail(e.name) # Empty THEN Tail(e.name) ELSE e.name
  IN  [type |-> e.type, label |-> account, issuer |-> Name(e.issuer),
       secret |-> e.secret, digits |-> IF e.digits = 8 THEN 8 ELSE 6,
       value |-> IF e.type = "TOTP" THEN 30 ELSE Number(e.counter), group |-> Absent]

ReadAllGoogle(entries) ==
  LET known == Pick(entries, {i \in DOMAIN entries : GoogleKnows(entries[i])})
      read == [i \in DOMAIN known |-> ReadGoogle(known[i])]
  IN  Pick(read, {i \in DOMAIN read : Importable(read[i])})

-----------------------------------------------------------------------------
(* Files.  `slots' says who may open one: a plain file has none, an Aegis    *)
(* file one for each password and finger, the other formats at most one.    *)
(* A slot is sound when its salt, nonce, tag and parameters are in range.   *)
(* `cut' is set when a write that failed left only the first bytes behind.  *)

Slot(kind, password) == [kind |-> kind, password |-> password, sound |-> TRUE]

Sealed(password) == IF password = Absent THEN << >> ELSE <<Slot("password", password)>>

Export(format, password, T) ==
  [format  |-> format,
   schema  |-> 4,
   slots   |-> Sealed(password),
   cut     |-> FALSE,
   entries |-> CASE format = "uri" -> ExportUris(T)
                 [] format = "aegis" -> ExportAegis(T)
                 [] format = "2fas" -> ExportTwofas(T)
                 [] format = "authpro" -> ExportAuthpro(T)]

\* Half a JSON text and half a ciphertext are refused.  Of a text of lines what
\* is there is read: here the first half, its last line broken off behind the
\* secret, so that its numbers are missing.  An Aegis file ends in NULs; one that is cut
\* among them reads as the whole file and is not cut here.
Cut(file) ==
  LET half == (Len(file.entries) + 1) \div 2
      Broken(u) == [u EXCEPT !.issuer = Absent, !.digits = Absent,
                             !.period = Absent, !.counter = Absent]
  IN  [file EXCEPT !.cut = TRUE,
                   !.entries = IF file.format = "uri"
                                 THEN [i \in 1 .. half |-> IF i = half THEN Broken(@[i]) ELSE @[i]]
                                 ELSE << >>]

\* The tag fits: nothing is read of a plaintext that is not authentic.
Unseals(slot, password) == slot.sound /\ slot.password = password

\* Only the first of the slots for a password is tried.
AegisOpens(file, password) ==
  LET passwords == {i \in DOMAIN file.slots : file.slots[i].kind = "password"}
  IN  IF password = Absent THEN file.slots = << >>
      ELSE passwords # {} /\ Unseals(Pick(file.slots, passwords)[1], password)

\* An encrypted file has an empty list of services beside the sealed one.
TwofasOpens(file, password) ==
  /\ file.schema = 4
  /\ IF password = Absent THEN file.slots = << >>
     ELSE file.slots # << >> /\ Unseals(Head(file.slots), password)

AuthproOpens(file, password) ==
  IF password = Absent THEN file.slots = << >>
  ELSE file.slots # << >> /\ Unseals(Head(file.slots), password)

Opens(file, format, password) ==
  /\ file.format = format
  /\ ~file.cut
  /\ CASE format = "aegis" -> AegisOpens(file, password)
       [] format = "2fas" -> TwofasOpens(file, password)
       [] format = "authpro" -> AuthproOpens(file, password)
       [] OTHER -> password = Absent

ReadEntries(file) ==
  LET e == file.entries
      aegis == Pick(e, {i \in DOMAIN e : AegisKnows(e[i])})
  IN  CASE file.format = "aegis" -> [i \in DOMAIN aegis |-> ReadAegis(aegis[i])]
        [] file.format = "2fas" -> [i \in DOMAIN aegis |-> ReadTwofas(aegis[i])]
        [] file.format = "authpro" -> [i \in DOMAIN aegis |-> ReadAuthpro(aegis[i], e)]
        [] file.format = "google" -> ReadAllGoogle(e)

\* get_data_from_provider and, for images, do_import: no tokens is an error.
\* The reader of plain Aegis files also takes a text of URIs.
Read(file, format, password) ==
  IF password = Absent
     /\ <<file.format, format>> \in {<<"uri", "uri">>, <<"uri", "aegis">>, <<"qr", "google">>}
    THEN ReadUris(file.entries)
  ELSE IF Opens(file, format, password) THEN ReadEntries(file)
  ELSE << >>
=============================================================================
