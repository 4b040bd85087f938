------------------------------ MODULE Exchange ------------------------------
(***************************************************************************)
(* Tokens that leave and enter a database: runs of the command line        *)
(* (exec-action.c, get-data.c: show, import, export) and the import and    *)
(* export dialogs of the window, over one database file and one backup     *)
(* file in a format of OtpFormats.                                         *)
(*                                                                         *)
(* The database file is a sequence of versions.  A save is the promise     *)
(* VersionedStore makes of db_transaction and update_db: it succeeds only  *)
(* over the version that was loaded, or changes nothing; what DbStore      *)
(* excepts from that promise is studied there.  A token keeps its value:   *)
(* editing belongs to TokenWindow.                                         *)
(***************************************************************************)
EXTENDS OtpFormats, FiniteSets

CONSTANTS
  Runs,          \* processes of the command line
  Window,        \* the window
  Seeds,         \* the databases there may be at the start, sequences of tokens
  Foreign,       \* backup files other programs wrote
  NoFile,        \* no backup file, and nothing that one was made from
  ExportTypes,   \* the types of file the dialogs offer, <<format, password>>
  ImportTypes,
  CommandLines,  \* what users type: [actions, named, account, issuer, type, file, output]
  Uncomputable,  \* secrets that validate and yet give no code, like "="
  MaxVer,        \* bound: versions of the database file
  MaxTokens      \* bound: tokens in it

\* A sequence of tokens.
TokenList(T) == T \in Seq(ToSet(T)) /\ \A i \in DOMAIN T : IsToken(T[i])

\* What the code stored validates.
ASSUME SeedsAssumption ==
  \A T \in Seeds : TokenList(T) /\ Len(T) <= MaxTokens /\ ValidRoot(T)

\* The names in a file are names, and a URI has a path.
Worded(f) ==
  \A i \in DOMAIN f.entries :
    LET e == f.entries[i]
    IN  /\ IsName(e.issuer)
        /\ IF f.format \in {"uri", "qr"} THEN IsWords(e.path) ELSE IsName(e.name)

ASSUME FilesAssumption ==
  /\ NoFile \notin Foreign
  /\ \A f \in Foreign : f.entries \in Seq(ToSet(f.entries)) /\ Worded(f)

\* A text of URIs is never sealed.
ASSUME TypesAssumption ==
  /\ \A type \in ExportTypes : /\ type[1] \in {"uri", "aegis", "2fas", "authpro"}
                               /\ type[1] = "uri" => type[2] = Absent
  /\ \A type \in ImportTypes : type[1] \in {"uri", "aegis", "2fas", "authpro", "google"}
  /\ \A c \in CommandLines : c.type # Absent /\ c.type[1] = "uri" => c.type[2] = Absent

ASSUME BoundsAssumption == MaxVer \in Nat \ {0} /\ MaxTokens \in Nat /\ Window \notin Runs

Actors == Runs \cup {Window}

VARIABLES
  db,       \* [ver, toks]: the database file; ver 0 while there is none
  backup,   \* the backup file
  mem,      \* actor -> the tokens in its memory
  snap,     \* actor -> the version it loaded or saved, 0 for none
  pc,       \* run -> where it stands
  unlocked, \* is the window unlocked?
  said,     \* run -> HOTP codes it computed and has yet to print
  printed,  \* history: HOTP codes printed
  twice,    \* history: those printed again
  rolled,   \* history: secrets of the HOTP tokens that were imported
  from      \* history: the tokens the backup file was exported from

vars == <<db, backup, mem, snap, pc, unlocked, said, printed, twice, rolled, from>>

Code(t) == <<t.secret, t.value>>

-----------------------------------------------------------------------------
(* Saves.                                                                   *)

\* Mutant of Fresh: the digest of the loaded file is not compared.
FreshAlways(a) == TRUE

Fresh(a) == snap[a] = db.ver

\* Mutant of Storable: a candidate is not validated again before it is saved.
StorableAny(T) == TRUE

Storable(T) == ValidRoot(T)

Commit(a, T) ==
  /\ Fresh(a) /\ Storable(T)
  /\ db.ver < MaxVer /\ Len(T) <= MaxTokens
  /\ db' = [ver |-> db.ver + 1, toks |-> T]

Keep(a, T, version) ==
  /\ mem' = [mem EXCEPT ![a] = T]
  /\ snap' = [snap EXCEPT ![a] = version]

\* The process is gone and so is what it held.
Exit(r) ==
  /\ Keep(r, << >>, 0)
  /\ pc' = [pc EXCEPT ![r] = "none"]

-----------------------------------------------------------------------------
(* The command line: open the database, or create one to import into.       *)

\* parse_options: one action, and no option that is not its own.  `account',
\* `issuer', `type' and `output' are Absent when not given.
Accepts(c) ==
  /\ Cardinality(c.actions) = 1
  /\ c.output # Absent =>
       c.output \in {"table", "json", "csv"} /\ c.actions \subseteq {"show", "list", "list-databases"}
  /\ (c.account # Absent \/ c.issuer # Absent) <=> c.actions = {"show"}
  /\ IF c.actions \subseteq {"import", "export"}
       THEN c.type # Absent /\ c.type[1] \in {"uri", "aegis", "2fas", "authpro"}
       ELSE c.type = Absent
  /\ c.actions \subseteq {"import", "import-settings"} => c.file
  /\ c.file => c.actions \subseteq {"import", "export", "import-settings", "export-settings"}

\* The accepted command lines for this action.
Lines(action) == {c \in CommandLines : c.actions = {action} /\ Accepts(c)}

\* resolve_db_path: the database of the settings must exist, one that is named on
\* the command line need not.
Resolves(c) == c.named \/ db.ver > 0

\* The run's command line shows when it is carried out; the actions that only
\* print are left out.
Load(r) ==
  /\ pc[r] = "none" /\ db.ver > 0
  /\ Keep(r, db.toks, db.ver)
  /\ pc' = [pc EXCEPT ![r] = "loaded"]
  /\ UNCHANGED <<db, backup, unlocked, said, printed, twice, rolled, from>>

\* --import finds no database file ...
Missing(r) ==
  /\ pc[r] = "none" /\ db.ver = 0
  /\ \E c \in Lines("import") : Resolves(c)
  /\ pc' = [pc EXCEPT ![r] = "creating"]
  /\ UNCHANGED <<db, backup, mem, snap, unlocked, said, printed, twice, rolled, from>>

\* ... and saves an empty one.  It never loaded a file, so no digest stops it
\* from replacing one that has come meanwhile.
Create(r) ==
  /\ pc[r] = "creating"
  /\ \/ /\ db.ver < MaxVer
        /\ db' = [ver |-> db.ver + 1, toks |-> << >>]
        /\ Keep(r, << >>, db.ver + 1)
        /\ pc' = [pc EXCEPT ![r] = "created"]
     \/ Exit(r) /\ UNCHANGED db
  /\ UNCHANGED <<backup, unlocked, said, printed, twice, rolled, from>>

-----------------------------------------------------------------------------
(* --show                                                                   *)

\* The issuer of a token counts only when one was asked for.
Matches(t, account, issuer) ==
  LET byLabel == t.label # Absent /\ account # Absent
      byIssuer == t.issuer # Absent /\ issuer # Absent
  IN  /\ byLabel \/ byIssuer
      /\ byLabel => t.label = account
      /\ byIssuer => t.issuer = issuer

Computes(t) == Valid(t) /\ t.secret \notin Uncomputable

Advanced(T, S) ==
  [i \in DOMAIN T |->
     IF i \in S /\ IsHotp(T[i]) THEN [T[i] EXCEPT !.value = @ + 1] ELSE T[i]]

\* Mutant of ToPrint: the codes are printed although the counters were not saved.
ToPrintAnyway(codes, saved, good) == IF good THEN codes ELSE {}

\* Nothing is printed when the save failed or one of the tokens gave no code.
ToPrint(codes, saved, good) == IF saved /\ good THEN codes ELSE {}

Show(r) ==
  /\ pc[r] = "loaded"
  /\ \E c \in Lines("show") :
       LET T == mem[r]
           found == {i \in DOMAIN T : Matches(T[i], c.account, c.issuer)}
           good == {i \in found : Computes(T[i])}
           codes == {Code(T[i]) : i \in {j \in good : IsHotp(T[j])}}
           Say(saved) == said' = [said EXCEPT ![r] = ToPrint(codes, saved, good = found)]
       IN  \/ /\ codes = {}
              /\ Exit(r) /\ UNCHANGED <<db, said>>
           \/ /\ codes # {} /\ Commit(r, Advanced(T, good))
              /\ Keep(r, Advanced(T, good), db.ver + 1)
              /\ pc' = [pc EXCEPT ![r] = "printing"]
              /\ Say(TRUE)
           \/ /\ codes # {}
              /\ pc' = [pc EXCEPT ![r] = "printing"]
              /\ Say(FALSE)
              /\ UNCHANGED <<db, mem, snap>>
  /\ UNCHANGED <<backup, unlocked, printed, twice, rolled, from>>

PrintCodes(r) ==
  /\ pc[r] = "printing"
  /\ printed' = printed \cup said[r]
  /\ twice' = twice \cup (printed \cap said[r])
  /\ said' = [said EXCEPT ![r] = {}]
  /\ Exit(r)
  /\ UNCHANGED <<db, backup, unlocked, rolled, from>>

Crash(r) ==
  /\ pc[r] # "none"
  /\ said' = [said EXCEPT ![r] = {}]
  /\ Exit(r)
  /\ UNCHANGED <<db, backup, unlocked, printed, twice, rolled, from>>

-----------------------------------------------------------------------------
(* Import: all that was read, in one transaction.                           *)

\* Mutant of New: tokens that are there already are added again.
NewOrNot(good, built, T) == good

\* The positions whose object is neither stored nor staged before.
New(good, built, T) ==
  {i \in good : /\ built[i] \notin ToSet(T)
                /\ \A j \in good : j < i => built[j] # built[i]}

\* Where there was T: what was read behind it, less what is invalid or there.
Imported(T, otps) ==
  LET read == [i \in DOMAIN otps |-> Repaired(otps[i], i)]
      built == [i \in DOMAIN otps |-> BuildObj(read[i])]
      good == {i \in DOMAIN otps : Importable(read[i])}
  IN  T \o Pick(built, New(good, built, T))

Counting(T) == {t.secret : t \in {u \in ToSet(T) : IsHotp(u)}}

\* An import of a file of this type into actor a's database succeeds.
ImportInto(a, type) ==
  LET otps == Read(backup, type[1], type[2])
      T == Imported(mem[a], otps)
  IN  /\ backup # NoFile /\ otps # << >>
      /\ Commit(a, T)
      /\ rolled' = rolled \cup Counting(SubSeq(T, Len(mem[a]) + 1, Len(T)))

ImportRun(r) ==
  /\ pc[r] \in {"loaded", "created"}
  /\ \/ \E c \in Lines("import") : ImportInto(r, c.type)
     \/ UNCHANGED <<db, rolled>>
  /\ Exit(r)
  /\ UNCHANGED <<backup, unlocked, said, printed, twice, from>>

\* A dialog that was opened before the window locked is refused; a failed
\* import leaves the memory as it was.
ImportDialog ==
  /\ unlocked
  /\ \E type \in ImportTypes :
       /\ ImportInto(Window, type)
       /\ Keep(Window, Imported(mem[Window], Read(backup, type[1], type[2])), db.ver + 1)
  /\ UNCHANGED <<backup, pc, unlocked, said, printed, twice, from>>

-----------------------------------------------------------------------------
(* Export.                                                                  *)

\* The file is replaced by a complete one, or by one whose writing failed.
ExportFrom(a, type) ==
  LET file == Export(type[1], type[2], mem[a])
  IN  /\ backup' \in {file, Cut(file)}
      /\ from' = mem[a]

ExportRun(r) ==
  /\ pc[r] = "loaded"
  /\ \/ \E c \in Lines("export") : ExportFrom(r, c.type)
     \/ UNCHANGED <<backup, from>>
  /\ Exit(r)
  /\ UNCHANGED <<db, unlocked, said, printed, twice, rolled>>

ExportDialog ==
  /\ unlocked
  /\ \E type \in ExportTypes : ExportFrom(Window, type)
  /\ UNCHANGED <<db, mem, snap, pc, unlocked, said, printed, twice, rolled>>

-----------------------------------------------------------------------------
(* The window around its dialogs.                                           *)

Unlock ==
  /\ ~unlocked /\ db.ver > 0
  /\ unlocked' = TRUE
  /\ Keep(Window, db.toks, db.ver)
  /\ UNCHANGED <<db, backup, pc, said, printed, twice, rolled, from>>

Lock ==
  /\ unlocked
  /\ unlocked' = FALSE
  /\ Keep(Window, << >>, 0)
  /\ UNCHANGED <<db, backup, pc, said, printed, twice, rolled, from>>

-----------------------------------------------------------------------------
Init ==
  /\ db \in {[ver |-> 0, toks |-> << >>]} \cup {[ver |-> 1, toks |-> T] : T \in Seeds}
  /\ backup \in Foreign \cup {NoFile}
  /\ mem = [a \in Actors |-> << >>]
  /\ snap = [a \in Actors |-> 0]
  /\ pc = [r \in Runs |-> "none"]
  /\ unlocked = FALSE
  /\ said = [r \in Runs |-> {}]
  /\ printed = {} /\ twice = {} /\ rolled = {}
  /\ from = NoFile

Next ==
  \/ \E r \in Runs : \/ Load(r) \/ Missing(r) \/ Create(r)
                     \/ Show(r) \/ PrintCodes(r) \/ Crash(r)
                     \/ ImportRun(r) \/ ExportRun(r)
  \/ ImportDialog \/ ExportDialog
  \/ Unlock \/ Lock

Spec == Init /\ [][Next]_vars

-----------------------------------------------------------------------------
(* Properties.                                                              *)

\* Every value has its shape; every token of the database file validates, so
\* that none is set aside at the next load, and a memory that answers for a
\* version of the file holds valid tokens.
TypeOK ==
  /\ db.ver \in 0 .. MaxVer
  /\ TokenList(db.toks) /\ ValidRoot(db.toks) /\ Len(db.toks) <= MaxTokens
  /\ db.ver = 0 => db.toks = << >>
  /\ \A a \in Actors : snap[a] \in 0 .. db.ver /\ TokenList(mem[a]) /\ ValidRoot(mem[a])
  /\ pc \in [Runs -> {"none", "creating", "created", "loaded", "printing"}]
  /\ unlocked \in BOOLEAN
  /\ twice \subseteq printed

\* No code of a counter is printed twice, by whatever runs at whatever moment
\* and however their saves fail: the counter is in the file before the code is
\* on the screen.  An import may bring a token with its counter set back.
CodesOnce == \A c \in twice : c[1] \in rolled

Distinct(T) == \A i, j \in DOMAIN T : T[i] = T[j] => i = j

\* No token is stored twice in the same words: importing a backup again, or
\* through two actors, adds nothing that is there.
NoTwins == Distinct(db.toks)

\* The same token, its counter where it was or further.
Continues(t, u) ==
  /\ [t EXCEPT !.value = 0] = [u EXCEPT !.value = 0]
  /\ IF IsHotp(t) THEN u.value >= t.value ELSE u.value = t.value

\* Imports, counters and failures of either keep every token of the file in its
\* place, however many runs and dialogs work on copies of it.  Excepted is the
\* run that found no database file and replaces the one that came meanwhile.
TokensKept ==
  [][\/ \A i \in DOMAIN db.toks : i \in DOMAIN db'.toks /\ Continues(db.toks[i], db'.toks[i])
     \/ \E r \in Runs : pc[r] = "creating" /\ pc'[r] = "created"]_vars

\* What a format leaves of a token that it can carry.
Carried(format, t, T) ==
  LET o == IF format \in {"aegis", "2fas", "authpro"} /\ IsSteam(t.issuer)
             THEN [t EXCEPT !.issuer = <<"Steam">>, !.type = Upper(t)]
             ELSE [t EXCEPT !.type = IF format = "aegis" THEN Lower(t) ELSE Upper(t)]
  IN  CASE format = "uri" -> [o EXCEPT !.group = Absent]
        [] format \in {"aegis", "2fas"} -> o
        [] format = "authpro" ->
             [o EXCEPT !.group = IF \E u \in ToSet(T) : u.secret = t.secret /\ u.group # t.group
                                   THEN GroupOf(T, t.secret) ELSE @]

\* A URI carries one word before the colon of its label; what is said twice in
\* it, or escaped once, must survive two readings.
UriCarries(t) ==
  /\ t.label # Absent
  /\ Name(t.issuer) = Empty => Len(t.label) = 1
  /\ Len(Name(t.issuer)) = 1
  /\ (ToSet(t.label) \cup ToSet(Name(t.issuer))) \cap (Percent \cup Ampersand) = {}

\* A counter of the issuer Steam is a clock for two of the formats.
Carries(format, t) ==
  /\ format = "uri" => UriCarries(t)
  /\ format \in {"uri", "aegis"} => ~(IsHotp(t) /\ IsSteam(t.issuer))

\* The first of all that are equal.
Firsts(s) == Pick(s, {i \in DOMAIN s : \A j \in DOMAIN s : j < i => s[j] # s[i]})

Exported == from # NoFile /\ ~backup.cut

Password == IF backup.slots = << >> THEN Absent ELSE backup.slots[1].password

\* A backup that was written to its end gives back, in any of the formats and
\* with its password, each token it was made from that the format can carry, as
\* the format leaves it; a database all of whose tokens it can carry comes back
\* whole and in its order, less the twins the format has made of two tokens.  A
\* JSON backup that was cut off gives nothing.
RoundTrip ==
  /\ Exported =>
       LET stored == Imported(<< >>, Read(backup, backup.format, Password))
           wanted == [i \in DOMAIN from |-> BuildObj(Carried(backup.format, from[i], from))]
           carried == {i \in DOMAIN from : Carries(backup.format, from[i])}
       IN  /\ \A i \in carried : wanted[i] \in ToSet(stored)
           /\ carried = DOMAIN from => stored = Firsts(wanted)
  /\ (from # NoFile /\ backup.cut /\ backup.format # "uri") =>
       Read(backup, backup.format, Password) = << >>

\* tests/README.md: a token serialised to a URI and parsed back keeps its
\* fields.  Violated: a percent sign or an ampersand in a name is decoded twice
\* and the token is dropped.
UriKeepsTokens ==
  Exported /\ backup.format = "uri" =>
    \A t \in ToSet(from) :
      t.label # Absent =>
        \E o \in ToSet(Read(backup, "uri", Absent)) : [o EXCEPT !.group = t.group] = t
=============================================================================
