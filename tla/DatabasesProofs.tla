-------------------------- MODULE DatabasesProofs --------------------------
(***************************************************************************)
(* The list of databases, for any set of paths and any number of searches. *)
(* The sidebar and the db-list setting are the same list once the program  *)
(* is up, but a start writes the setting anew, row by row, so that what    *)
(* the user wants is then spread over the rows and what is left to add.    *)
(* A callback that writes both settings leaves the primary path open in    *)
(* between: the first row added has none, the row removed still is it.     *)
(* The lock forgets a search because every load it cannot cancel is one    *)
(* whose cancellable was lost, or that was begun under the lock.           *)
(***************************************************************************)
EXTENDS Databases, SequenceFacts

-----------------------------------------------------------------------------
(* Lists of databases.                                                     *)

\* The elements of a list of databases to which one is added.
LEMMA AppendRows ==
  ASSUME NEW s \in Seq(Paths), Twinless(s), NEW p \in Paths, p \notin ToSet(s)
  PROVE  /\ Append(s, p) \in Seq(Paths) /\ Twinless(Append(s, p))
         /\ ToSet(Append(s, p)) = ToSet(s) \cup {p} /\ Append(s, p) # << >>
<1> DEFINE t == Append(s, p)
<1>1. Len(s) \in Nat /\ DOMAIN s = 1..Len(s)
  BY LenProperties
<1>2. /\ t \in Seq(Paths) /\ Len(t) = Len(s) + 1
      /\ \A i \in 1..Len(s) : t[i] = s[i]
      /\ t[Len(s) + 1] = p
  BY AppendProperties
<1>3. DOMAIN t = 1..(Len(s) + 1)
  BY <1>2, LenProperties
<1> HIDE DEF t
<1>4. \A i \in DOMAIN t : i \in DOMAIN s \/ i = Len(s) + 1
  BY <1>1, <1>3
<1>5. Twinless(t)
  <2> SUFFICES ASSUME NEW i \in DOMAIN t, NEW j \in DOMAIN t, t[i] = t[j] PROVE i = j
    BY DEF Twinless
  <2>1. CASE i \in DOMAIN s /\ j \in DOMAIN s
    BY <1>1, <1>2, <2>1 DEF Twinless
  <2>2. CASE i \in DOMAIN s /\ j = Len(s) + 1
    BY <1>1, <1>2, <2>2 DEF ToSet
  <2>3. CASE i = Len(s) + 1 /\ j \in DOMAIN s
    BY <1>1, <1>2, <2>3 DEF ToSet
  <2> QED
    BY <1>4, <2>1, <2>2, <2>3
<1>6. ToSet(t) = ToSet(s) \cup {p}
  <2>1. \A x : x \in ToSet(t) <=> \E i \in DOMAIN t : x = t[i]
    BY DEF ToSet
  <2>2. \A x : x \in ToSet(s) <=> \E i \in DOMAIN s : x = s[i]
    BY DEF ToSet
  <2>3. \A x : x \in ToSet(t) => x \in ToSet(s) \cup {p}
    BY <1>1, <1>2, <1>4, <2>1, <2>2
  <2>4. Len(s) + 1 \in DOMAIN t /\ \A i \in DOMAIN s : i \in DOMAIN t
    BY <1>1, <1>3
  <2>5. \A x : x \in ToSet(s) \cup {p} => x \in ToSet(t)
    BY <1>1, <1>2, <2>1, <2>2, <2>4
  <2> QED
    BY <2>3, <2>5
<1> QED
  BY <1>2, <1>3, <1>5, <1>6, NonEmptySeq, <1>1 DEF t

\* The elements of a list of databases from which one is removed.
LEMMA RemoveRows ==
  ASSUME NEW s \in Seq(Paths), Twinless(s), NEW i \in DOMAIN s
  PROVE  /\ RemoveAt(s, i) \in Seq(Paths) /\ Twinless(RemoveAt(s, i))
         /\ ToSet(RemoveAt(s, i)) = ToSet(s) \ {s[i]}
<1> DEFINE t == RemoveAt(s, i)
<1>1. Len(s) \in Nat /\ DOMAIN s = 1..Len(s) /\ i \in 1..Len(s)
  BY LenProperties
<1>2. /\ t \in Seq(Paths) /\ Len(t) = Len(s) - 1
      /\ \A k \in 1..(Len(s) - 1) : t[k] = IF k < i THEN s[k] ELSE s[k + 1]
  BY RemoveAtSeq
<1>3. DOMAIN t = 1..(Len(s) - 1)
  BY <1>2, LenProperties
<1>4. /\ \A j \in DOMAIN s \ {i} : \E k \in DOMAIN t : t[k] = s[j]
      /\ \A k \in DOMAIN t : \E j \in DOMAIN s \ {i} : t[k] = s[j]
  BY RemoveAtKeeps
<1> HIDE DEF t
<1>5. Twinless(t)
  <2> SUFFICES ASSUME NEW j \in DOMAIN t, NEW k \in DOMAIN t, t[j] = t[k] PROVE j = k
    BY DEF Twinless
  <2> DEFINE Was(n) == IF n < i THEN n ELSE n + 1
  <2>1. \A n \in DOMAIN t : Was(n) \in DOMAIN s /\ t[n] = s[Was(n)]
    BY <1>1, <1>2, <1>3
  <2>2. Was(j) = Was(k)
    BY <2>1 DEF Twinless
  <2> QED
    BY <1>1, <1>3, <2>2
<1>6. ToSet(t) = ToSet(s) \ {s[i]}
  <2>1. \A x : x \in ToSet(t) <=> \E k \in DOMAIN t : x = t[k]
    BY DEF ToSet
  <2>2. \A x : x \in ToSet(s) <=> \E k \in DOMAIN s : x = s[k]
    BY DEF ToSet
  <2>3. \A j \in DOMAIN s \ {i} : s[j] # s[i]
    BY DEF Twinless
  <2> QED
    BY <1>4, <2>1, <2>2, <2>3
<1> QED
  BY <1>2, <1>5, <1>6 DEF t

\* The first element of a list of databases, and the others.
LEMMA TailRows ==
  ASSUME NEW s \in Seq(Paths), Twinless(s), s # << >>
  PROVE  /\ Head(s) \in Paths /\ Tail(s) \in Seq(Paths) /\ Twinless(Tail(s))
         /\ Head(s) \in ToSet(s) /\ Head(s) = s[1]
         /\ ToSet(Tail(s)) = ToSet(s) \ {Head(s)}
         /\ s[Len(s)] \in ToSet(s)
<1> DEFINE t == Tail(s)
<1>1. Len(s) \in Nat /\ DOMAIN s = 1..Len(s) /\ Len(s) >= 1
  BY LenProperties, NonEmptySeq
<1>2. /\ Head(s) \in Paths /\ Head(s) = s[1] /\ t \in Seq(Paths) /\ Len(t) = Len(s) - 1
      /\ \A k \in 1..(Len(s) - 1) : t[k] = s[k + 1]
  BY <1>1, HeadTailProperties, ElementOfSeq
<1>3. DOMAIN t = 1..(Len(s) - 1)
  BY <1>2, LenProperties
<1>4. 1 \in DOMAIN s /\ Len(s) \in DOMAIN s
  BY <1>1
<1> HIDE DEF t
<1>5. Twinless(t)
  <2> SUFFICES ASSUME NEW j \in DOMAIN t, NEW k \in DOMAIN t, t[j] = t[k] PROVE j = k
    BY DEF Twinless
  <2>1. \A n \in DOMAIN t : n + 1 \in DOMAIN s /\ t[n] = s[n + 1]
    BY <1>1, <1>2, <1>3
  <2>2. j + 1 = k + 1
    BY <2>1 DEF Twinless
  <2> QED
    BY <1>3, <2>2
<1>6. ToSet(t) = ToSet(s) \ {s[1]}
  <2>1. \A x : x \in ToSet(t) <=> \E k \in DOMAIN t : x = t[k]
    BY DEF ToSet
  <2>2. \A x : x \in ToSet(s) <=> \E k \in DOMAIN s : x = s[k]
    BY DEF ToSet
  <2>3. \A k \in DOMAIN t : k + 1 \in DOMAIN s /\ t[k] = s[k + 1] /\ k + 1 # 1
    BY <1>1, <1>2, <1>3
  <2>4. \A k \in DOMAIN s : k # 1 => k - 1 \in DOMAIN t /\ (k - 1) + 1 = k
    BY <1>1, <1>3
  <2>5. \A k \in DOMAIN s : k # 1 => s[k] # s[1]
    BY <1>4 DEF Twinless
  <2>6. \A x : x \in ToSet(t) => x \in ToSet(s) \ {s[1]}
    BY <2>1, <2>2, <2>3, <2>5
  <2>7. \A x : x \in ToSet(s) \ {s[1]} => x \in ToSet(t)
    <3> SUFFICES ASSUME NEW x, x \in ToSet(s) \ {s[1]} PROVE x \in ToSet(t)
      OBVIOUS
    <3>1. PICK k \in DOMAIN s : x = s[k] /\ k # 1
      BY <2>2
    <3>2. k - 1 \in DOMAIN t /\ t[k - 1] = s[k]
      BY <2>3, <2>4, <3>1
    <3> QED
      BY <2>1, <3>1, <3>2
  <2> QED
    BY <2>6, <2>7
<1> QED
  BY <1>2, <1>4, <1>5, <1>6 DEF t, ToSet

\* The elements of a list are databases, and only the empty one has none.
LEMMA RowsSet ==
  ASSUME NEW s \in Seq(Paths)
  PROVE  ToSet(s) \subseteq Paths /\ (ToSet(s) = {} <=> s = << >>)
<1>1. Len(s) \in Nat /\ DOMAIN s = 1..Len(s)
  BY LenProperties
<1>2. \A x : x \in ToSet(s) <=> \E k \in DOMAIN s : x = s[k]
  BY DEF ToSet
<1>3. ToSet(s) \subseteq Paths
  BY <1>2, ElementOfSeq, <1>1
<1>4. s # << >> => 1 \in DOMAIN s
  BY <1>1, NonEmptySeq
<1>5. s = << >> => DOMAIN s = {}
  BY <1>1, NonEmptySeq
<1> QED
  BY <1>2, <1>3, <1>4, <1>5

\* A list of one database, and none.
LEMMA ShortRows ==
  /\ << >> \in Seq(Paths) /\ Twinless(<< >>) /\ ToSet(<< >>) = {}
  /\ \A p \in Paths : <<p>> \in Seq(Paths) /\ Twinless(<<p>>) /\ ToSet(<<p>>) = {p} /\ <<p>> # << >>
<1>1. << >> \in Seq(Paths) /\ Twinless(<< >>) /\ ToSet(<< >>) = {}
  BY DEF Twinless, ToSet
<1>2. ASSUME NEW p \in Paths
      PROVE  <<p>> \in Seq(Paths) /\ Twinless(<<p>>) /\ ToSet(<<p>>) = {p} /\ <<p>> # << >>
  <2>1. <<p>> \in Seq(Paths) /\ DOMAIN <<p>> = {1} /\ <<p>>[1] = p
    OBVIOUS
  <2> QED
    BY <2>1 DEF Twinless, ToSet
<1> QED
  BY <1>1, <1>2

-----------------------------------------------------------------------------
(* The invariant.                                                          *)

\* The values of the settings and of the window.
Lists ==
  /\ list \in Seq(Paths) /\ Twinless(list)
  /\ todo \in Seq(Paths) /\ Twinless(todo)
  /\ rows \in Seq(Paths) /\ Twinless(rows)
  /\ primary \in Paths \cup {None} /\ keyfile \in Paths \cup {None} /\ cur \in Paths \cup {None}
  /\ phase \in {"down", "starting", "up"} /\ half \in {"nothing", "row", "open", "remove"}
  /\ missing \subseteq ToSet(rows) /\ wanted \subseteq Paths
  /\ open \in BOOLEAN /\ locked \in BOOLEAN /\ enabled \in BOOLEAN /\ torn \in BOOLEAN

\* What the sidebar shows is what the setting holds, unless a start has not come to it.
Rows ==
  /\ phase # "starting" => todo = << >>
  /\ phase = "down" => rows = << >> /\ selected = None /\ half = "nothing"
  /\ half = "row" => phase = "starting" /\ rows # << >>
  /\ half \in {"open", "remove"} => phase = "up"
  /\ half = "open" => rows # << >>
  /\ phase = "up" => rows = list
  /\ phase = "starting" =>
       /\ list = IF rows = << >> THEN todo ELSE rows
       /\ list # << >>
       /\ ToSet(rows) \cap ToSet(todo) = {}
       /\ selected = None
  /\ selected \in {None} \cup ToSet(rows)

\* The databases that are wanted are listed, or about to be.
Wants ==
  /\ phase = "starting" => ToSet(rows) \cup ToSet(todo) = wanted
  /\ phase # "starting" /\ list # << >> => ToSet(list) = wanted
  /\ phase = "up" /\ list = << >> => wanted = {}
  /\ phase = "down" /\ list = << >> => wanted \subseteq {PrimaryPath}

\* The primary database is one of them, but for the callback that has not come to it
\* and for what is torn; the setting has it whenever the sidebar has a row.
Primary ==
  /\ list # << >> /\ primary = None => keyfile = None
  /\ phase # "down" /\ primary = None => keyfile = None
  /\ rows # << >> /\ primary = None => half \in {"row", "open"}
  /\ torn \/ PrimaryPath \in wanted \/ (wanted = {} /\ PrimaryPath = None)
       \/ half = "remove" \/ (half = "open" /\ PrimaryPath = None)

ListInv == Lists /\ Rows /\ Wants /\ Primary

\* The values of the search.
Loads == [held : BOOLEAN, cancelled : BOOLEAN, stray : BOOLEAN, paths : SUBSET Paths]
Searches ==
  /\ loads \in Seq(Loads) /\ Len(loads) <= MaxLoads
  /\ loading \in BOOLEAN /\ loaded \in BOOLEAN /\ stray \in BOOLEAN
  /\ foreign \subseteq Paths

\* A load the lock did not cancel is one it could not, or was begun under it.
Accounted ==
  /\ \A i \in DOMAIN loads : loads[i].held \/ loads[i].cancelled \/ loads[i].stray
  /\ locked => \A i \in DOMAIN loads : loads[i].cancelled \/ loads[i].stray

SearchInv == Searches /\ Accounted /\ LockedForgetsSearch

\* The primary path, and None that is no path.
LEMMA PathFacts ==
  /\ None \notin Paths
  /\ Lists => PrimaryPath \in Paths \cup {None}
  /\ primary # None => PrimaryPath = primary
  /\ primary = None => PrimaryPath = keyfile
  BY NoneAssumption DEF Lists, PrimaryPath

\* A path becomes the primary one, or no path does.
LEMMA SavePrimaryType ==
  ASSUME Lists, NEW p \in Paths \cup {None}, SavePrimary(p)
  PROVE  /\ primary' \in Paths \cup {None} /\ keyfile' \in Paths \cup {None}
         /\ p # None => primary' = p /\ PrimaryPath' = p
         /\ p = None => primary' = keyfile' /\ PrimaryPath' = primary'
  BY DEF Lists, SavePrimary, PrimaryPath

\* gui_misc_add_db_to_list.
LEMMA AddType ==
  ASSUME Lists, NEW p \in Paths, AddToList(p)
  PROVE  /\ rows' \in Seq(Paths) /\ Twinless(rows') /\ rows' # << >>
         /\ ToSet(rows') = ToSet(rows) \cup {p}
         /\ p \in ToSet(rows) => rows' = rows /\ list' = list
         /\ p \notin ToSet(rows) => list' = rows'
<1>1. CASE p \in ToSet(rows)
  <2>1. rows' = rows /\ list' = list
    BY <1>1 DEF AddToList
  <2>2. rows # << >> /\ ToSet(rows) = ToSet(rows) \cup {p}
    BY <1>1, RowsSet DEF Lists
  <2> QED
    BY <1>1, <2>1, <2>2 DEF Lists
<1>2. CASE p \notin ToSet(rows)
  <2>1. rows' = Append(rows, p) /\ list' = rows'
    BY <1>2 DEF AddToList
  <2> QED
    BY <1>2, <2>1, AppendRows DEF Lists
<1> QED
  BY <1>1, <1>2

\* The rest of otpclient_window_add_database.
LEMMA FirstIsPrimaryType ==
  ASSUME Lists, rows # << >>, FirstIsPrimary
  PROVE  /\ rows[Len(rows)] \in ToSet(rows)
         /\ primary' \in Paths /\ keyfile' \in Paths \cup {None}
         /\ PrimaryPath' = primary'
         /\ PrimaryPath = None => primary' = rows[Len(rows)] /\ torn' = FALSE
         /\ PrimaryPath # None => primary' = PrimaryPath /\ torn' = torn
         /\ torn' \in BOOLEAN
<1>1. rows[Len(rows)] \in ToSet(rows) /\ rows[Len(rows)] \in Paths
  BY TailRows, RowsSet DEF Lists
<1>2. None \notin Paths /\ PrimaryPath \in Paths \cup {None} /\ torn \in BOOLEAN
  BY PathFacts DEF Lists
<1>3. torn' = (torn /\ PrimaryPath # None)
  BY DEF FirstIsPrimary
<1>4. CASE PrimaryPath = None
  <2>1. SavePrimary(rows[Len(rows)])
    BY <1>4 DEF FirstIsPrimary, Last
  <2>2. primary' = rows[Len(rows)] /\ PrimaryPath' = primary' /\ keyfile' \in Paths \cup {None}
    BY <1>1, <1>2, <2>1, SavePrimaryType
  <2> QED
    BY <1>1, <1>3, <1>4, <2>2
<1>5. CASE PrimaryPath # None
  <2>1. primary' = PrimaryPath /\ keyfile' = keyfile
    BY <1>5 DEF FirstIsPrimary
  <2>2. PrimaryPath' = primary'
    BY <1>5, <2>1 DEF PrimaryPath
  <2>3. torn' = torn
    BY <1>2, <1>3, <1>5
  <2> QED
    BY <1>1, <1>2, <1>5, <2>1, <2>2, <2>3 DEF Lists
<1> QED
  BY <1>4, <1>5

\* The program has not started yet, and no setting is written.
LEMMA InitList == Init => ListInv
<1> SUFFICES ASSUME Init PROVE ListInv
  OBVIOUS
<1>1. /\ list = << >> /\ todo = << >> /\ rows = << >> /\ primary = None /\ phase = "down"
      /\ half = "nothing"
  BY DEF Init
<1>2. keyfile \in Paths \cup {None} /\ PrimaryPath = keyfile /\ wanted = {keyfile} \ {None}
  BY <1>1 DEF Init, PrimaryPath
<1>3. Lists
  BY <1>1, <1>2, ShortRows DEF Init, Lists
<1>4. Rows
  BY <1>1 DEF Init, Rows
<1>5. Wants /\ Primary
  BY <1>1, <1>2 DEF Wants, Primary
<1> QED
  BY <1>3, <1>4, <1>5 DEF ListInv

\* gui_misc_get_db_list: the list, or what a profile of version 4 has.
LEMMA LaunchList == ListInv /\ Launch /\ UNCHANGED half => ListInv'
<1> SUFFICES ASSUME ListInv, Launch, UNCHANGED half PROVE ListInv'
  OBVIOUS
<1>1. /\ phase = "down" /\ todo = << >> /\ rows = << >> /\ selected = None
      /\ half = "nothing" /\ half' = half
      /\ Lists
  BY DEF ListInv, Rows, Launch
<1>2. /\ UNCHANGED <<keyfile, rows, missing, selected, cur, open, locked, enabled>>
      /\ todo' = list'
      /\ torn' = (torn /\ list # << >>)
      /\ wanted' = IF wanted = {} THEN ToSet(list') ELSE wanted
  BY DEF Launch
<1>3. torn' \in BOOLEAN
  BY <1>2, Zenon
<1>4. None \notin Paths /\ PrimaryPath \in Paths \cup {None}
  BY <1>1, PathFacts
<1>5. CASE list # << >>
  <2>1. list' = list /\ phase' = "starting" /\ primary' = primary
    BY <1>5 DEF Launch
  <2>2. torn' = torn
    BY <1>2, <1>5, <1>1 DEF Lists
  <2>3. ToSet(list) = wanted /\ wanted' = wanted
    BY <1>1, <1>2, <1>5, RowsSet DEF ListInv, Wants, Lists
  <2>4. PrimaryPath' = PrimaryPath
    BY <1>2, <2>1 DEF PrimaryPath
  <2>5. Lists'
    BY <1>1, <1>2, <2>1, <2>2, <2>3 DEF Lists
  <2>7. Rows'
    BY <1>1, <1>2, <1>5, <2>1, ShortRows DEF Rows
  <2>8. Wants' /\ Primary'
    BY <1>1, <1>2, <1>5, <2>1, <2>2, <2>3, <2>4, ShortRows DEF ListInv, Wants, Primary
  <2> QED
    BY <2>5, <2>7, <2>8 DEF ListInv
<1>6. CASE list = << >> /\ PrimaryPath # None
  <2>1. list' = <<PrimaryPath>> /\ phase' = "starting" /\ primary' = PrimaryPath
    BY <1>6 DEF Launch
  <2>2. torn' = FALSE
    BY <1>2, <1>6
  <2>3. /\ list' \in Seq(Paths) /\ Twinless(list') /\ ToSet(list') = {PrimaryPath}
        /\ list' # << >>
    BY <1>4, <1>6, <2>1, ShortRows
  <2>4. wanted' = {PrimaryPath}
    BY <1>1, <1>2, <1>6, <2>3 DEF ListInv, Wants
  <2>5. PrimaryPath' = PrimaryPath
    BY <1>6, <2>1 DEF PrimaryPath
  <2>6. Lists'
    BY <1>1, <1>2, <1>4, <1>6, <2>1, <2>2, <2>3, <2>4 DEF Lists
  <2>7. Rows'
    BY <1>1, <1>2, <2>1, <2>3, ShortRows DEF Rows
  <2>8. Wants' /\ Primary'
    BY <1>1, <1>2, <1>6, <2>1, <2>3, <2>4, <2>5, ShortRows DEF Wants, Primary
  <2> QED
    BY <2>6, <2>7, <2>8 DEF ListInv
<1>7. CASE list = << >> /\ PrimaryPath = None
  <2>1. list' = << >> /\ phase' = "up" /\ primary' = None /\ keyfile' = keyfile
    BY <1>2, <1>7 DEF Launch
  <2>2. torn' = FALSE
    BY <1>2, <1>7
  <2>3. wanted' = {}
    BY <1>1, <1>2, <1>4, <1>7, <2>1, ShortRows DEF ListInv, Wants, Lists
  <2>4. PrimaryPath' = None /\ keyfile = None
    BY <1>7, <2>1 DEF PrimaryPath
  <2>5. Lists'
    BY <1>1, <1>2, <2>1, <2>2, <2>3, ShortRows DEF Lists
  <2>6. Rows'
    BY <1>1, <1>2, <2>1 DEF Rows
  <2>7. Wants' /\ Primary'
    BY <1>1, <1>2, <2>1, <2>3, <2>4 DEF Wants, Primary
  <2> QED
    BY <2>5, <2>6, <2>7 DEF ListInv
<1> QED
  BY <1>5, <1>6, <1>7

\* init_database: one row, and with it the list in the setting.
LEMMA AddRowList == ListInv /\ half = "nothing" /\ AddRow => ListInv'
<1> SUFFICES ASSUME ListInv, half = "nothing", AddRow PROVE ListInv'
  OBVIOUS
<1> DEFINE p == Head(todo)
<1>1. Lists /\ Rows /\ Wants /\ Primary /\ phase = "starting" /\ todo # << >>
  BY DEF ListInv, AddRow
<1>2. /\ p \in Paths /\ p \in ToSet(todo)
      /\ Tail(todo) \in Seq(Paths) /\ Twinless(Tail(todo))
      /\ ToSet(Tail(todo)) = ToSet(todo) \ {p}
  BY <1>1, TailRows DEF Lists
<1>3. /\ AddToList(p) /\ todo' = Tail(todo)
      /\ half' = IF p \in ToSet(rows) THEN "nothing" ELSE "row"
      /\ UNCHANGED <<primary, keyfile, phase, missing, selected, cur, open, locked, enabled,
                     wanted, torn>>
  BY DEF AddRow
<1> HIDE DEF p
<1>4. p \notin ToSet(rows) /\ ToSet(rows) \cup ToSet(todo) = wanted /\ half' = "row"
  BY <1>1, <1>2, <1>3 DEF Rows, Wants
<1>5. /\ rows' \in Seq(Paths) /\ Twinless(rows') /\ rows' # << >>
      /\ ToSet(rows') = ToSet(rows) \cup {p} /\ list' = rows'
      /\ PrimaryPath' = PrimaryPath
  BY <1>1, <1>2, <1>3, <1>4, AddType DEF PrimaryPath
<1>6. Lists'
  BY <1>1, <1>2, <1>3, <1>4, <1>5 DEF Lists
<1>7. Rows'
  BY <1>1, <1>2, <1>3, <1>4, <1>5 DEF Rows
<1>8. Wants'
  BY <1>1, <1>2, <1>3, <1>4, <1>5 DEF Wants
<1>9. Primary'
  BY <1>1, <1>3, <1>4, <1>5 DEF Primary
<1> QED
  BY <1>6, <1>7, <1>8, <1>9 DEF ListInv

\* Its primary path, if there is none.
LEMMA AddRowEndsList == ListInv /\ AddRowEnds => ListInv'
<1> SUFFICES ASSUME ListInv, AddRowEnds PROVE ListInv'
  OBVIOUS
<1>1. /\ Lists /\ Rows /\ Wants /\ Primary /\ phase = "starting" /\ rows # << >>
      /\ None \notin Paths
  BY PathFacts DEF ListInv, Rows, AddRowEnds
<1>2. /\ FirstIsPrimary /\ half = "row" /\ half' = "nothing"
      /\ UNCHANGED <<list, phase, todo, rows, missing, selected, cur, open, locked, enabled,
                     wanted>>
  BY DEF AddRowEnds
<1>3. /\ rows[Len(rows)] \in ToSet(rows)
      /\ primary' \in Paths /\ keyfile' \in Paths \cup {None}
      /\ PrimaryPath' = primary'
      /\ PrimaryPath = None => primary' = rows[Len(rows)] /\ torn' = FALSE
      /\ PrimaryPath # None => primary' = PrimaryPath /\ torn' = torn
      /\ torn' \in BOOLEAN
  BY <1>1, <1>2, FirstIsPrimaryType
<1>4. Lists'
  BY <1>1, <1>2, <1>3 DEF Lists
<1>5. Rows'
  BY <1>1, <1>2 DEF Rows
<1>6. Wants'
  BY <1>1, <1>2 DEF Wants
<1>7. Primary'
  BY <1>1, <1>2, <1>3 DEF Wants, Primary
<1> QED
  BY <1>4, <1>5, <1>6, <1>7 DEF ListInv

\* init_database, once all rows are there.
LEMMA StartList == ListInv /\ half = "nothing" /\ Start /\ UNCHANGED half => ListInv'
<1> SUFFICES ASSUME ListInv, half = "nothing", Start, UNCHANGED half PROVE ListInv'
  OBVIOUS
<1>1. Lists /\ Rows /\ Wants /\ Primary /\ phase = "starting" /\ todo = << >> /\ None \notin Paths
  BY PathFacts DEF ListInv, Start
<1>2. rows # << >> /\ list = rows /\ ToSet(todo) = {} /\ ToSet(rows) = wanted
  BY <1>1, ShortRows DEF Rows, Wants
<1>3. rows[1] \in ToSet(rows) /\ ToSet(rows) \subseteq Paths /\ PrimaryPath' = PrimaryPath
  BY <1>1, <1>2, TailRows, RowsSet DEF Lists, Start, settings, PrimaryPath
<1>4. /\ UNCHANGED <<list, primary, keyfile, todo, rows, open, locked, enabled, half, wanted, torn>>
      /\ phase' = "up" /\ missing' \subseteq ToSet(rows)
      /\ selected' \in ToSet(rows) /\ cur' \in {selected', None}
  BY <1>3 DEF Start, settings, Vanished
<1>5. Lists'
  BY <1>1, <1>3, <1>4 DEF Lists
<1>6. Rows' /\ Wants' /\ Primary'
  BY <1>1, <1>2, <1>3, <1>4 DEF Rows, Wants, Primary
<1> QED
  BY <1>5, <1>6 DEF ListInv

\* The program ends, maybe in the middle of a start.
LEMMA QuitList == ListInv /\ Quit => ListInv'
<1> SUFFICES ASSUME ListInv, Quit PROVE ListInv'
  OBVIOUS
<1>1. Lists /\ Rows /\ Wants /\ Primary /\ phase # "down" /\ None \notin Paths
  BY PathFacts DEF ListInv, Quit
<1>2. /\ UNCHANGED <<list, primary, keyfile>> /\ PrimaryPath' = PrimaryPath
      /\ phase' = "down" /\ todo' = << >> /\ rows' = << >> /\ missing' = {} /\ selected' = None
      /\ cur' = None /\ open' = FALSE /\ locked' = FALSE /\ enabled' = FALSE
      /\ half' = "nothing"
      /\ wanted' = IF rows # << >> THEN wanted \ ToSet(todo) ELSE wanted
      /\ torn' = (torn \/ half = "remove" \/ (half # "nothing" /\ PrimaryPath = None)
                       \/ PrimaryPath \in wanted \ wanted')
  BY DEF Quit, settings, PrimaryPath
<1>3. torn' \in BOOLEAN
  BY <1>2, Zenon
<1>4. Lists'
  BY <1>1, <1>2, <1>3, ShortRows DEF Lists
<1>5. Rows'
  BY <1>2 DEF Rows
<1>6. list # << >> => ToSet(list) = wanted'
  <2>1. CASE phase = "starting" /\ rows = << >>
    BY <1>1, <1>2, <2>1, ShortRows DEF Rows, Wants
  <2>2. CASE phase = "starting" /\ rows # << >>
    BY <1>1, <1>2, <2>2 DEF Rows, Wants
  <2>3. CASE phase # "starting"
    BY <1>1, <1>2, <2>3, ShortRows DEF Rows, Wants
  <2> QED
    BY <2>1, <2>2, <2>3
<1>7. list = << >> => wanted' = {}
  BY <1>1, <1>2, ShortRows DEF Rows, Wants, Lists
<1>8. Wants'
  BY <1>2, <1>6, <1>7 DEF Wants
<1>9. Primary'
  <2>1. ~torn' => /\ ~torn /\ half # "remove" /\ ~(half = "open" /\ PrimaryPath = None)
                  /\ PrimaryPath \notin wanted \ wanted'
    BY <1>2
  <2>2. wanted' \subseteq wanted
    BY <1>2
  <2> QED
    BY <1>1, <1>2, <2>1, <2>2 DEF Primary
<1> QED
  BY <1>4, <1>5, <1>8, <1>9 DEF ListInv

\* Neither the list nor the primary database change: a lock, an unlock, a click.
LEMMA SameList ==
  ASSUME ListInv, UNCHANGED <<list, primary, keyfile, phase, todo, rows, half, wanted, torn>>,
         selected' \in {None} \cup ToSet(rows), phase # "up" => selected' = selected,
         missing' \subseteq ToSet(rows), cur' \in Paths \cup {None},
         open' \in BOOLEAN, locked' \in BOOLEAN, enabled' \in BOOLEAN
  PROVE  ListInv'
<1>1. PrimaryPath' = PrimaryPath
  BY DEF PrimaryPath
<1>2. Lists'
  BY DEF ListInv, Lists
<1>3. Rows'
  BY DEF ListInv, Lists, Rows
<1>4. Wants' /\ Primary'
  BY <1>1 DEF ListInv, Wants, Primary
<1> QED
  BY <1>2, <1>3, <1>4 DEF ListInv

\* What selecting the last row does to the window.
LEMMA ShowType ==
  ASSUME NEW p \in Paths, Show(p), rows' \in Seq(Paths), Twinless(rows'), rows' # << >>
  PROVE  /\ selected' \in ToSet(rows') /\ selected' \in Paths
         /\ cur' \in Paths \cup {None} /\ open' \in BOOLEAN /\ enabled' \in BOOLEAN
<1>1. selected' = rows'[Len(rows')]
  BY DEF Show, Last
<1>2. selected' \in ToSet(rows') /\ selected' \in Paths
  BY <1>1, TailRows, RowsSet
<1> QED
  BY <1>2 DEF Show, SwitchTo

\* on_open_db_password_received and on_new_db_password_received.
LEMMA OpenList ==
  ASSUME NEW p \in Paths
  PROVE  ListInv /\ half = "nothing" /\ Open(p) => ListInv'
<1> SUFFICES ASSUME ListInv, half = "nothing", Open(p) PROVE ListInv'
  OBVIOUS
<1>1. /\ Lists /\ Rows /\ Wants /\ Primary /\ phase = "up" /\ todo = << >> /\ rows = list
      /\ None \notin Paths /\ ToSet(rows) \subseteq Paths
  BY PathFacts, RowsSet DEF ListInv, Lists, Rows, Open
<1>2. /\ AddToList(p) /\ wanted' = wanted \cup {p}
      /\ torn' = (torn /\ p # PrimaryPath)
      /\ p \in ToSet(rows) => Show(p) /\ half' = half
      /\ p \notin ToSet(rows) => half' = "open" /\ UNCHANGED <<selected, cur, open, enabled>>
      /\ UNCHANGED <<primary, keyfile, phase, todo, missing, locked>>
  BY DEF Open
<1>3. /\ rows' \in Seq(Paths) /\ Twinless(rows') /\ rows' # << >>
      /\ ToSet(rows') = ToSet(rows) \cup {p}
      /\ list' = rows'
      /\ PrimaryPath' = PrimaryPath
  BY <1>1, <1>2, AddType DEF PrimaryPath
<1>4. /\ selected' \in {None} \cup ToSet(rows')
      /\ cur' \in Paths \cup {None} /\ open' \in BOOLEAN /\ enabled' \in BOOLEAN
  <2>1. CASE p \in ToSet(rows)
    BY <1>2, <1>3, <2>1, ShowType
  <2>2. CASE p \notin ToSet(rows)
    BY <1>1, <1>2, <1>3, <2>2 DEF Lists, Rows
  <2> QED
    BY <2>1, <2>2
<1>5. torn' \in BOOLEAN
  BY <1>2, Zenon
<1>6. half' \in {"nothing", "open"}
  BY <1>2
<1>7. Lists'
  BY <1>1, <1>2, <1>3, <1>4, <1>5, <1>6 DEF Lists
<1>8. Rows'
  BY <1>1, <1>2, <1>3, <1>4, <1>6 DEF Rows
<1>9. ToSet(list') = wanted' /\ list' # << >>
  BY <1>1, <1>2, <1>3, ShortRows DEF Wants
<1>10. Wants'
  BY <1>1, <1>2, <1>9 DEF Wants
<1>11. Primary'
  <2>1. primary' = None => keyfile' = None
    BY <1>1, <1>2 DEF Primary
  <2>2. primary' = None => half' \in {"row", "open"}
    <3>1. p \in ToSet(rows) => primary # None
      BY <1>1, RowsSet DEF Lists, Primary
    <3> QED
      BY <1>2, <3>1
  <2>3. torn' \/ PrimaryPath \in wanted' \/ (half' = "open" /\ PrimaryPath = None)
    <3>1. CASE PrimaryPath = p \/ PrimaryPath \in wanted
      BY <1>2, <3>1
    <3>2. CASE torn /\ PrimaryPath # p
      BY <1>2, <3>2
    <3>3. CASE wanted = {} /\ PrimaryPath = None
      <4>1. p \notin ToSet(rows)
        BY <1>1, <3>3, RowsSet DEF Lists, Wants
      <4> QED
        BY <1>2, <3>3, <4>1
    <3> QED
      BY <1>1, <3>1, <3>2, <3>3 DEF Primary
  <2> QED
    BY <1>3, <2>1, <2>2, <2>3 DEF Primary
<1> QED
  BY <1>7, <1>8, <1>10, <1>11 DEF ListInv

\* The rest of them.
LEMMA OpenEndsList == ListInv /\ OpenEnds => ListInv'
<1> SUFFICES ASSUME ListInv, OpenEnds PROVE ListInv'
  OBVIOUS
<1>1. /\ Lists /\ Rows /\ Wants /\ Primary /\ phase = "up" /\ todo = << >> /\ rows = list
      /\ rows # << >> /\ None \notin Paths /\ ToSet(rows) \subseteq Paths
  BY PathFacts, RowsSet DEF ListInv, Lists, Rows, OpenEnds
<1>2. /\ FirstIsPrimary /\ Show(Last(rows)) /\ half = "open" /\ half' = "nothing"
      /\ UNCHANGED <<list, phase, todo, rows, missing, locked, wanted>>
  BY DEF OpenEnds
<1>3. /\ rows[Len(rows)] \in ToSet(rows)
      /\ primary' \in Paths /\ keyfile' \in Paths \cup {None}
      /\ PrimaryPath' = primary'
      /\ PrimaryPath = None => primary' = rows[Len(rows)] /\ torn' = FALSE
      /\ PrimaryPath # None => primary' = PrimaryPath /\ torn' = torn
      /\ torn' \in BOOLEAN
  BY <1>1, <1>2, FirstIsPrimaryType
<1>4. /\ selected' \in ToSet(rows)
      /\ cur' \in Paths \cup {None} /\ open' \in BOOLEAN /\ enabled' \in BOOLEAN
  <2>1. Last(rows) \in Paths
    BY <1>1, <1>3 DEF Last
  <2>2. rows' \in Seq(Paths) /\ Twinless(rows') /\ rows' # << >> /\ ToSet(rows') = ToSet(rows)
    BY <1>1, <1>2 DEF Lists
  <2> QED
    BY <1>2, <2>1, <2>2, ShowType
<1>5. Lists'
  BY <1>1, <1>2, <1>3, <1>4 DEF Lists
<1>6. Rows'
  BY <1>1, <1>2, <1>4 DEF Rows
<1>7. Wants'
  BY <1>1, <1>2 DEF Wants
<1>8. ToSet(rows) = wanted
  BY <1>1 DEF Wants
<1>9. Primary'
  BY <1>1, <1>2, <1>3, <1>8 DEF Primary
<1> QED
  BY <1>5, <1>6, <1>7, <1>9 DEF ListInv

\* action_set_primary_db.
LEMMA SetPrimaryList == ListInv /\ SetPrimary /\ UNCHANGED half => ListInv'
<1> SUFFICES ASSUME ListInv, SetPrimary, UNCHANGED half PROVE ListInv'
  OBVIOUS
<1>1. Lists /\ Rows /\ Wants /\ Primary /\ selected \in ToSet(rows) /\ selected # None
  BY DEF ListInv, Rows, SetPrimary
<1>2. /\ UNCHANGED <<list, phase, todo, rows, missing, selected, cur, open, locked, enabled, half,
                     wanted>>
      /\ torn' = FALSE /\ SavePrimary(selected)
  BY DEF SetPrimary, window
<1>3. phase \in {"up", "starting"} /\ selected \in Paths
  BY <1>1, RowsSet DEF Lists, Rows
<1>4. phase = "up"
  BY <1>1, <1>3 DEF Rows
<1>5. primary' = selected /\ PrimaryPath' = selected /\ keyfile' \in Paths \cup {None}
  BY <1>1, <1>2, <1>3, SavePrimaryType
<1>6. Lists' /\ Rows'
  BY <1>1, <1>2, <1>3, <1>4, <1>5 DEF Lists, Rows
<1>7. selected \in wanted
  BY <1>1, <1>4, ShortRows DEF Rows, Wants
<1>8. Wants' /\ Primary'
  BY <1>1, <1>2, <1>4, <1>5, <1>7 DEF Wants, Primary
<1> QED
  BY <1>6, <1>8 DEF ListInv

\* on_remove_dialog_response.
LEMMA RemoveDbList == ListInv /\ half = "nothing" /\ RemoveDb => ListInv'
<1> SUFFICES ASSUME ListInv, half = "nothing", RemoveDb PROVE ListInv'
  OBVIOUS
<1>1. Lists /\ Rows /\ Wants /\ Primary /\ None \notin Paths
  BY PathFacts DEF ListInv
<1>2. PICK i \in DOMAIN rows : rows[i] = selected /\ rows' = RemoveAt(rows, i)
  BY DEF RemoveDb
<1>3. /\ list' = rows' /\ missing' = missing \ {selected} /\ selected' = None
      /\ wanted' = wanted \ {selected}
      /\ half' = IF selected = PrimaryPath THEN "remove" ELSE "nothing"
      /\ UNCHANGED <<primary, keyfile, phase, todo, cur, open, locked, enabled, torn>>
      /\ PrimaryPath' = PrimaryPath
  BY DEF RemoveDb, PrimaryPath
<1>4. /\ rows' \in Seq(Paths) /\ Twinless(rows') /\ ToSet(rows') = ToSet(rows) \ {selected}
      /\ selected \in ToSet(rows) /\ selected \in Paths
  <2>1. selected \in ToSet(rows)
    BY <1>2 DEF ToSet
  <2>2. rows \in Seq(Paths) /\ Twinless(rows)
    BY <1>1 DEF Lists
  <2> QED
    BY <1>2, <2>1, <2>2, RemoveRows, RowsSet
<1>5. phase = "up" /\ todo = << >> /\ list = rows /\ list # << >> /\ ToSet(list) = wanted
  BY <1>1, <1>4, ShortRows, RowsSet DEF Lists, Rows, Wants
<1>6. ToSet(rows') = wanted' /\ (rows' = << >> <=> wanted' = {})
  BY <1>3, <1>4, <1>5, RowsSet
<1>7. missing' \subseteq ToSet(rows') /\ wanted' \subseteq Paths /\ half' \in {"nothing", "remove"}
  BY <1>1, <1>3, <1>4 DEF Lists
<1>8. Lists'
  BY <1>1, <1>3, <1>4, <1>7 DEF Lists
<1>9. Rows'
  BY <1>1, <1>3, <1>5, <1>7 DEF Rows
<1>10. Wants'
  BY <1>3, <1>5, <1>6 DEF Wants
<1>11. Primary'
  <2>1. primary # None
    BY <1>1, <1>5 DEF Primary
  <2>2. torn \/ PrimaryPath \in wanted' \/ half' = "remove"
    BY <1>1, <1>3, <1>4, <1>5 DEF Primary
  <2> QED
    BY <1>3, <2>1, <2>2 DEF Primary
<1> QED
  BY <1>8, <1>9, <1>10, <1>11 DEF ListInv

\* The primary path after the row that had it.
LEMMA RemoveEndsList == ListInv /\ RemoveEnds => ListInv'
<1> SUFFICES ASSUME ListInv, RemoveEnds PROVE ListInv'
  OBVIOUS
<1>1. /\ Lists /\ Rows /\ Wants /\ Primary /\ None \notin Paths
      /\ phase = "up" /\ list = rows /\ todo = << >>
  BY PathFacts DEF ListInv, Rows, RemoveEnds
<1>2. /\ SavePrimary(IF rows # << >> THEN rows[1] ELSE None)
      /\ torn' = (rows = << >> /\ primary' # None)
      /\ half = "remove" /\ half' = "nothing"
      /\ UNCHANGED <<list, phase, todo, rows, missing, selected, cur, open, locked, enabled,
                     wanted>>
  BY DEF RemoveEnds
<1>3. torn' \in BOOLEAN
  BY <1>2, Zenon
<1>4. /\ primary' \in Paths \cup {None} /\ keyfile' \in Paths \cup {None}
      /\ primary' = None => keyfile' = None
      /\ rows # << >> => primary' # None
      /\ torn' \/ PrimaryPath' \in wanted \/ (wanted = {} /\ PrimaryPath' = None)
  <2>1. CASE rows # << >>
    <3>1. rows[1] \in wanted /\ rows[1] \in Paths
      BY <1>1, <2>1, TailRows, RowsSet DEF Lists, Wants
    <3>2. SavePrimary(rows[1])
      BY <1>2, <2>1
    <3> QED
      BY <1>1, <2>1, <3>1, <3>2, SavePrimaryType
  <2>2. CASE rows = << >>
    <3>1. SavePrimary(None)
      BY <1>2, <2>2
    <3>2. wanted = {}
      BY <1>1, <2>2 DEF Wants
    <3>3. /\ primary' \in Paths \cup {None} /\ keyfile' \in Paths \cup {None}
          /\ primary' = keyfile' /\ PrimaryPath' = primary'
      BY <1>1, <3>1, SavePrimaryType
    <3> QED
      BY <1>2, <2>2, <3>2, <3>3
  <2> QED
    BY <2>1, <2>2
<1>5. Lists'
  BY <1>1, <1>2, <1>3, <1>4 DEF Lists
<1>6. Rows' /\ Wants'
  BY <1>1, <1>2 DEF Rows, Wants
<1>7. Primary'
  BY <1>1, <1>2, <1>4 DEF Primary
<1> QED
  BY <1>5, <1>6, <1>7 DEF ListInv

\* Every step keeps the list.
LEMMA NextList == ListInv /\ [Next]_vars => ListInv'
<1> SUFFICES ASSUME ListInv, [Next]_vars PROVE ListInv'
  OBVIOUS
<1>1. /\ selected \in {None} \cup ToSet(rows) /\ missing \subseteq ToSet(rows)
      /\ cur \in Paths \cup {None} /\ ToSet(rows) \subseteq Paths
      /\ open \in BOOLEAN /\ locked \in BOOLEAN /\ enabled \in BOOLEAN
  BY RowsSet DEF ListInv, Lists, Rows
<1> DEFINE Kept == half = "nothing" /\ UNCHANGED half
<1>2. ASSUME Type \/ (\E i \in 1..MaxLoads : LoadDone(i)) \/ UNCHANGED vars PROVE ListInv'
  BY <1>1, <1>2, SameList DEF Type, LoadDone, vars, settings, window
<1>3. ASSUME Lock, Kept PROVE ListInv'
  BY <1>1, <1>3, SameList DEF Lock, settings
<1>4. ASSUME Unlock, Kept PROVE ListInv'
  BY <1>1, <1>4, SameList DEF Unlock, settings
<1>5. ASSUME UnlockFails, Kept PROVE ListInv'
  <2>1. missing' \subseteq ToSet(rows)
    BY <1>1, <1>5 DEF UnlockFails
  <2> QED
    BY <1>1, <1>5, <2>1, SameList DEF UnlockFails, settings
<1>6. ASSUME NEW p \in Paths, Select(p), Kept PROVE ListInv'
  <2>1. cur' \in Paths \cup {None} /\ open' \in BOOLEAN /\ enabled' \in BOOLEAN
    BY <1>1, <1>6 DEF Select, SwitchTo
  <2> QED
    BY <1>1, <1>6, <2>1, SameList DEF Select, settings
<1>7. ASSUME half = "nothing", AddRow \/ RemoveDb \/ \E p \in Paths : Open(p) PROVE ListInv'
  BY <1>7, AddRowList, RemoveDbList, OpenList
<1>8. ASSUME AddRowEnds \/ OpenEnds \/ RemoveEnds \/ Quit PROVE ListInv'
  BY <1>8, AddRowEndsList, OpenEndsList, RemoveEndsList, QuitList
<1>9. ASSUME Kept, Launch \/ Start \/ SetPrimary PROVE ListInv'
  BY <1>9, LaunchList, StartList, SetPrimaryList
<1> QED
  BY <1>2, <1>3, <1>4, <1>5, <1>6, <1>7, <1>8, <1>9 DEF Next

-----------------------------------------------------------------------------
(* The search and the lock.                                                *)

\* No search has begun.
LEMMA InitSearch == Init => SearchInv
<1> SUFFICES ASSUME Init PROVE SearchInv
  OBVIOUS
<1>1. loads = << >> /\ loads \in Seq(Loads) /\ Len(loads) = 0 /\ DOMAIN loads = {}
  BY DEF Init
<1>2. loading = FALSE /\ loaded = FALSE /\ foreign = {} /\ stray = FALSE
  BY DEF Init
<1>3. Searches
  <2>1. Len(loads) <= MaxLoads
    BY <1>1, LoadsAssumption
  <2> QED
    BY <1>1, <1>2, <2>1 DEF Searches
<1> QED
  BY <1>1, <1>2, <1>3 DEF SearchInv, Accounted, LockedForgetsSearch

\* cross_db_trigger_load.
LEMMA TypeSearch == Lists /\ SearchInv /\ Type => SearchInv'
<1> SUFFICES ASSUME Lists, SearchInv, Type PROVE SearchInv'
  OBVIOUS
<1> DEFINE new == [held |-> TRUE, cancelled |-> FALSE, stray |-> locked, paths |-> Others]
           old == [i \in DOMAIN loads |->
                     IF loads[i].held THEN [loads[i] EXCEPT !.held = FALSE, !.stray = TRUE]
                     ELSE loads[i]]
<1>1. /\ loads' = Append(old, new) /\ loading' = TRUE /\ Len(loads) < MaxLoads
      /\ UNCHANGED <<loaded, foreign, stray, locked>>
  BY DEF Type, TriggerLoad, window
<1>2. loads \in Seq(Loads) /\ Len(loads) \in Nat /\ DOMAIN loads = 1..Len(loads)
  BY LenProperties DEF SearchInv, Searches
<1>3. \A i \in DOMAIN loads : loads[i] \in Loads
  BY <1>2, ElementOfSeq
<1>4. new \in Loads /\ new.held /\ (locked => new.stray)
  <2>1. Others \subseteq Paths
    BY RowsSet DEF Others, Lists
  <2> QED
    BY <2>1 DEF Loads, Lists
<1>5. \A i \in DOMAIN loads :
        LET m == IF loads[i].held THEN [loads[i] EXCEPT !.held = FALSE, !.stray = TRUE] ELSE loads[i]
        IN  m \in Loads /\ (m.cancelled \/ m.stray)
  BY <1>3 DEF Loads, SearchInv, Accounted
<1>6. old \in [DOMAIN loads -> Loads] /\ \A i \in DOMAIN loads : old[i].cancelled \/ old[i].stray
  BY <1>5
<1> HIDE DEF old, new
<1>7. old \in Seq(Loads) /\ Len(old) = Len(loads) /\ DOMAIN old = 1..Len(loads)
  BY <1>2, <1>6, MapSeq
<1>8. /\ loads' \in Seq(Loads) /\ Len(loads') = Len(loads) + 1
      /\ \A i \in 1..Len(loads) : loads'[i] = old[i]
      /\ loads'[Len(loads) + 1] = new
  BY <1>1, <1>4, <1>7, AppendProperties
<1>9. DOMAIN loads' = 1..(Len(loads) + 1)
  BY <1>8, LenProperties
<1>10. Searches'
  BY <1>1, <1>2, <1>8, LoadsAssumption DEF SearchInv, Searches
<1>11. \A i \in DOMAIN loads' : loads'[i] = new \/ loads'[i].cancelled \/ loads'[i].stray
  <2> SUFFICES ASSUME NEW i \in DOMAIN loads' PROVE loads'[i] = new \/ loads'[i].cancelled \/ loads'[i].stray
    OBVIOUS
  <2>1. i \in 1..Len(loads) \/ i = Len(loads) + 1
    BY <1>2, <1>9
  <2> QED
    BY <1>2, <1>6, <1>8, <2>1
<1>12. Accounted'
  BY <1>1, <1>4, <1>11 DEF Accounted
<1> QED
  BY <1>1, <1>10, <1>12 DEF SearchInv, LockedForgetsSearch

\* cross_db_load_done.
LEMMA LoadDoneSearch ==
  ASSUME NEW i \in 1..MaxLoads
  PROVE  SearchInv /\ LoadDone(i) => SearchInv'
<1> SUFFICES ASSUME SearchInv, LoadDone(i) PROVE SearchInv'
  OBVIOUS
<1>1. /\ i \in DOMAIN loads /\ loads' = RemoveAt(loads, i) /\ loading' = FALSE /\ UNCHANGED locked
      /\ \/ UNCHANGED <<loaded, foreign, stray>>
         \/ /\ ~loads[i].cancelled /\ loaded' = TRUE /\ foreign' \in SUBSET loads[i].paths
            /\ stray' = (foreign' # {} /\ loads[i].stray)
  BY DEF LoadDone, Found, window
<1>2. loads \in Seq(Loads) /\ Len(loads) \in Nat /\ Len(loads) <= MaxLoads
  BY LenProperties DEF SearchInv, Searches
<1>3. loads[i] \in Loads
  BY <1>1, <1>2, ElementOfSeq, LenProperties
<1>4. loads' \in Seq(Loads) /\ Len(loads') = Len(loads) - 1
  BY <1>1, <1>2, RemoveAtSeq
<1>5. \A k \in DOMAIN loads' : \E j \in DOMAIN loads : loads'[k] = loads[j]
  BY <1>1, <1>2, RemoveAtKeeps
<1>6. stray' \in BOOLEAN
  <2>1. CASE UNCHANGED stray
    BY <2>1 DEF SearchInv, Searches
  <2>2. CASE stray' = (foreign' # {} /\ loads[i].stray)
    BY <2>2, Zenon
  <2> QED
    BY <1>1, <2>1, <2>2
<1>7. foreign' \subseteq Paths /\ loaded' \in BOOLEAN
  BY <1>1, <1>3 DEF SearchInv, Searches, Loads
<1>8. Searches'
  <2>1. Len(loads') <= MaxLoads
    BY <1>2, <1>4, LoadsAssumption
  <2> QED
    BY <1>1, <1>4, <1>6, <1>7, <2>1 DEF Searches
<1>9. Accounted'
  BY <1>1, <1>5 DEF SearchInv, Accounted
<1>10. LockedForgetsSearch'
  BY <1>1, <1>3 DEF SearchInv, Accounted, LockedForgetsSearch, Loads
<1> QED
  BY <1>8, <1>9, <1>10 DEF SearchInv

\* otpclient_window_secure_lock_cleanup.
LEMMA LockSearch == SearchInv /\ Lock => SearchInv'
<1> SUFFICES ASSUME SearchInv, Lock PROVE SearchInv'
  OBVIOUS
<1> DEFINE off == [held |-> FALSE, cancelled |-> TRUE, stray |-> FALSE, paths |-> {}]
           all == [i \in DOMAIN loads |-> IF loads[i].held THEN off ELSE loads[i]]
<1>1. loads' = all /\ loading' = FALSE /\ loaded' = FALSE /\ foreign' = {} /\ stray' = FALSE
  BY DEF Lock, CancelLoad, Drop
<1>2. loads \in Seq(Loads) /\ Len(loads) \in Nat /\ Len(loads) <= MaxLoads /\ DOMAIN loads = 1..Len(loads)
  BY LenProperties DEF SearchInv, Searches
<1>3. \A i \in DOMAIN loads : loads[i] \in Loads
  BY <1>2, ElementOfSeq
<1>4. off \in Loads /\ off.cancelled
  BY DEF Loads
<1> HIDE DEF off
<1>5. all \in [DOMAIN loads -> Loads] /\ \A i \in DOMAIN loads : all[i].cancelled \/ all[i].stray
  BY <1>3, <1>4 DEF SearchInv, Accounted
<1> HIDE DEF all
<1>6. all \in Seq(Loads) /\ Len(all) = Len(loads) /\ DOMAIN all = 1..Len(loads)
  BY <1>2, <1>5, MapSeq
<1>7. Searches'
  BY <1>1, <1>2, <1>6 DEF Searches
<1>8. Accounted'
  BY <1>1, <1>2, <1>5, <1>6 DEF Accounted
<1> QED
  BY <1>1, <1>7, <1>8 DEF SearchInv, LockedForgetsSearch

\* The program ends.
LEMMA QuitSearch == Quit => SearchInv'
<1> SUFFICES ASSUME Quit PROVE SearchInv'
  OBVIOUS
<1>1. /\ loads' = << >> /\ loads' \in Seq(Loads) /\ Len(loads') = 0 /\ DOMAIN loads' = {}
      /\ loading' = FALSE /\ loaded' = FALSE /\ foreign' = {} /\ stray' = FALSE
  BY DEF Quit
<1>2. Searches'
  <2>1. Len(loads') <= MaxLoads
    BY <1>1, LoadsAssumption
  <2> QED
    BY <1>1, <2>1 DEF Searches
<1> QED
  BY <1>1, <1>2 DEF SearchInv, Accounted, LockedForgetsSearch

\* What was found is dropped or kept, and the loads go on.
LEMMA SameSearch ==
  ASSUME SearchInv, UNCHANGED <<loads, loading>>, locked' = locked \/ ~locked',
         UNCHANGED <<loaded, foreign, stray>> \/ Drop
  PROVE  SearchInv'
<1>1. Searches'
  BY DEF SearchInv, Searches, Drop
<1>2. Accounted'
  BY DEF SearchInv, Accounted
<1>3. LockedForgetsSearch'
  BY DEF SearchInv, LockedForgetsSearch, Drop
<1> QED
  BY <1>1, <1>2, <1>3 DEF SearchInv

\* Every step keeps the search and the lock apart.
LEMMA NextSearch == Lists /\ SearchInv /\ [Next]_vars => SearchInv'
<1> SUFFICES ASSUME Lists, SearchInv, [Next]_vars PROVE SearchInv'
  OBVIOUS
<1>1. ASSUME Launch \/ AddRow \/ AddRowEnds \/ Start PROVE SearchInv'
  BY <1>1, SameSearch DEF Launch, AddRow, AddRowEnds, Start, search
<1>2. ASSUME Unlock \/ UnlockFails PROVE SearchInv'
  BY <1>2, SameSearch DEF Unlock, UnlockFails, search
<1>3. ASSUME NEW p \in Paths, Select(p) PROVE SearchInv'
  BY <1>3, SameSearch DEF Select, SwitchTo, search
<1>s. ASSUME NEW p, Show(p) PROVE UNCHANGED <<loads, loading>> /\ (UNCHANGED <<loaded, foreign, stray>> \/ Drop)
  BY <1>s DEF Show, SwitchTo, search
<1>4. ASSUME NEW p \in Paths, Open(p) PROVE SearchInv'
  BY <1>4, <1>s, SameSearch DEF Open, search
<1>5. ASSUME OpenEnds PROVE SearchInv'
  BY <1>5, <1>s, SameSearch DEF OpenEnds
<1>6. ASSUME SetPrimary \/ RemoveDb \/ RemoveEnds \/ UNCHANGED vars PROVE SearchInv'
  BY <1>6, SameSearch DEF SetPrimary, RemoveDb, RemoveEnds, vars, window, search
<1> QED
  BY <1>1, <1>2, <1>3, <1>4, <1>5, <1>6, TypeSearch, LoadDoneSearch, LockSearch, QuitSearch
  DEF Next

-----------------------------------------------------------------------------
(* The theorems.                                                           *)

Inv == ListInv /\ SearchInv

\* The list and the search keep their invariants in every run of the program.
THEOREM Invariant == Spec => []Inv
<1>1. Init => Inv
  BY InitList, InitSearch DEF Inv
<1>2. Inv /\ [Next]_vars => Inv'
  BY NextList, NextSearch DEF Inv, ListInv
<1> QED
  BY <1>1, <1>2, PTL DEF Spec

\* The values the variables take; no database is listed twice.
THEOREM Typing == Spec => []TypeOK
<1>1. Inv => TypeOK
  <2> SUFFICES ASSUME Inv PROVE TypeOK
    OBVIOUS
  <2>1. Lists /\ Rows /\ Searches
    BY DEF Inv, ListInv, SearchInv
  <2>2. \A s \in {list, todo, rows} : s \in Seq(Paths) /\ Twinless(s)
    BY <2>1 DEF Lists
  <2>3. {primary, keyfile, selected, cur} \subseteq Paths \cup {None}
    <3>1. selected \in Paths \cup {None}
      BY <2>1, RowsSet DEF Lists, Rows
    <3> QED
      BY <2>1, <3>1 DEF Lists
  <2>4. {open, locked, enabled, loading, loaded, torn, stray} \subseteq BOOLEAN
    BY <2>1 DEF Lists, Searches
  <2>5. \A i \in DOMAIN loads : loads[i] \in Loads
    BY <2>1, ElementOfSeq, LenProperties DEF Searches
  <2> QED
    BY <2>1, <2>2, <2>3, <2>4, <2>5 DEF TypeOK, Lists, Rows, Searches, Loads
<1> QED
  BY <1>1, Invariant, PTL

\* Whenever the program ends, the next start finds the databases the user has added and
\* not removed, and the one to open among them, but for the ends that leave db-path torn.
THEOREM NextStart == Spec => []StartFindsAll
<1>1. Inv => StartFindsAll
  <2> SUFFICES ASSUME Inv, phase # "starting"
               PROVE  /\ list # << >> => ToSet(list) = wanted
                      /\ list = << >> => wanted \subseteq {PrimaryPath}
                      /\ wanted # {} =>
                           \/ PrimaryPath \in wanted
                           \/ torn \/ half = "remove" \/ (half = "open" /\ PrimaryPath = None)
                      /\ phase = "up" /\ half = "nothing" /\ list # << >> => primary # None
    BY DEF StartFindsAll
  <2>1. phase \in {"down", "up"} /\ Rows /\ Wants /\ Primary
    BY DEF Inv, ListInv, Lists
  <2>2. phase = "up" /\ half = "nothing" /\ list # << >> => primary # None
    BY <2>1 DEF Rows, Primary
  <2> QED
    BY <2>1, <2>2 DEF Wants, Primary
<1> QED
  BY <1>1, Invariant, PTL

\* The lock leaves no token of another database, neither found before nor brought later.
THEOREM Forgotten == Spec => []LockedForgetsSearch
<1>1. Inv => LockedForgetsSearch
  BY DEF Inv, SearchInv
<1> QED
  BY <1>1, Invariant, PTL
=============================================================================
