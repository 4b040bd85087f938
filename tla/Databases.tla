----------------------------- MODULE Databases -----------------------------
(***************************************************************************)
(* The list of databases and the search across them: the db-list and       *)
(* db-path settings with the old otpclient.cfg, the rows of the sidebar,   *)
(* the start that fills them, the database that is open, and the workers   *)
(* that read the other ones for a search (src/gui/gui-misc.c,              *)
(* otpclient-window.c, otpclient-application.c).                           *)
(*                                                                         *)
(* A database is its path: names, which only label a row, are left out.    *)
(* What happens between a password and an open database is UnlockSession;  *)
(* here an unlock succeeds or fails in one step, and no row is clicked     *)
(* meanwhile.  The keyring is in use, or nothing is ever searched.         *)
(***************************************************************************)
EXTENDS Naturals, Sequences, SequencesExt

CONSTANTS
  Paths,    \* the database files
  None,     \* no path
  MaxLoads  \* bound: searches that load at once

ASSUME NoneAssumption == None \notin Paths
ASSUME LoadsAssumption == MaxLoads \in Nat

\* Kept between two runs of the program.
VARIABLES
  list,     \* the db-list setting
  primary,  \* the db-path setting
  keyfile   \* db_path in otpclient.cfg

\* The window.
VARIABLES
  phase,    \* "down", "starting" or "up"
  todo,     \* what init_database has still to add
  rows,     \* db_store
  missing,  \* the rows marked as missing
  selected, \* the selected row
  cur,      \* the path of db_data
  open,     \* is in_memory_json_data there?
  locked,   \* app_locked
  enabled,  \* are the actions on databases and tokens enabled?
  half      \* what a callback that has written db-list has still to do: "row", "open" or
            \* "remove", else "nothing"

\* The search.
VARIABLES
  loads,    \* the cross_db_load_thread tasks under way
  loading,  \* cross_db_loading
  loaded,   \* cross_db_loaded
  foreign   \* the databases whose tokens cross_db_store holds

\* History, read by no guard.
VARIABLES
  wanted,   \* what the user has added and not removed
  torn,     \* db-path does not name a listed database, as Quit or RemoveEnds left it
  stray     \* foreign comes from a load begun under the lock, or one the window lost

settings == <<list, primary, keyfile>>
window == <<phase, todo, rows, missing, selected, cur, open, locked, enabled, half>>
search == <<loads, loading, loaded, foreign>>
vars == <<settings, window, search, wanted, torn, stray>>

-----------------------------------------------------------------------------
(* Settings.                                                               *)

\* gui_misc_get_db_path_from_cfg: otpclient.cfg stands in for an empty setting, and
\* is copied into it.
PrimaryPath == IF primary # None THEN primary ELSE keyfile

\* gui_misc_save_db_path_to_cfg: otpclient.cfg may not be writable.
SavePrimary(p) ==
  /\ keyfile' \in {p, keyfile}
  /\ primary' = IF p # None THEN p ELSE keyfile'

\* Mutant: a path that is listed is listed again.
AddToListAgain(p) == rows' = Append(rows, p) /\ list' = rows'

\* gui_misc_add_db_to_list: each new row saves all the rows there are.
AddToList(p) ==
  IF p \in ToSet(rows)
  THEN UNCHANGED <<rows, list>>
  ELSE rows' = Append(rows, p) /\ list' = rows'

\* The rest of otpclient_window_add_database: the first database of all is the primary
\* one.  A db-path that was lost is so found again.
FirstIsPrimary ==
  /\ \/ PrimaryPath = None /\ SavePrimary(Last(rows))
     \/ PrimaryPath # None /\ primary' = PrimaryPath /\ UNCHANGED keyfile
  /\ torn' = (torn /\ PrimaryPath # None)

-----------------------------------------------------------------------------
(* Start and end of the program.                                           *)

\* gui_misc_get_db_list: a profile of version 4 has a path and no list.  A database that
\* otpclient.cfg brings back counts as added.
Launch ==
  /\ phase = "down"
  /\ phase' = IF list # << >> \/ PrimaryPath # None THEN "starting" ELSE "up"
  /\ list' = IF list = << >> /\ PrimaryPath # None THEN <<PrimaryPath>> ELSE list
  /\ todo' = list'
  /\ primary' = IF list = << >> THEN PrimaryPath ELSE primary
  /\ wanted' = IF wanted = {} THEN ToSet(list') ELSE wanted
  /\ torn' = (torn /\ list # << >>)
  /\ UNCHANGED <<keyfile, rows, missing, selected, cur, open, locked, enabled, search, stray>>

\* init_database repopulates the sidebar row by row, and the setting with it.
AddRow ==
  /\ phase = "starting" /\ todo # << >>
  /\ AddToList(Head(todo))
  /\ todo' = Tail(todo)
  /\ half' = IF Head(todo) \in ToSet(rows) THEN "nothing" ELSE "row"
  /\ UNCHANGED <<primary, keyfile, phase, missing, selected, cur, open, locked, enabled,
                 search, wanted, torn, stray>>

AddRowEnds ==
  /\ half = "row"
  /\ FirstIsPrimary
  /\ half' = "nothing"
  /\ UNCHANGED <<list, phase, todo, rows, missing, selected, cur, open, locked, enabled,
                 search, wanted, stray>>

\* gui_misc_validate_databases: any file may be gone.
Vanished == SUBSET ToSet(rows)

\* The rest of init_database.  Selecting a first row that is not the primary database
\* opens it before anybody looks whether it is there.
Start ==
  /\ phase = "starting" /\ todo = << >>
  /\ phase' = "up"
  /\ selected' = IF PrimaryPath \in ToSet(rows) THEN PrimaryPath ELSE rows[1]
  /\ missing' \in Vanished
  /\ cur' = IF selected' \in missing' /\ selected' = PrimaryPath THEN None ELSE selected'
  /\ UNCHANGED <<settings, todo, rows, open, locked, enabled, search, wanted, torn, stray>>

\* The program ends, by the user or in the middle of anything, between two settings that
\* one callback writes as well: a start cut short has written a part of the list over the
\* whole, an added database may be listed and no db-path written, and a removed one may
\* still be in db-path.
Quit ==
  /\ phase # "down"
  /\ phase' = "down"
  /\ wanted' = IF rows # << >> THEN wanted \ ToSet(todo) ELSE wanted
  /\ torn' = (torn \/ half = "remove" \/ (half # "nothing" /\ PrimaryPath = None)
                   \/ PrimaryPath \in wanted \ wanted')
  /\ todo' = << >> /\ rows' = << >> /\ missing' = {} /\ selected' = None
  /\ cur' = None /\ open' = FALSE /\ locked' = FALSE /\ enabled' = FALSE
  /\ half' = "nothing"
  /\ loads' = << >> /\ loading' = FALSE /\ loaded' = FALSE /\ foreign' = {}
  /\ stray' = FALSE
  /\ UNCHANGED settings

-----------------------------------------------------------------------------
(* The search across databases.                                            *)

Drop == loaded' = FALSE /\ foreign' = {} /\ stray' = FALSE

\* gsettings_common_get_db_list without the database that is open now.
Others == ToSet(list) \ {cur}

\* cross_db_trigger_load: the new cancellable takes the place of the old one, which
\* nobody can cancel any more.
TriggerLoad ==
  /\ loading' = TRUE
  /\ loads' = Append([i \in DOMAIN loads |->
                        IF loads[i].held THEN [loads[i] EXCEPT !.held = FALSE, !.stray = TRUE]
                        ELSE loads[i]],
                     [held |-> TRUE, cancelled |-> FALSE, stray |-> locked,
                      paths |-> Others])

\* search_text_changed: the search bar opens over the locked page, too.
Type ==
  /\ phase = "up"
  /\ ~loaded /\ ~loading
  /\ cur # None /\ Len(list) > 1 /\ Len(loads) < MaxLoads
  /\ TriggerLoad
  /\ UNCHANGED <<settings, window, loaded, foreign, wanted, torn, stray>>

\* cross_db_load_thread leaves out what has no password in the keyring or does not
\* open.
Found(load) == SUBSET load.paths

\* cross_db_load_done.  GTask drops the result of a cancelled load whenever it came.
LoadDone(i) ==
  /\ i \in DOMAIN loads
  /\ loads' = RemoveAt(loads, i)
  /\ loading' = FALSE
  /\ \/ loads[i].cancelled /\ UNCHANGED <<loaded, foreign, stray>>
     \/ /\ ~loads[i].cancelled
        /\ loaded' = TRUE
        /\ foreign' \in Found(loads[i])
        /\ stray' = (foreign' # {} /\ loads[i].stray)
  /\ UNCHANGED <<settings, window, wanted, torn>>

\* Mutant: the running load is forgotten and not cancelled.
ForgetLoad == loads' = loads

\* otpclient_window_secure_lock_cleanup cancels the load whose cancellable it has.
CancelLoad ==
  loads' = [i \in DOMAIN loads |->
              IF loads[i].held
              THEN [held |-> FALSE, cancelled |-> TRUE, stray |-> FALSE, paths |-> {}]
              ELSE loads[i]]

-----------------------------------------------------------------------------
(* Locking and unlocking.                                                  *)

\* lock_app_enter_locked_state; the cleanup runs once more when an unlock worker that
\* the lock overtook returns.
Lock ==
  /\ phase = "up"
  /\ locked' = TRUE /\ open' = FALSE /\ enabled' = FALSE
  /\ CancelLoad
  /\ loading' = FALSE
  /\ Drop
  /\ UNCHANGED <<settings, phase, todo, rows, missing, selected, cur, wanted, torn>>

\* on_unlock_done and lock_app_unlock.
Unlock ==
  /\ phase = "up" /\ cur # None /\ ~open
  /\ open' = TRUE /\ locked' = FALSE /\ enabled' = TRUE
  /\ UNCHANGED <<settings, phase, todo, rows, missing, selected, cur, search,
                 wanted, torn, stray>>

\* on_unlock_done when the file is gone, or cannot be read: the actions stay as they are.
UnlockFails ==
  /\ phase = "up" /\ cur # None /\ ~open
  /\ missing' \in {missing, missing \cup ({cur} \cap ToSet(rows))}
  /\ cur' = None
  /\ UNCHANGED <<settings, phase, todo, rows, selected, open, locked, enabled, search,
                 wanted, torn, stray>>

-----------------------------------------------------------------------------
(* The sidebar.                                                            *)

\* otpclient_application_switch_to_db: what was found is dropped, a load that still
\* runs is not stopped.
SwitchTo(p) ==
  /\ cur' = p /\ open' = FALSE
  /\ Drop
  /\ UNCHANGED <<loads, loading>>

\* Does the handler of a row leave everything as it is, with d as the open database?
Redundant(p, d) == p \in missing \/ p = (IF d # None THEN d ELSE PrimaryPath)

\* database_row_selected, after a click or a right click.
Select(p) ==
  /\ phase = "up" /\ p \in ToSet(rows) /\ p # selected
  /\ selected' = p
  /\ \/ /\ ~Redundant(p, cur)
        /\ SwitchTo(p)
        /\ enabled' = FALSE
     \/ Redundant(p, cur) /\ UNCHANGED <<cur, open, enabled, search, stray>>
  /\ UNCHANGED <<settings, phase, todo, rows, missing, locked, wanted, torn>>

\* The last row is selected, and if it is of another database than p, which was just
\* loaded, its handler opens that one; the actions then follow a db_data that was freed.
Show(p) ==
  /\ selected' = Last(rows')
  /\ \/ /\ selected' # selected /\ ~Redundant(selected', p)
        /\ SwitchTo(selected')
        /\ enabled' \in BOOLEAN
     \/ /\ selected' = selected \/ Redundant(selected', p)
        /\ cur' = p /\ open' = TRUE /\ enabled' = TRUE
        /\ UNCHANGED <<search, stray>>

\* on_open_db_password_received and on_new_db_password_received, when the file could be
\* loaded.
Open(p) ==
  /\ phase = "up" /\ ~locked
  /\ AddToList(p)
  /\ wanted' = wanted \cup {p}
  /\ torn' = (torn /\ p # PrimaryPath)
  /\ \/ /\ p \notin ToSet(rows)
        /\ half' = "open"
        /\ UNCHANGED <<selected, cur, open, enabled, search, stray>>
     \/ /\ p \in ToSet(rows)
        /\ Show(p)
        /\ UNCHANGED half
  /\ UNCHANGED <<primary, keyfile, phase, todo, missing, locked>>

OpenEnds ==
  /\ half = "open"
  /\ UNCHANGED <<list, phase, todo, rows, missing, locked, wanted>>
  /\ FirstIsPrimary
  /\ Show(Last(rows))
  /\ half' = "nothing"

\* action_set_primary_db.
SetPrimary ==
  /\ enabled /\ selected # None
  /\ SavePrimary(selected)
  /\ torn' = FALSE
  /\ UNCHANGED <<list, window, search, wanted, stray>>

\* Mutant: the path of the removed row stays the primary one.
RemoveKeepsPrimary ==
  /\ enabled
  /\ \E i \in DOMAIN rows : rows[i] = selected /\ rows' = RemoveAt(rows, i)
  /\ list' = rows'
  /\ missing' = missing \ {selected} /\ selected' = None
  /\ wanted' = wanted \ {selected}
  /\ UNCHANGED <<primary, keyfile, phase, todo, cur, open, locked, enabled, half, search,
                 torn, stray>>

\* on_remove_dialog_response.  The row goes and nothing takes its place; an open
\* database stays open.
RemoveDb ==
  /\ enabled
  /\ \E i \in DOMAIN rows : rows[i] = selected /\ rows' = RemoveAt(rows, i)
  /\ list' = rows'
  /\ half' = IF selected = PrimaryPath THEN "remove" ELSE "nothing"
  /\ missing' = missing \ {selected} /\ selected' = None
  /\ wanted' = wanted \ {selected}
  /\ UNCHANGED <<primary, keyfile, phase, todo, cur, open, locked, enabled, search, torn, stray>>

\* When the last database was removed, the path that an otpclient.cfg which could not be
\* written still has is the primary one at once.
RemoveEnds ==
  /\ half = "remove"
  /\ SavePrimary(IF rows # << >> THEN rows[1] ELSE None)
  /\ torn' = (rows = << >> /\ primary' # None)
  /\ half' = "nothing"
  /\ UNCHANGED <<list, phase, todo, rows, missing, selected, cur, open, locked, enabled,
                 search, wanted, stray>>

-----------------------------------------------------------------------------
(* The specification.                                                      *)

\* A new profile, or one that version 4 left.
Init ==
  /\ list = << >> /\ primary = None
  /\ keyfile \in {None} \cup Paths
  /\ phase = "down" /\ todo = << >> /\ rows = << >> /\ missing = {} /\ selected = None
  /\ cur = None /\ open = FALSE /\ locked = FALSE /\ enabled = FALSE
  /\ half = "nothing"
  /\ loads = << >> /\ loading = FALSE /\ loaded = FALSE /\ foreign = {}
  /\ wanted = {keyfile} \ {None} /\ torn = FALSE /\ stray = FALSE

\* A callback runs to its end before the next one: only the end of the program comes
\* between two settings it writes.
Next ==
  \/ /\ half = "nothing"
     /\ \/ AddRow \/ RemoveDb
        \/ \E p \in Paths : Open(p)
  \/ /\ half = "nothing"
     /\ \/ Launch \/ Start
        \/ Type \/ Lock \/ Unlock \/ UnlockFails
        \/ \E i \in 1..MaxLoads : LoadDone(i)
        \/ \E p \in Paths : Select(p)
        \/ SetPrimary
     /\ UNCHANGED half
  \/ AddRowEnds \/ OpenEnds \/ RemoveEnds
  \/ Quit

Spec == Init /\ [][Next]_vars

-----------------------------------------------------------------------------
(* Properties.                                                             *)

Twinless(s) == \A i, j \in DOMAIN s : s[i] = s[j] => i = j

\* The values the variables take; no database is listed twice.
TypeOK ==
  /\ \A s \in {list, todo, rows} : s \in Seq(Paths) /\ Twinless(s)
  /\ {primary, keyfile, selected, cur} \subseteq Paths \cup {None}
  /\ phase \in {"down", "starting", "up"} /\ half \in {"nothing", "row", "open", "remove"}
  /\ missing \subseteq ToSet(rows) /\ foreign \subseteq Paths /\ wanted \subseteq Paths
  /\ {open, locked, enabled, loading, loaded, torn, stray} \subseteq BOOLEAN
  /\ \A i \in DOMAIN loads :
       loads[i] \in [held : BOOLEAN, cancelled : BOOLEAN, stray : BOOLEAN, paths : SUBSET Paths]
  /\ Len(loads) <= MaxLoads
  /\ phase = "up" => rows = list

\* Whenever the program ends, the next start finds the databases the user has added and
\* not removed, and the one to open among them: rows that come and go, moves of the
\* primary mark, a profile of version 4 and an otpclient.cfg that is behind never
\* disagree about it.  The exceptions are the ends that leave db-path wrong (torn):
\* between the two settings of the first add (no database is primary) or of a removal
\* (the removed one still is), and during a start (the databases it had not come to are
\* lost, the primary one maybe among them).  When the last database was removed, and the
\* end came between the settings or otpclient.cfg could not be written, its path comes
\* back.  A missing primary path is mended by the next start, a wrong one by the user.
StartFindsAll ==
  phase # "starting" =>
    /\ list # << >> => ToSet(list) = wanted
    /\ list = << >> => wanted \subseteq {PrimaryPath}
    /\ wanted # {} =>
         \/ PrimaryPath \in wanted
         \/ torn \/ half = "remove" \/ (half = "open" /\ PrimaryPath = None)
    /\ phase = "up" /\ half = "nothing" /\ list # << >> => primary # None

\* The lock leaves no token of another database: neither what a search had found nor
\* what a load under way brings later.  Excepted are loads begun under the lock and
\* those whose cancellable a newer load has replaced.
LockedForgetsSearch == locked /\ ~stray => foreign = {}
=============================================================================
