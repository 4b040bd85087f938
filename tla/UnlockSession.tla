--------------------------- MODULE UnlockSession ---------------------------
(***************************************************************************)
(* Unlocking and locking the database of the window: the worker that runs  *)
(* load_db, the keyring lookup that feeds it, the password dialogs that    *)
(* stack up, the watchers that lock, and the switch to another database    *)
(* (src/gui/otpclient-application.c, lock-app.c, dialogs/password-dialog.c *)
(* and the database handlers of otpclient-window.c).                       *)
(*                                                                         *)
(* Everything runs on the main loop but the workers.  lock_generation is   *)
(* only ever compared for equality with the value an asynchronous call     *)
(* captured when it started: a call is "fresh" until the next increment.   *)
(***************************************************************************)
EXTENDS Naturals, Sequences, SequencesExt

CONSTANTS
  Paths,       \* the databases of the sidebar
  Primary,     \* the one named by the db-path setting
  LastEntry,   \* the last row of the sidebar
  MaxPending   \* bound: unlock workers, keyring lookups and password dialogs at once

\* "none" stands for the path of a NULL db_data.
ASSUME SidebarAssumption == {Primary, LastEntry} \subseteq Paths /\ "none" \notin Paths
\* The session starts with a lookup or a dialog.
ASSUME PendingAssumption == MaxPending \in Nat \ {0}

VARIABLES
  db,         \* db_data
  workers,    \* the unlock_db_thread tasks whose on_unlock_done has not run
  unlocking,  \* unlock_in_progress
  locked,     \* app_locked
  migrating,  \* migrating_legacy_keyring
  secret,     \* use_secret_service
  lookups,    \* secret_password_lookup calls under way
  storing,    \* the secret_password_store calls under way: clear_legacy_on_success
  legacy,     \* does the keyring hold the pre-5.0 entry?
  dialogs,    \* the password dialogs on the window, the topmost first
  choosing,   \* is the file chooser of "Open Database" up?
  selected,   \* the selected row of the sidebar
  missing,    \* the sidebar entries marked missing
  listed,     \* does otp_store hold the tokens of db_data?
  page        \* the visible page of content_stack

\* History, read by no guard: has anybody asked for the database since the last
\* lock request?
VARIABLE asked

calls == <<workers, lookups, storing>>
keyring == <<migrating, secret, legacy>>
window == <<dialogs, choosing, selected, missing, listed, page>>
vars == <<db, calls, unlocking, locked, keyring, window, asked>>

\* Does a password open the database?
Keys == {"right", "wrong"}
NoKey == "none"
NoDb == [path |-> "none", key |-> NoKey, loaded |-> FALSE]

Closed(p) == [path |-> p, key |-> NoKey, loaded |-> FALSE]
Purged == IF db = NoDb THEN NoDb ELSE Closed(db.path)
IsDbUnlocked == ~locked /\ db.loaded

\* update_empty_state.
PageOf(lock, d, tokens) ==
  CASE lock -> "locked"
    [] ~lock /\ d = NoDb -> "no-db"
    [] ~lock /\ d # NoDb /\ ~d.loaded -> "loading"
    [] OTHER -> IF tokens THEN "list" ELSE "empty"

Stale(cs) == [i \in DOMAIN cs |-> [cs[i] EXCEPT !.fresh = FALSE]]
Detached(ws) == [i \in DOMAIN ws |-> [ws[i] EXCEPT !.attached = FALSE]]
Present(kind) == dialogs' = <<kind>> \o dialogs

\* A dialog ends in a worker, a worker or a lookup may end in a dialog.
Room == Len(dialogs) + Len(workers) + Len(lookups) < MaxPending

\* on_password_received, once it has a database: the key is replaced, the loading
\* page shown and a worker started, whatever is already running.
StartUnlock(key) ==
  /\ db # NoDb
  /\ db' = [db EXCEPT !.key = key]
  /\ page' = "loading"
  /\ unlocking' = TRUE
  /\ workers' = Append(workers, [attached |-> TRUE, fresh |-> TRUE, key |-> key,
                                 result |-> "running"])

-----------------------------------------------------------------------------
(* Locking.                                                                *)

\* Mutant: the purge leaves the generation alone.
PurgeSecretsOnly ==
  /\ UNCHANGED <<workers, lookups>>
  /\ db' = IF unlocking THEN db ELSE Purged

\* otpclient_application_purge_secrets: the generation moves on; a running worker
\* purges when it is done.
PurgeSecrets ==
  /\ workers' = Stale(workers)
  /\ lookups' = Stale(lookups)
  /\ db' = IF unlocking THEN db ELSE Purged

\* lock_app_enter_locked_state; the flush of pending counters is in TokenWindow.
EnterLocked ==
  \/ /\ locked
     /\ unlocking
     /\ PurgeSecrets
     /\ asked' = FALSE
     /\ UNCHANGED <<locked, listed, choosing, page>>
  \/ /\ ~locked
     /\ locked' = TRUE
     /\ listed' = FALSE
     /\ choosing' = FALSE
     /\ page' = "locked"
     /\ PurgeSecrets
     /\ asked' = FALSE

\* lock_app_lock: the lock action, the screensaver, suspend and the inactivity timer.
Lock ==
  /\ Room
  /\ EnterLocked
  /\ IF locked THEN UNCHANGED dialogs ELSE Present("unlock")
  /\ UNCHANGED <<unlocking, storing, keyring, selected, missing>>

\* The toolbar button and the button of the locked page.
PresentUnlock ==
  /\ locked /\ ~unlocking /\ dialogs = << >> /\ ~choosing /\ Room
  /\ Present("unlock")
  /\ UNCHANGED <<db, calls, unlocking, locked, keyring, choosing, selected, missing, listed, page, asked>>

\* Escape on a password dialog: on_unlock_dialog_closed.
Dismiss ==
  /\ dialogs # << >>
  /\ dialogs' = Tail(dialogs)
  /\ \/ /\ Head(dialogs) # "open" /\ ~unlocking /\ ~IsDbUnlocked /\ ~locked
        /\ EnterLocked
     \/ /\ Head(dialogs) = "open" \/ unlocking \/ IsDbUnlocked \/ locked
        /\ UNCHANGED <<db, workers, lookups, locked, choosing, listed, page, asked>>
  /\ UNCHANGED <<unlocking, storing, keyring, selected, missing>>

-----------------------------------------------------------------------------
(* Passwords.                                                              *)

\* Does the topmost dialog hand its password to on_password_received?  The unlock
\* dialog goes through submit_unlock_password, the decrypt dialog does not.
Submittable ==
  /\ dialogs # << >>
  /\ Head(dialogs) \in {"unlock", "decrypt"}
  /\ Head(dialogs) = "unlock" => ~unlocking

\* on_unlock_clicked: the callback first, then the dialog closes, which does nothing
\* while an unlock is under way.
Submit(key) ==
  /\ Submittable
  /\ StartUnlock(key)
  /\ dialogs' = Tail(dialogs)
  /\ asked' = TRUE
  /\ UNCHANGED <<locked, keyring, lookups, storing, choosing, selected, missing, listed>>

\* The secure heap is exhausted: the key is gone and the dialog stays.
SubmitRefused ==
  /\ Submittable /\ db # NoDb
  /\ db' = [db EXCEPT !.key = NoKey]
  /\ UNCHANGED <<calls, unlocking, locked, keyring, window, asked>>

\* on_secret_lookup_done.
LookupFound(i, key) ==
  /\ lookups[i].fresh
  /\ migrating' = FALSE
  /\ \/ StartUnlock(key)
     \/ db = NoDb /\ UNCHANGED <<db, page, unlocking, workers>>
  /\ UNCHANGED <<secret, dialogs>>

LookupLegacy(i, key) ==
  /\ lookups[i].fresh /\ legacy
  /\ migrating' = TRUE
  /\ \/ StartUnlock(key)
     \/ db = NoDb /\ UNCHANGED <<db, page, unlocking, workers>>
  /\ UNCHANGED <<secret, dialogs>>

LookupEmpty(i) ==
  /\ lookups[i].fresh
  /\ migrating' = FALSE
  /\ secret' \in {secret, FALSE}
  /\ Present("decrypt")
  /\ UNCHANGED <<db, page, unlocking, workers>>

LookupStale(i) ==
  /\ ~lookups[i].fresh
  /\ UNCHANGED <<migrating, secret, dialogs, db, page, unlocking, workers>>

LookupDone ==
  \E i \in DOMAIN lookups :
    /\ \/ \E key \in Keys : LookupFound(i, key) \/ LookupLegacy(i, key)
       \/ LookupEmpty(i) \/ LookupStale(i)
    /\ lookups' = RemoveAt(lookups, i)
    /\ UNCHANGED <<locked, storing, legacy, choosing, selected, missing, listed, asked>>

-----------------------------------------------------------------------------
(* The worker and its answer.                                              *)

\* What load_db may return for the key the worker started with.  A key replaced or
\* freed under a running worker, like a database freed under it, is undefined
\* behaviour: any answer.
Answers(w) ==
  {"missing", "other"} \cup
  (IF ~w.attached \/ w.key # db.key THEN {"ok", "badtag"}
   ELSE IF w.key = "right" THEN {"ok"} ELSE {"badtag"})

\* unlock_db_thread, on its own thread.
Load(i) ==
  /\ i \in DOMAIN workers
  /\ workers[i].result = "running"
  /\ \E r \in Answers(workers[i]) :
       /\ workers' = [workers EXCEPT ![i].result = r]
       /\ db' = CASE workers[i].attached /\ r = "ok" -> [db EXCEPT !.loaded = TRUE]
                  [] workers[i].attached /\ r = "missing" -> [db EXCEPT !.loaded = FALSE]
                  [] OTHER -> db
  /\ UNCHANGED <<lookups, storing, unlocking, locked, keyring, window, asked>>

\* Mutant of DoneStale: the generation is not compared, the answer is used.
DoneStaleUsed(i) ==
  /\ ~workers[i].fresh /\ workers[i].result = "ok"
  /\ listed' = (listed \/ db.loaded)
  /\ locked' = FALSE
  /\ page' = PageOf(FALSE, db, listed')
  /\ workers' = RemoveAt(workers, i)
  /\ UNCHANGED <<db, choosing, dialogs, migrating, storing, missing>>

\* Mutant of DoneStale: the answer is dropped, what it loaded is not.
DoneStaleKeeps(i) ==
  /\ ~workers[i].fresh
  /\ Present("unlock")
  /\ workers' = RemoveAt(workers, i)
  /\ UNCHANGED <<db, listed, choosing, page, locked, migrating, storing, missing>>

\* on_unlock_done: a lock request came after the worker started.
DoneStale(i) ==
  /\ ~workers[i].fresh
  /\ db' = Purged
  /\ listed' = FALSE
  /\ choosing' = FALSE
  /\ page' = PageOf(locked, Purged, FALSE)
  /\ Present("unlock")
  /\ workers' = RemoveAt(workers, i)
  /\ UNCHANGED <<locked, migrating, storing, missing>>

\* A wrong password: the key goes and the dialog comes back.
DoneBadTag(i) ==
  /\ workers[i].fresh /\ workers[i].result = "badtag"
  /\ db # NoDb
  /\ page' = PageOf(locked, db, listed)
  /\ db' = [db EXCEPT !.key = NoKey]
  /\ migrating' = FALSE
  /\ Present(IF locked THEN "unlock" ELSE "decrypt")
  /\ workers' = RemoveAt(workers, i)
  /\ UNCHANGED <<locked, listed, choosing, storing, missing>>

\* Mutant: the entry is marked without looking whether there is still a database.
DoneMissingUnchecked(i) ==
  /\ workers[i].fresh /\ workers[i].result = "missing"
  /\ missing' = missing \cup {db.path}
  /\ db' = NoDb
  /\ page' = PageOf(locked, NoDb, listed)
  /\ workers' = Detached(RemoveAt(workers, i))
  /\ UNCHANGED <<locked, listed, choosing, dialogs, migrating, storing>>

\* The file vanished: its sidebar entry is marked, the database is dropped.
DoneMissing(i) ==
  /\ workers[i].fresh /\ workers[i].result = "missing"
  /\ missing' = missing \cup ({db.path} \cap Paths)
  /\ db' = NoDb
  /\ page' = PageOf(locked, NoDb, listed)
  /\ workers' = Detached(RemoveAt(workers, i))
  /\ UNCHANGED <<locked, listed, choosing, dialogs, migrating, storing>>

\* Any other error: the page is refreshed before db_data is dropped.
DoneOther(i) ==
  /\ workers[i].fresh /\ workers[i].result = "other"
  /\ page' = PageOf(locked, db, listed)
  /\ db' = NoDb
  /\ migrating' = FALSE
  /\ workers' = Detached(RemoveAt(workers, i))
  /\ UNCHANGED <<locked, listed, choosing, dialogs, storing, missing>>

\* The password is stored in the keyring, the rows appear, the lock opens.
DoneOk(i) ==
  /\ workers[i].fresh /\ workers[i].result = "ok"
  /\ secret => db # NoDb
  /\ storing' = IF secret /\ db.key # NoKey THEN storing \cup {migrating} ELSE storing
  /\ migrating' = FALSE
  /\ listed' = (listed \/ db.loaded)
  /\ locked' = FALSE
  /\ page' = PageOf(FALSE, db, listed')
  /\ workers' = RemoveAt(workers, i)
  /\ UNCHANGED <<db, choosing, dialogs, missing>>

\* Mutant of Done: an early return leaves unlock_in_progress set.
DoneForgets(i) ==
  /\ i \in DOMAIN workers
  /\ workers[i].result # "running"
  /\ DoneStale(i) \/ DoneBadTag(i) \/ DoneMissing(i) \/ DoneOther(i) \/ DoneOk(i)
  /\ unlocking' = (unlocking /\ workers[i].result = "other")
  /\ UNCHANGED <<lookups, secret, legacy, selected, asked>>

\* on_unlock_done.  Where it would follow a NULL db_data the process dies: the
\* answer is not taken.
Done(i) ==
  /\ i \in DOMAIN workers
  /\ workers[i].result # "running"
  /\ DoneStale(i) \/ DoneBadTag(i) \/ DoneMissing(i) \/ DoneOther(i) \/ DoneOk(i)
  /\ unlocking' = FALSE
  /\ UNCHANGED <<lookups, secret, legacy, selected, asked>>

\* on_password_stored_gui.
StoreDone ==
  \E clear \in storing :
    /\ storing' = storing \ {clear}
    /\ \/ legacy' = (legacy /\ ~clear) /\ UNCHANGED secret
       \/ secret' = FALSE /\ UNCHANGED legacy
    /\ UNCHANGED <<db, workers, lookups, unlocking, locked, migrating, window, asked>>

-----------------------------------------------------------------------------
(* Choosing a database.                                                    *)

\* database_row_selected's early returns, with d as the current database.
Selectable(p, d) ==
  /\ p \notin missing
  /\ IF d = NoDb THEN p # Primary ELSE p # d.path
  /\ ~unlocking

\* otpclient_application_switch_to_db, from database d: its rows go, and the password
\* of p is looked up or asked for over the dialogs that are left.
SwitchTo(p, d, left) ==
  /\ listed' = FALSE
  /\ page' = PageOf(locked, d, FALSE)
  /\ db' = Closed(p)
  /\ workers' = Detached(workers)
  /\ \/ secret /\ lookups' = Append(lookups, [fresh |-> TRUE]) /\ dialogs' = left
     \/ ~secret /\ dialogs' = <<"decrypt">> \o left /\ UNCHANGED lookups
  /\ asked' = TRUE

\* A click on a row that is not the selected one; while an unlock runs the selection
\* springs back.
Select(p) ==
  /\ dialogs = << >> /\ ~choosing /\ Room
  /\ p # selected
  /\ selected' = IF unlocking /\ p \notin missing /\ db # NoDb THEN db.path ELSE p
  /\ \/ Selectable(p, db) /\ SwitchTo(p, db, dialogs)
     \/ /\ ~Selectable(p, db)
        /\ UNCHANGED <<db, workers, lookups, dialogs, listed, page, asked>>
  /\ UNCHANGED <<unlocking, locked, keyring, storing, choosing, missing>>

\* open_db_button_clicked and on_open_db_file_selected; "New Database" differs only
\* in that the file is created first.
OpenClicked ==
  /\ dialogs = << >> /\ ~choosing /\ ~unlocking
  /\ choosing' = TRUE
  /\ UNCHANGED <<db, calls, unlocking, locked, keyring, dialogs, selected, missing, listed, page, asked>>

FileChosen ==
  /\ choosing
  /\ choosing' = FALSE
  /\ UNCHANGED dialogs \/ (Room /\ Present("open"))
  /\ UNCHANGED <<db, calls, unlocking, locked, keyring, selected, missing, listed, page, asked>>

\* on_open_db_password_received, when the window was locked meanwhile or load_db, run
\* on the main loop, fails.
OpenFails ==
  /\ dialogs # << >> /\ Head(dialogs) = "open"
  /\ dialogs' = Tail(dialogs)
  /\ \/ locked /\ UNCHANGED <<listed, page>>
     \/ ~locked /\ listed' = FALSE /\ page' = PageOf(FALSE, db, FALSE)
  /\ UNCHANGED <<db, calls, unlocking, locked, keyring, choosing, selected, missing, asked>>

\* The last row is selected for the database just opened, whichever row is its own:
\* if that is another one, its handler switches to it.
OpenLoads(p) ==
  LET opened == [path |-> p, key |-> "right", loaded |-> TRUE]
  IN /\ dialogs # << >> /\ Head(dialogs) = "open" /\ ~locked
     /\ selected' = IF LastEntry # selected /\ unlocking /\ LastEntry \notin missing
                    THEN p ELSE LastEntry
     /\ \/ /\ LastEntry # selected /\ Selectable(LastEntry, opened)
           /\ SwitchTo(LastEntry, opened, Tail(dialogs))
        \/ /\ LastEntry = selected \/ ~Selectable(LastEntry, opened)
           /\ db' = opened
           /\ workers' = Detached(workers)
           /\ dialogs' = Tail(dialogs)
           /\ listed' = TRUE
           /\ page' = "list"
           /\ asked' = TRUE
           /\ UNCHANGED lookups
     /\ UNCHANGED <<unlocking, locked, keyring, storing, choosing, missing>>

-----------------------------------------------------------------------------
(* The specification.                                                      *)

\* init_database: the primary database, if its file is there.
Init ==
  /\ secret \in BOOLEAN
  /\ legacy \in BOOLEAN
  /\ \/ /\ db = Closed(Primary)
        /\ missing = {}
        /\ lookups = IF secret THEN <<[fresh |-> TRUE]>> ELSE << >>
        /\ dialogs = IF secret THEN << >> ELSE <<"decrypt">>
     \/ db = NoDb /\ missing = {Primary} /\ lookups = << >> /\ dialogs = << >>
  /\ workers = << >> /\ storing = {}
  /\ unlocking = FALSE /\ locked = FALSE /\ migrating = FALSE
  /\ choosing = FALSE /\ selected = Primary /\ listed = FALSE /\ page = "no-db"
  /\ asked = (lookups # << >>)

User ==
  \/ PresentUnlock \/ Dismiss \/ SubmitRefused \/ OpenClicked \/ FileChosen
  \/ \E key \in Keys : Submit(key)
  \/ OpenFails
  \/ \E p \in Paths : Select(p) \/ OpenLoads(p)

Next ==
  \/ User \/ Lock \/ LookupDone \/ StoreDone
  \/ \E i \in DOMAIN workers : Load(i) \/ Done(i)

Spec == Init /\ [][Next]_vars

\* load_db returns and the main loop runs what it returned.
FairSpec ==
  Spec /\ \A i \in 1..MaxPending : WF_vars(Load(i)) /\ WF_vars(Done(i))

-----------------------------------------------------------------------------
(* Properties.                                                             *)

\* The values the variables take.
TypeOK ==
  /\ db \in {NoDb} \cup [path : Paths, key : {NoKey} \cup Keys, loaded : BOOLEAN]
  /\ \A i \in DOMAIN workers :
       workers[i] \in [attached : BOOLEAN, fresh : BOOLEAN, key : Keys,
                      result : {"running", "ok", "badtag", "missing", "other"}]
  /\ \A i \in DOMAIN lookups : lookups[i] \in [fresh : BOOLEAN]
  /\ storing \subseteq BOOLEAN
  /\ {unlocking, locked, migrating, secret, legacy, choosing, listed, asked} \subseteq BOOLEAN
  /\ dialogs \in Seq({"unlock", "decrypt", "open"}) /\ Len(dialogs) + Len(workers) + Len(lookups) <= MaxPending
  /\ missing \subseteq Paths /\ selected \in Paths
  /\ page \in {"locked", "no-db", "loading", "list", "empty"}

\* A locked window keeps nothing: once no worker runs, there is neither a key nor a
\* token in memory, whatever was under way when the lock came; and the list page is
\* shown only over the tokens of an unlocked database.
LockedHoldsNothing ==
  /\ locked => ~listed
  /\ locked /\ workers = << >> => db.key = NoKey /\ ~db.loaded
  /\ page = "list" => ~locked /\ listed

\* Tokens appear only for somebody who asked after the last lock request: an answer
\* that a lock overtook, from the worker or from the keyring, opens nothing.
OpensOnlyWhenAsked == [][~listed /\ listed' => asked']_vars

\* A lock request is undone the same way.
UnlocksOnlyWhenAsked == [][locked /\ ~locked' => asked']_vars

\* unlock_in_progress always falls again: sidebar and toolbar come back.
UnlockEnds == unlocking ~> ~unlocking
=============================================================================
