# A TLA+ development for OTPClient

OTPClient keeps one-time-password tokens in encrypted files. A GTK program, a command-line tool
and a desktop search provider read the same files; the first two write them. This directory holds
TLA+ modules translated from that code, TLC configurations that check them on small instances, and
TLAPS proofs of the invariants that hold for every size. Paths below are relative to `src/` of the
repository; `file:line` is a line of it.

To check: `tlc -workers 2 -config DbStore.cfg MCDbStore.tla` and so on (the table of runs names
module and configuration); `tlapm DbStoreProofs.tla`, and likewise `TokenWindowProofs`,
`UnlockSessionProofs`, `DbKeyProofs`, `DatabasesProofs`, `SearchProviderProofs`, `ExchangeProofs` and
`SequenceFacts`. Each takes a few minutes at most, `ExchangeProofs` the longest.

## 1. Inventory

| Part | State it keeps | Operations | What is hard, and what must hold | Module |
|---|---|---|---|---|
| Database file (`common/db-common.c`) | the file, `.bak`, `.lock`; per handle `in_memory_json_data`, the last committed snapshot, `loaded_file_digest`, the quarantined tokens | `load_db` with v1/v2 migration, `update_db`, `db_transaction`, import, purge | several processes on one file, each system call may fail, any process may die; no save overwrites what it has not read, a failed one leaves file and memory at some whole version, a backup exists before the file is replaced, quarantined tokens survive | `DbStore` |
| Database key (same file, `kdf-dialog.c`) | the password, the derived key and what it was derived from, the Argon2 parameters | derive, cache, change password, change parameters, migrate | parameters come from a header not authenticated yet; a cached key must fit them; a failed change must roll back key, parameters and cache together; the file must open again | `DbKey` |
| Unlock session (`otpclient-application.c`, `lock-app.c`, `password-dialog.c`) | `db_data`, `lock_generation`, `unlock_in_progress`, `app_locked`, `migrating_legacy_keyring`, dialogs, the page shown | submit a password, keyring lookup, worker result, lock, switch, open | workers, keyring answers and lock requests in any order; an overtaken answer must open nothing and leave nothing in memory | `UnlockSession` |
| Window (`otpclient-window.c`) | `otp_store` (rows), `hotp_counter_dirty` and its timer, the undo slot, positions captured by dialogs | copy a code, drop, delete, undo, edit, move, flush, group | rows must list the array in its order; counters are saved later than their code is shown; saves may fail in every operation; dialogs outlive locks | `TokenWindow` |
| Sidebar, list of databases, search across them (`gui-misc.c`, `otpclient-window.c`, `database-sidebar.c`, `gsettings-common.c`) | the settings `db-list` and `db-path`, the old `otpclient.cfg`, the rows, missing marks; `cross_db_store`, its flags, workers and cancellable | start, add, open, select, remove, set primary; load, done, lock | the settings are written by the start itself, row by row; two places hold the primary path; workers outlive the state they began in | `Databases` |
| Search provider (`search-provider.c`) | cached entries and their time, file monitors, results as capabilities, the rate limit, cached keys | search, describe, activate, monitor events, idle wipe | events against reloads; a result used once, by its receiver; nothing stays when the calls stop | `SearchProvider`, `DbKey` |
| Command line (`cli/`) | one handle, a working copy of the tokens | show, list, import, export | the HOTP counter is saved before the code is printed; other processes save meanwhile | `Exchange` |
| Validation (`otp-validation.c`) | none | range checks, naming | boundary values | `OtpFormats` |
| Import, export (`aegis.c`, `authpro.c`, `twofas.c`, `freeotp.c`, `parse-uri.c`, `google-migration.c`, `import-export.c`, the two dialogs) | the backup file | read, write | what each format loses; passwords; a file cut off; duplicates; the one transaction | `OtpFormats`, `Exchange` |
| Keyring (`secret-schema.c`), settings, tray, QR codes, other dialogs, memory sizing | desktop services | read, write | external | none |

How they interact. The window, the dialogs and the command line change a token array and call
`update_db` (memory is edited first and put back on failure) or `db_transaction` (a copy is edited
and adopted on success). The application owns the one `db_data` of the GTK program; the window
reads it through the application at every call. `load_db` for the window runs on a worker thread
and ends in `on_unlock_done` on the main loop; the search across databases loads other files on
another worker and ends in `cross_db_load_done`; keyring calls end in callbacks of the main loop
too. Everything else in the GTK program is sequential on that loop, and so is the search provider on
its own, so the concurrency is: several processes on a file, workers against the main loop, and
callbacks or dialogs that come back to a state that has moved on. The file's lock and the digest
comparison guard the first, the generation, the cancellables and the in-flight flags the second,
re-reads and position checks the third.

`PROJECT.json` lists every component with its status, and the hazards line by line.

## 2. Modules

| Module | What it is |
|---|---|
| `VersionedStore` | what a database file promises: one linear history of versions; a commit is made by a client that holds the newest one, with the exceptions named (no version held, overtaken in the window below, no locks) |
| `DbStore` | the file as several handles use it, one action per system call that matters: implements `VersionedStore` |
| `MCDbStore` | two handles, a valid token and two copies of an invalid one, for TLC |
| `DbStoreProofs` | theorems about `DbStore` |
| `DbKey`, `MCDbKey` | what keys are derived from, in the window and in the search provider; two passwords, two sets of parameters |
| `DbKeyProofs` | theorems about `DbKey` |
| `UnlockSession`, `MCUnlockSession` | `db_data` from closed to unlocked and back, with workers, keyring and dialogs; two databases |
| `UnlockSessionProofs` | theorems about `UnlockSession` |
| `TokenWindow`, `MCTokenWindow` | rows, array, files of two databases, counters, undo, dialogs; two HOTP tokens and a TOTP token |
| `TokenWindowProofs` | theorems about `TokenWindow` |
| `Databases`, `MCDatabases` | the list of databases, the sidebar and the search across them; three databases |
| `DatabasesProofs` | theorems about `Databases` |
| `SearchProvider`, `MCSearchProvider` | the search daemon; two callers, three tokens |
| `SearchProviderProofs` | theorems about `SearchProvider` |
| `OtpFormats` | tokens, their validation, and each reader and writer of a backup format as an operator |
| `Exchange`, `MCExchange` | the command line and the import and export dialogs over `OtpFormats`; two runs and a window |
| `ExchangeProofs` | theorems about `Exchange` and the operators of `OtpFormats` it rests on |
| `SequenceFacts` | lemmas on sequences that several of the proofs cite |

**Where the models meet.** A save is one step that succeeds or fails in `TokenWindow`, `DbKey` and
`Exchange`, and what is inside that step is `DbStore`; `Exchange` and `DbKey` keep its digest
comparison, so that a save over what was not read fails there too. An unlock is one step in
`TokenWindow`, `Databases` and `Exchange`, and the worker inside it is `UnlockSession`; `DbKey` has
the same worker for what it does to the key. A switch or open appears in several, as what it does to
the tokens in one, to the key and dialogs in another, to the rows in the third. `DbKey` also has the
loads of `SearchProvider`, which keeps the derived key between them.

### DbStore

`log` is the sequence of whole versions the file has held, and a digest is the index of a version:
each save encrypts under a fresh IV, so bytes are never repeated. `holders` are the handles inside
`lock_db` .. `unlock_db`, `pc` is the place of each handle in the code and `op` the call it makes. A
save takes the steps of the code in its order: take the lock or give up after two seconds, compare
the digest, back up, write and rename, release the lock, refresh the snapshot, compute the digest,
back up again without the lock. A version counts how often it holds each token: `Written` appends
what was set aside to the array (`db-common.c:1617`), and `TakeFile` builds the array of what is set
aside anew (`:454-456`), without which a token would be doubled by the next save. Each step may fail and takes the code's way out; a process may die
between any two. `flock` says whether the file system implements locks: where it does not the code
goes on without (`db-common.c:344`), and the properties that need a lock say `flock =>`. Opening
reads the file twice (`get_db_version`, then `decrypt_db`), and migrates.

`ImplementsStore` is the refinement: the sets of tokens that the versions of `log` hold are the abstract history, `base` (the
version a handle's tokens come from) is what each client has read, a handle between its rename and
the digest it computes after unlocking is "settling", and one that was written over meanwhile is
"blind". That window is where this code can lose an update: the handle hashes, and from then on
vouches for, bytes it has not read. `NoSilentClobber` and `DigestIsOwn` say that nothing is lost
outside it, and the run `db_store_lost` shows the loss inside it.

Assumed: `g_file_copy` replaces the backup as a whole, nobody removes the file. `data_to_add` is
written by nothing any more and left out. Every handle has the password; keys are in `DbKey`.

### DbKey

A key is the record of what it was derived from: password, whether that was cut to its length in
characters (the old formats), salt, Argon2 parameters. A file carries version, salt and parameters in
its header and opens with exactly the key it was sealed with. `db` is the window's handle: password,
parameters, cache, digest; `kept` is the entry of the search provider's `g_kdf_cache`. `DerivedKey` is
`get_db_derived_key` with its cache, `Decrypt` takes the header's parameters into the handle before
the tag is checked, as the code does, and goes through the three formats; a successful load of an old
one migrates. `ChangePassword` and `UpdateKdf` change key or parameters, save, and put them back
when the save fails. `Load` and `Done` are the unlock worker and its completion, with the lock and a
reopening in between; `PutBack` and `Damage` are a user or a synchronisation that replaces the file by
another version of itself, or spoils its header.

### UnlockSession

`lock_generation` is only compared for equality with the value a call captured, so each call carries
`fresh`, cleared by the next increment. A worker is `attached` while the `db_data` it was given is
still the application's. Dialogs are a stack: a lock, a wrong
password, an overtaken answer and a keyring miss each present one more. The password is right or wrong for the
database that is open; when the key is replaced or freed under a running worker, its answer is any.
`asked` is history: has anybody entered a password, unlocked from the keyring or chosen a database
since the last lock request? `DoneStale`, `DoneMissing`, `DoneBadTag`, `DoneOther` and `DoneOk` are
the ways out of `on_unlock_done` in its order. A result that would dereference a `db_data` that is
gone ends the process, so the step is not taken.

### TokenWindow

`json` is the array in memory, `rows` the list model, `files` what both files hold. `Saved` and
`SaveFails` are the two ends of `update_db`: the failure restores the last committed array, which is
the file's because no other process writes here (`DbStore` is about those). Every operation chooses
between them. `dialog` is the modal dialog and the position, or token, that it captured; it survives
a lock, as in the program. Two history flags name what the code gives up, so that the properties do
not claim it: `excused` once counters waiting for their flush were dropped, by a failed save or by
Open Database, and `askew` once a drop or a move could not save and memory follows neither file nor
rows. The configuration checks a state with `askew` and does not continue it (`CONSTRAINT Followed`): every
property but `TypeOK` excepts what follows one.

Left out: the data of groups (their saves are `SetGroup`), rows of a cross-database search, adding
and importing tokens, quitting.

### Databases

What survives the program is `list` (`db-list`), `primary` (`db-path`) and `keyfile`, the path in
`otpclient.cfg`, which `PrimaryPath` falls back on and `SavePrimary` may fail to write. `Launch`,
`AddRow` and `Start` are `init_database`: the list is read, or made from the path a profile of
version 4 left; each row is added through the function the user's additions take, which saves the
list with the rows there are so far; then the primary row is selected, and selecting one has the
effects of a click. `Quit` may come at any moment, between the two settings that one callback writes
as well. `half` says that `db-list` is written and `db-path` is not: `AddRow` and `AddRowEnds`, `Open`
and `OpenEnds` (`gui-misc.c:160`, then `otpclient-window.c:1632`, both with `FirstIsPrimary`), and
`RemoveDb` and `RemoveEnds` (`otpclient-window.c:4512`, then `:4520` or `:4522`). No other step comes
between, for the callback runs to its end on the main loop. `torn` is history: an end, or an
`otpclient.cfg` that could not be written, has left a `db-path` that names no listed database.
`Select`, `Open` (Open and New Database), `SetPrimary`
and `RemoveDb` are the sidebar, `Unlock` and `UnlockFails` what `UnlockSession` has in detail.

`loads` are the tasks of `cross_db_load_thread`. Each has the databases it will try, whether the
window still holds its cancellable, and whether it was cancelled; `Found` is any part of them, for
each needs a password in the keyring. `loading` and `loaded` are the flags of the window, which a
task that ends clears or sets whatever became of it. `stray` marks, for `LockedForgetsSearch` only, a load
begun from the search bar over the locked page, or one whose cancellable a newer one has replaced.

### SearchProvider

Handlers run to their end on one main loop, so the only thing between two steps of a handler is
another program; `Search` therefore sets the monitors and `Reload` reads, and an event that the
monitor has queued waits. `entries` is a function from positions in the array of the file to the tokens kept from it, as the
code keeps them with their position. A result is named by the search that gave it out, which
`searches` numbers, and a position; `results` is history, and `caps` are those that can still be
activated. `Activate` consumes the capability, loads the file again and computes the code of the token
at the remembered position. `cachedAt` and `active` abstract two clocks to "zero", "set" and "old".
A cache, a rate limit and a wipe that meet are what the model is about; how a query matches a label is
the constant `Matches`.

### OtpFormats and Exchange

A token is a record of type, label, issuer, secret, digits, value and group. `value` is the period of
a TOTP and the counter of a HOTP token, which share a union in the code. A name is the sequence of its
words between colons, since the formats do nothing to names but join and split them there; `Percent`
and `Ampersand` are the words that a second decoding spoils. Each format has a writer
(`ExportAegis`) and a reader of one entry (`ReadAegis`), translated from the source with its
defaults, case changes and refusals; `Opens` has the passwords and slots, `Cut` is what a write that
fails half way leaves, `BuildObj` what is stored of what was read, `Valid` and `Repaired` are
`otp-validation.c`. `Pick` takes the elements of a sequence at given positions, in order; an import
appends the tokens it built that are new, which is neither in the database nor the same as one
before them in the import.

`Exchange` runs them. `db` is the database file with its version, each actor has the tokens it loaded
and the version they come from (`snap`), and `Commit` succeeds only over that version. A run of the
command line is created by a command line of `CommandLines` that `Accepts` accepts, loads or creates
the file, and shows, imports or exports; `Show` advances and saves the counters, `PrintCodes` prints
them, another process or a crash may come in between. The dialogs of the window do the same over the
memory of the window, which a lock empties. `twice` and `rolled` are history for `CodesOnce`.

## 3. What the runs check

| Run | Configuration, module | Bounds | Result |
|---|---|---|---|
| `db_store` | `DbStore.cfg`, `MCDbStore` | 2 handles, `t1` once and an invalid token twice, 3 versions; symmetric handles | passes, 1.3 million states |
| `db_store_live` | `DbStoreLive.cfg`, `MCDbStore` | 2 handles, one token, 2 versions; fairness | passes, 0.2 million states |
| `db_store_lost` | `DbStoreLost.cfg`, `MCDbStore` | 2 handles, one token, 4 versions | violated: an update is lost |
| `db_key` | `DbKey.cfg`, `MCDbKey` | 2 passwords (one not ASCII), 2 sets of parameters and one out of range, files of every format at first, 4 salts | passes, 0.3 million states |
| `db_key_empty` | `DbKeyEmpty.cfg`, `MCDbKey` | the same, 3 salts | violated: the file is emptied |
| `unlock_session` | `UnlockSession.cfg`, `MCUnlockSession` | 2 databases, at most 2 workers, lookups and dialogs together | passes, 0.6 million states |
| `token_window` | `TokenWindow.cfg`, `MCTokenWindow` | 3 tokens (2 HOTP), 2 databases of at most 3, counters to 2, 2 toasts; symmetric | passes, 0.6 million states |
| `token_flush` | `TokenFlush.cfg`, `MCTokenWindow` | the same tokens | violated: a flush has nothing to save |
| `databases` | `Databases.cfg`, `MCDatabases` | 3 databases, 2 loads at once; symmetric | passes, 1.1 million states |
| `search_provider` | `SearchProvider.cfg`, `MCSearchProvider` | 3 tokens (2 TOTP), 2 callers, 2 queries, a burst of 1, 2 results; fairness | passes, 0.25 million states |
| `exchange` | `Exchange.cfg`, `MCExchange` | 2 runs and a window, 6 databases to start from, 5 foreign files, 3 versions, 4 tokens, counters below 2, 32-bit numbers of 7 bits; symmetric runs | passes, 0.20 million states |
| `exchange_uri` | `ExchangeUri.cfg`, `MCExchange` | the same | violated: a token does not survive a URI |

**db_store.** `NoSilentClobber`: with locks, each version was made from the one before it, unless its
handle had no digest or was overtaken in its window. `CheckStillHolds`: what the comparison found is
still so at the rename. `DigestIsOwn`: a digest newer than the tokens a handle holds belongs to one
that was overtaken. `SnapshotIsOneVersion`: the snapshot a failure restores and the tokens set aside
are those of one stored version, although the file is read more than once. `QuarantineKept`: each
version holds each invalid token as many times as the version it was made from, so that none is lost
and none doubled, by failed saves and repeated loads either.
`BackupBeforeReplace`: no database is replaced before there is a copy of one. `UpdateEndsCommitted`:
however `update_db` ends, memory is a committed array. Three versions are what the hazards need: one
that two handles read, one written in between, one written in ignorance.

**db_key.** `FileOpens`: whatever mixture of changes, failures, migrations and files put back, the
database can be derived and opened again from its own header, although the key it is sealed with may
come from a cache and the parameters beside it from somewhere else. `CacheIsDerived`: between two
unlocks the cached key is the one that would be derived. `KeyOpensFile`: password and parameters in
memory are those of the file, whatever change of them failed. `LoadsOnlyWithPassword`: no cached key
opens the file for another password. Four salts allow two changes with an old salt put back under
them. Files put back have the current key length here; "Where the code departs" says why.

**unlock_session.** `OpensOnlyWhenAsked` and `UnlocksOnlyWhenAsked`: neither tokens nor the unlocked
window come back by an answer that a lock overtook. `LockedHoldsNothing`: once no worker runs, a
locked window holds neither key nor tokens, and the list page is shown only over the tokens of an
unlocked database. `UnlockEnds`: `unlock_in_progress` always falls. Two pending calls let a lock, a
second dialog and a second worker meet each other.

**token_window.** `RowsMirrorJson`: an action on a row reaches the token it shows. `CountersReachFile`
and `NoCodeTwice`: no code handed out is ever behind the file once a flush went through, nor handed
out again. `MemoryMatchesFile`: a failed save undoes its edit. `TokensKept` and `TokensOnce`: no
sequence of drops, deletions, undos, moves, locks and switches loses or doubles a token nobody
deleted. Three tokens and two databases let a position move under a dialog, an undo land beyond the
end of a shorter list, and a token cross over and come back; two toasts let an old toast meet a new
deletion.

**databases.** `StartFindsAll`: whenever the program ends, the next start finds the databases the user
has added and not removed, and opens one of them. Four things leave `db-path` wrong, and the property
names them: an end between the two settings of the first add (no path, which the next start mends);
an end between those of a removal (the path of the removed database, until the user chooses another;
the last database comes back); a start cut short (the databases it had not reached are lost, the
primary one maybe among them); and an `otpclient.cfg` that could not be written when the last database
was removed (it comes back). `LockedForgetsSearch`: a locked window holds no token of another
database, whether a search had found it or a worker brings it later, but for the two kinds of load
`stray` marks. Three databases let the primary one go with an order among the others; two loads let
a cancelled one end under a newer one.

**search_provider.** `CacheFollowsFile`: what is served is what the file holds, unless the monitor has
a change to report or could not be made; in particular a change during a reload is not lost.
`OneCodePerResult`: a code goes to the caller whose search it answers, once, within its time and not
after a wipe. `CodeOfLabelUnlessEdited`: it is the code of the label that was shown, as long as the
file has not been saved in between. `WipedWhenIdle`: when the calls stop, entries, capabilities and
the derived key leave the memory. Two callers let one use what the other was given; a burst of one
lets the limit strike in every order.

**exchange.** `CodesOnce`: no code of a counter is printed twice, whichever process saves or dies
when, unless an import brought the counter back. `NoTwins`: no import, repeated or concurrent, stores
the same words twice. `RoundTrip`: a backup written to its end gives back, with its password, each
token that its format can carry (`Carries`), as the format leaves it (`Carried`); when that is all of
them, the whole database in its order, the first of any that the format has made equal (`Firsts`).
One cut off gives nothing, URIs excepted. `TokensKept`: imports, counters and their failures keep
every token of the file.
`TypeOK` includes that every stored token validates. The databases and foreign files are chosen one
by one for what the readers do differently: missing names, Steam, a counter of Steam, bad digits, counters at the
maximum, one secret in two groups, characters a URI escapes, several password slots. Two runs and the window
are enough for one save between another's load and save.

**Fairness.** `db_store_live` assumes that a running process keeps executing the save it has begun
(weak fairness of its steps; a crash remains possible, and waiting for the lock ends after two
seconds). `unlock_session` assumes that `load_db` returns and that the main loop runs its completion.
`token_flush` assumes that the main loop fires a timer that is due. `search_provider` assumes that a
handler ends, that time passes and that the periodic timer of `idle_wipe_check` fires. No assumption
is made about users, callers, the keyring or errors.

### Where the code departs from what it says

Four runs must end in a violation. Each is listed with its lines under `findings` in `PROJECT.json`.

- `db_store_lost`: the digest is taken after `unlock_db` (`common/db-common.c:639`), so that a save that
  falls between is overwritten by the next one unnoticed.
- `token_flush`: a failed save rolls back waiting HOTP counters and the next flush reports success.
- `db_key_empty`: while the unlock worker runs there is a key and there are no tokens; Change Password
  or KDF Parameters applied then take the empty memory for a first run, compare no digest, and
  replace the file (`common/db-common.c:571`).
- `exchange_uri`: a URI is decoded by `g_uri_parse` and once more by the parser
  (`common/parse-uri.c:173`), so that a percent sign or an ampersand in a name loses the token.

The models do more that a comment, a message or the other half of the code contradicts, and that no
property excludes. What each property excepts is in its comment.

*Keys.* A load that succeeds with version 1 or with the old key length leaves the cache in place
(`db-common.c:1248`), and the migration after it takes the cached key beside the new parameters
(`:1582`), although `:1104-1107` says "KDF params haven't changed". Put an old file back under a handle
with a cache and the migrated file no longer opens. `FileOpens` is violated by that once `Old` has the
old formats, so `DbKey.cfg` gives `Old` the current ones; the old formats are in `Initial`.

*Unlocking.* Only `otpclient_application_submit_unlock_password` refuses a second worker
(`gui/otpclient-application.c:801`); the dialogs and the keyring call `on_password_received` itself,
against the comment at `:59-64`, and the first worker to end lowers `unlock_in_progress` under the other. An unlock overtaken by a lock leaves `migrating_legacy_keyring`
set (`:585-640`), which `:52-56` says is reset on every outcome. Open Database selects the last row
(`gui/otpclient-window.c:4206`), which need not be the file just loaded: its handler switches away,
and the line after it reads the `db_data` that was freed (`:4212`). After a failed load the row of the
primary database is still selected and cannot be clicked again (`:1415`), although
`otpclient-application.c:684` counts on it. Unlock dialogs pile up, and a lock with no database open
leaves a window that no password unlocks.

*Tokens.* A move whose second save fails puts the token back twice (`otpclient-window.c:3415`; memory had
been restored already), where `:3403-3406` means to keep memory consistent. A drop whose save fails
leaves the rows moved (`:2142`). Open Database and New Database drop counters that wait for the flush.

*Databases.* The search bar opens over the locked page (`win.search` is not among the actions that
`otpclient-window.c:1172` disables) and loads other databases. A load that was cancelled lowers
`cross_db_loading` under the one that followed it (`:804`); a third then takes over the cancellable, and a
later lock cannot stop the second. Opening, switching or removing a database while a load runs leaves
results of a list that is no longer the one, the open database among them. The message for a missing
database says to right-click it and remove it (`otpclient-application.c:525-528`), but `win.remove-db`
is disabled until some database is unlocked. The missing mark is set at start and never cleared.
Removing the open database leaves it open. A start that is killed half way loses the rows it had not
added, since every added row saves the list (`gui-misc.c:160`). A removal saves the list and then the
primary path (`otpclient-window.c:4512`, `:4520`): a kill between leaves the removed database primary,
and when it was the last one the next start takes it for that of a version 4 profile and lists it again.

*Search.* A result activated after another program saved the file gives the code of whatever token
has the position now (`search-provider/search-provider.c:1091`).

*Exchange.* Aegis spells types in lower case, so importing its backup again stores tokens twice whose
type was stored in upper case. Authenticator Pro keeps groups by secret, so tokens that share a secret
share their groups afterwards. A HOTP token whose issuer is Steam comes back from an Aegis file and
from a URI as a TOTP token: both write `steam` by the issuer alone (`aegis.c:478`, `parse-uri.c:50`),
where the Authenticator Pro writer does so for TOTP only (`authpro.c:184`). Only the first password slot of an Aegis file is tried. Colons in an issuer
are lost in a URI. An export that fails has already truncated the earlier file, and a URI file cut off
is read as far as it goes, its last token with default numbers. `google-migration.c:105` drops a
token without a name before the line that would name it (`:168`). The count of refused QR codes is
cleared before it is reported (`import-dialog.c:170`, `db-common.c:817`). The command line stamps the time of the last export to
"mirror the GUI export path" (`exec-action.c:360`), which does no such thing (`export-dialog.c:150`).
An import that finds no database creates one over a file that came meanwhile (`exec-action.c:190`).

## 4. What is proved

For every value of the constants that satisfies the `ASSUME`s of the modules: any number of handles,
databases, tokens, workers and runs, any paths and passwords, any bounds. Two theorems on `Exchange`
and those on the keys have one hypothesis more, given below. The theorems are listed under `theorems` in
`PROJECT.json`; this is along which argument they hold.

The assumptions say what the code takes for granted. That no path is called `"none"`, and that
`None` is no password, parameters, path, caller or token (`NoneAssumption`, `SidebarAssumption`), only
keeps a marker apart from the values. That the default Argon2 parameters are in range
(`ParamsAssumption`), formats are among the three there are (`FormatsAssumption`), there is another
database to move to (`TwoDbs`), the entries of a foreign file are a sequence (`FilesAssumption` of
`Exchange`) with names where names belong, the types of file are those the program offers and a text
of URIs is never sealed (`TypesAssumption`), a missing value is no number and no name of Steam, whose
name needs no escape (`AbsentAssumption`, `PercentAssumption`), and the tokens of the first database validate (`SeedsAssumption`, as `load_db`
sets aside those that do not) are facts of the program; the rest say that bounds are numbers.

**DbStoreProofs.** Type correctness (`Typing`) first. `StaleInv` adds that a handle between `lock_db`
and `unlock_db` is the only holder, that a handle in the window has the newest version or was
overtaken, and that only a handle that has stored nothing lacks a digest: `NoSilentClobber` alone is
not inductive, because the comparison it rests on was made two steps before the rename. From it
`NoClobber`, `OwnDigest` and `CheckHolds`. `TokensInv` adds that nothing a handle would write as its
own is invalid, that what it set aside it holds as often as its version does, and that a renamed file
holds the candidate; what a merge of the two arrays holds of each is then counted token by token
(`MergeSplits`); from it `QuarantineSafety` and `SnapshotSafety`. `BackupInv` adds to
`BackupBeforeReplace` that the file is there from the comparison or the rename on, and that a
handle at its trailing backup has copied something. A handle may pass the
backup because there is no database; that it may go on from there rests on the lock, for another
handle could otherwise create one in between (`BackedUp`). `EndInv` says that a handle outside a save
makes no call, and that memory is the committed array from the refreshed snapshot to the end of the call (`EndsCommitted`).
`Implementation` is the refinement: every step is a step of `VersionedStore` or changes nothing of it.

**TokenWindowProofs.** `Order` says that rows, array and file list the same tokens in the same order
unless a save left memory askew, and that an array owing no counters is the file's. The rows alone
are not inductive: a failed save puts the file's array back under rows that nobody rebuilds, which is
right only because the file was in the rows' order too. From it `RowsOrder` and `Memory`. `Ranges`
are the bounds; they need that a move waits only for a target with room, and a deletion only for a
row that is there, across whatever locks the dialog outlives (`Typing`). `Places` adds that the files
and the undo slot hold each token once (`Apart`), that a dialog's token is the one at its position of
the file (`Captured`), and where the tokens are that nobody deleted (`Kept`): an undo can double a
token, and a move lose one, only if one of these fails (`NoneLost`, `NoneTwice`). `Counters` says of
every place a token can be in, files, array, rows, undo slot and dialog, that its counter is not
behind the codes shown, but for the file of the open database while counters wait. It rests on
`Places`, since a code advances the counters of row and array only, which is enough when the token is
nowhere else (`Reaching`, `NoneAgain`).

**UnlockSessionProofs.** That a locked window holds nothing once no worker runs is not inductive,
because while one runs a database may be loaded under the lock. `LockKept` says that then a worker is
there whose answer is stale, and which will purge, or which has succeeded, and will open the lock.
`AskedFor` says that somebody asked for every call no lock overtook, `Owned` that a worker on `db_data`
has one. From them `Locked`, `Opens` and `Unlocks`.

**DbKeyProofs.** `Shaped` and `Typing` hold without a hypothesis. The others assume `CurrentOld`: nobody
puts a file back that is of version 1 or sealed with a cut password. That is the exception of
section 3 made precise, and without it they are false; files of these formats that are there at the start
are migrated under it all the same. The invariant says that a file no parameters were damaged of
opens with some password (`Sound`), that no salt is drawn twice (`Salts`), and that the parameters in
memory are the file's as long as the file is the one the digest knows (`Remembers`). The parameters
are taken over from a header before it is verified, so a cached key fits those of the digest and not
those in memory (`CachesSound`); only the digest comparison of the save makes the two meet. From it
`Reopens`, `Derived`, `HandleOpensFile` and `Admits`.

**DatabasesProofs.** `ListInv` says that rows and `db-list` are the same list once the program is up, and
that during a start, which writes the setting anew with every row, the rows and what is still to be
added are together what the user wants; and that the primary path is one of them, unless an end left
it torn or a callback is between its two settings (`NextStart`). An empty `db-path` beside listed rows
is there only inside such a callback, which is why a started program has a primary database again.
`SearchInv` says that a load without the window's cancellable is cancelled or marked `stray`, and under the
lock each one is (`Forgotten`).

**SearchProviderProofs.** A capability has not been used, is in the table under an id that no
other search gives, and stands for the token of the file at its position as long as it is fresh;
with `CacheFollowsFile`, which is inductive beside the types. From it `Follows`, and the action
properties `OneCode` and `CodeOfLabel`.

**ExchangeProofs.** The lemmas on operators come first: what each reader makes of a backup is a
sequence of entries, what `Pick` takes out of a sequence is a sequence with those elements in their
order (by counting positions, so that no induction is needed), and an import of valid tokens without twins has valid
tokens without twins. `ImportAgain` says of the same operators that importing a file a second time adds nothing,
whatever it holds and whatever was there. The invariant is that a copy that answers for the version of the file is a copy
of it, and that what a file or a memory holds validates (`Invariant`, `Typing`); `Kept` follows, because
each commit extends or advances such a copy. `Twinless` assumes that the databases at the start hold
no twins (`DistinctSeeds`), `OnePrint` that no two counters of theirs share a secret (`LoneSeeds`): a
user may have stored both, and the program would keep them. `Ledger` is the invariant behind
`OnePrint`: a secret has one counter, it is past every code computed with it, and a code waits for one
run to print it. The databases of `Exchange.cfg` satisfy both hypotheses.

`Returned` is `RoundTrip`, with no hypothesis. Its invariant, `Backed`, says that once something was exported
the backup is what an export made of valid tokens, to its end or cut off, for only exports write it.
The rest is about the formats, one at a time: for a valid token that the format can carry, the
entry the writer makes is known to the reader, and what it reads is named, valid and stored as
`Carried` says (`AegisReturns`, `TwofasReturns`, `AuthproReturns`, `UriReturns`). For
Authenticator Pro that needs the groups of the file to be those of the database (`GroupSame`,
`GroupKept`), for a URI that the label stands behind exactly one word of the path (`UriPath`).
From single entries to files: a filter that drops nothing is the identity (`PickAll`), one that drops
something still yields what it keeps (`PickOnto`), so the JSON readers give a token for every position
(`EntriesBack`) and the URI reader one for every line that it can carry (`UrisBack`); `ImportedKeeps`
and `ImportedWhole` do the same for the import. `ExportOpens` is the password, `CutReturns` the file
that was cut off.

**Only model-checked.** Liveness under fairness (`SaveEnds`, `UnlockEnds`, `WipedWhenIdle`) is out of the prover's reach.
The runs that expect a violation are TLC's too.

## 5. What is not modelled

- Cryptography: a password is right or wrong, a key opens what it sealed, bytes are unique.
- The bytes of the foreign formats: JSON, protobuf and Base32 are parsed by libraries, and the models
  start from the fields. The alphabet of a secret and the algorithm are constants or left out.
- The clipboard: copying, clearing after a time, and removal from Klipper's history, for the window
  and the search provider. It is desktop state that other programs write.
- The keyring: its answers are choices of `UnlockSession`, `Databases` and `SearchProvider`; storing
  and clearing an entry are single calls.
- Settings and their export and import: independent key-value pairs.
- QR codes, webcam, tray, drawing, and dialogs without a state of their own; the sizing of locked memory.
- In the window: the data of groups, adding a token by hand, the active mark and name of a sidebar row,
  which of its models the search filter shows. On the command line: `--list`, `--list-databases`,
  `--list-types` and the settings actions, which print or copy and change no database.

## 6. Plan

In this order; what is done is marked.

1. `DbStore` with `VersionedStore`, its runs and proofs (done, `BackedUp` and `EndsCommitted` included).
2. `UnlockSession`, its run, and proofs of its safety properties (done).
3. `TokenWindow`, its runs, and proofs of its safety properties (done); groups with the new-group
   dialog, adding tokens and quitting are left.
4. `DbKey`, its runs and proofs under `CurrentOld` (done).
5. `SearchProvider`, its run and proofs (done).
6. `OtpFormats` and `Exchange` with the lemmas on imports, `NoTwins`, `TokensKept` and `CodesOnce`
   (done); `RoundTrip`, format by format, and that a second import adds nothing (done).
7. `Databases`, its run and proofs (done).
8. Left besides: that `UnlockSession` implements the one step that `TokenWindow` makes of an unlock,
   and `TokenWindow`'s saves those of `DbStore`, are argued in section 2 and not stated as refinements.
