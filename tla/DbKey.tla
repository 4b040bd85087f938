------------------------------- MODULE DbKey -------------------------------
(***************************************************************************)
(* The key of the database file: which password, salt and Argon2           *)
(* parameters it is derived from, the cache that spares the derivation,    *)
(* and the operations that change it (src/common/db-common.c), for the     *)
(* handle of the window (src/gui) and for short-lived handles that the     *)
(* search provider seeds with the key it kept (src/search-provider).       *)
(*                                                                         *)
(* A key is the record of what it was derived from, a sealed file opens    *)
(* with exactly the key it was sealed with.  The lock file, the backups    *)
(* and what a save writes are in DbStore: here a save either succeeds or   *)
(* leaves the file alone, and a load is one step of its worker.            *)
(***************************************************************************)
EXTENDS Naturals

CONSTANTS
  Passwords,
  NonAscii,     \* those whose length in characters is not their length in bytes
  Params,       \* the Argon2 parameters decrypt_db and db_update_kdf_params accept
  Default,      \* ARGON2ID_DEFAULT_*
  OutOfRange,   \* parameters they refuse
  Old,          \* the formats [ver, cut] of a file somebody puts back
  Initial,      \* the formats the file may have at first
  MaxSalt       \* bound: salts drawn

ASSUME ParamsAssumption == Default \in Params /\ OutOfRange \notin Params
ASSUME PasswordsAssumption == NonAscii \subseteq Passwords
\* Version 1 always cut the password, version 3 never did.
Formats == {fmt \in [ver : 1..3, cut : BOOLEAN] : (fmt.ver = 1 => fmt.cut) /\ (fmt.ver = 3 => ~fmt.cut)}
ASSUME FormatsAssumption == Old \cup Initial \subseteq Formats
ASSUME SaltAssumption == MaxSalt \in Nat \ {0}

None == "none"
ASSUME NoneAssumption == None \notin Passwords \cup Params \cup {OutOfRange}

VARIABLES
  file,      \* the database on disk
  salts,     \* salts drawn so far, by anybody
  db,        \* db_data of the window
  phase,     \* of the unlock: the worker runs, or its result waits for on_unlock_done
  locked,    \* app_locked
  fresh,     \* does lock_generation still have the value the unlock started with?
  kept       \* the search provider's g_kdf_cache entry for the file

vars == <<file, salts, db, phase, locked, fresh, kept>>

-----------------------------------------------------------------------------
(* Keys and files.                                                         *)

\* gcry_kdf_*: a password cut to its length in characters differs from the whole
\* one only if it is not ASCII.
Derive(pwd, cut, salt, par) ==
  [pwd |-> pwd, cut |-> cut /\ pwd \in NonAscii, salt |-> salt, par |-> par]

\* A file holds "all" its user stored in it, or less.
NoKey == [pwd |-> None, cut |-> FALSE, salt |-> 0, par |-> None]
NoFile == [ver |-> 0, salt |-> 0, par |-> None, key |-> NoKey, holds |-> "all"]
File(ver, cut, pwd, salt, par) ==
  [ver |-> ver, salt |-> salt, par |-> IF ver = 1 THEN None ELSE par,
   key |-> Derive(pwd, cut, salt, IF ver = 1 THEN None ELSE par), holds |-> "all"]

NoCache == [salt |-> 0, pwd |-> None, key |-> NoKey]
NoDb == [open |-> FALSE, key |-> None, par |-> None, mem |-> None,
         cache |-> NoCache, digest |-> NoFile, legacy |-> FALSE]

\* database_data_new, with a key.
Handle(pwd) == [NoDb EXCEPT !.open = TRUE, !.key = pwd]

\* Mutant: any password hits the cached key of the salt.
DerivedKeyBySalt(h, salt, cut) ==
  IF ~cut /\ h.cache # NoCache /\ h.cache.salt = salt
  THEN h.cache.key
  ELSE Derive(h.key, cut, salt, h.par)

\* get_db_derived_key for Argon2.
DerivedKey(h, salt, cut) ==
  IF ~cut /\ h.cache # NoCache /\ h.cache.salt = salt /\ h.cache.pwd = h.key
  THEN h.cache.key
  ELSE Derive(h.key, cut, salt, h.par)

\* The end of try_decrypt_v2 and try_decrypt_v3: cached once the tag has verified.
Cached(h, salt, key) ==
  [h EXCEPT !.cache = [salt |-> salt, pwd |-> h.key, key |-> key]]

Result(h, what) == [h |-> h, what |-> what]

DecryptV3(h, f) ==
  IF DerivedKey(h, f.salt, FALSE) = f.key
  THEN Result(Cached(h, f.salt, f.key), "ok")
  ELSE Result(h, "bad_tag")

\* A second try with the length older versions used; it is not cached.
DecryptV2(h, f) ==
  CASE DerivedKey(h, f.salt, FALSE) = f.key -> Result(Cached(h, f.salt, f.key), "ok")
    [] /\ DerivedKey(h, f.salt, FALSE) # f.key
       /\ h.key \in NonAscii
       /\ DerivedKey(h, f.salt, TRUE) = f.key -> Result([h EXCEPT !.legacy = TRUE], "ok")
    [] OTHER -> Result(h, "bad_tag")

DecryptV1(h, f) ==
  Result(h, IF Derive(h.key, TRUE, f.salt, None) = f.key THEN "ok" ELSE "bad_tag")

\* Mutant: the defaults of version 1 are forgotten.
WithHeaderAlways(h, f) == [h EXCEPT !.par = f.par]

\* The parameters of the header go to db_data before anything is verified.
WithHeader(h, f) == [h EXCEPT !.par = IF f.ver = 1 THEN Default ELSE f.par]

\* decrypt_db.
Decrypt(h, f) ==
  LET g == WithHeader(h, f)
      r == CASE f.ver = 1 -> DecryptV1(g, f)
             [] f.ver = 2 /\ g.par \in Params -> DecryptV2(g, f)
             [] f.ver = 3 /\ g.par \in Params -> DecryptV3(g, f)
             [] OTHER -> Result(IF f.ver = 0 THEN h ELSE g, "other")
  IN  IF r.what = "ok" THEN Result([r.h EXCEPT !.digest = f, !.mem = f.holds], "ok") ELSE r

-----------------------------------------------------------------------------
(* Saving.                                                                 *)

SaltFor(h) == IF h.cache # NoCache THEN h.cache.salt ELSE salts + 1

\* encrypt_db: the file it writes.
Sealed(h, holds) ==
  [ver |-> 3, salt |-> SaltFor(h), par |-> h.par,
   key |-> DerivedKey(h, SaltFor(h), FALSE), holds |-> holds]

\* What encrypt_db leaves in db_data when the file is f.
AfterSeal(h, f) == [Cached(h, f.salt, f.key) EXCEPT !.digest = f, !.mem = f.holds, !.legacy = FALSE]

\* loaded_file_digest_matches, asked only if a digest was ever recorded.
MayReplace(h) == file = NoFile \/ h.digest = NoFile \/ h.digest = file

\* update_db with nothing in memory takes the database for a new one.
FirstRun(h) == IF h.mem = None THEN [h EXCEPT !.par = Default] ELSE h
Content(h) ==
  IF h.mem # None THEN h.mem ELSE IF file = NoFile THEN "all" ELSE "less"

Drawn(h) == salts' = IF h.cache = NoCache THEN salts + 1 ELSE salts
CanDraw(h) == h.cache = NoCache => salts < MaxSalt

\* update_db by h fails, or replaces the file.
SaveFails(h) == FirstRun(h)
Saves(h) ==
  /\ MayReplace(h)
  /\ CanDraw(h)
  /\ Drawn(h)
  /\ file' = Sealed(FirstRun(h), Content(h))

\* load_db: an old format is migrated at once, which may fail.
Migrates(r) == r.what = "ok" /\ (file.ver < 3 \/ r.h.legacy)

-----------------------------------------------------------------------------
(* The window.                                                             *)

\* Mutant: the KDF cache outlives a wrong password.
BadTagKeepsCache(h) == [h EXCEPT !.key = None]

\* on_unlock_done after a tag that does not match.
BadTag(h) == [h EXCEPT !.cache = NoCache, !.key = None]

\* database_data_purge_secrets.
PurgeSecrets(h) == [NoDb EXCEPT !.open = h.open, !.par = h.par]

\* on_password_received; one worker at a time (UnlockSession has several).
Submit(pwd) ==
  /\ db.open /\ phase = "idle"
  /\ db' = [db EXCEPT !.key = pwd]
  /\ phase' = "running"
  /\ fresh' = TRUE
  /\ UNCHANGED <<file, salts, locked, kept>>

\* unlock_db_thread.
Load ==
  /\ phase = "running"
  /\ LET r == Decrypt(db, file) IN
       \/ /\ ~Migrates(r)
          /\ db' = r.h
          /\ phase' = r.what
          /\ UNCHANGED <<file, salts>>
       \/ /\ Migrates(r)
          /\ Saves(r.h)
          /\ db' = AfterSeal(r.h, file')
          /\ phase' = "ok"
       \/ /\ Migrates(r)
          /\ db' = r.h
          /\ phase' = "other"
          /\ UNCHANGED <<file, salts>>
  /\ UNCHANGED <<locked, fresh, kept>>

\* on_unlock_done.
Done ==
  /\ phase \in {"ok", "bad_tag", "other"}
  /\ phase' = "idle"
  /\ \/ ~fresh /\ db' = PurgeSecrets(db) /\ UNCHANGED locked
     \/ fresh /\ phase = "ok" /\ locked' = FALSE /\ UNCHANGED db
     \/ fresh /\ phase = "bad_tag" /\ db' = BadTag(db) /\ UNCHANGED locked
     \/ fresh /\ phase = "other" /\ db' = NoDb /\ UNCHANGED locked
  /\ UNCHANGED <<file, salts, fresh, kept>>

\* lock_app_enter_locked_state, after its flush of pending counters (a Save).
Lock ==
  /\ ~locked \/ phase # "idle"
  /\ locked' = TRUE
  /\ fresh' = FALSE
  /\ db' = IF phase = "idle" THEN PurgeSecrets(db) ELSE db
  /\ UNCHANGED <<file, salts, phase, kept>>

\* A database is selected in the sidebar; the program ends and is started again.
Reopen ==
  /\ phase = "idle"
  /\ db # Handle(None)
  /\ db' = Handle(None)
  /\ UNCHANGED <<file, salts, phase, locked, fresh, kept>>

Restart ==
  /\ db' = Handle(None) /\ phase' = "idle" /\ locked' = FALSE /\ fresh' = TRUE
  /\ UNCHANGED <<file, salts, kept>>

\* New Database; the file is loaded again after it was written.
Create(pwd) ==
  /\ phase = "idle" /\ file = NoFile
  /\ LET h == [Handle(pwd) EXCEPT !.par = Default] IN
       /\ Saves(h)
       /\ db' = AfterSeal(h, file')
  /\ UNCHANGED <<phase, locked, fresh, kept>>

\* Any change of the tokens, and the flush of pending counters.
Save ==
  /\ db.mem # None /\ db.key # None /\ ~locked
  /\ Saves(db)
  /\ db' = AfterSeal(FirstRun(db), file')
  /\ UNCHANGED <<phase, locked, fresh, kept>>

\* db_change_password takes the old key back after a failed save.
KeyBack(h, old) == [h EXCEPT !.key = old, !.cache = NoCache]

\* db_change_password.
NewKey(h, pwd) == [h EXCEPT !.key = pwd, !.cache = NoCache]

\* on_change_password_received: the current password is asked for.
ChangePassword(pwd) ==
  /\ db.open /\ ~locked /\ db.key # None
  /\ LET h == NewKey(db, pwd) IN
       \/ /\ Saves(h)
          /\ db' = AfterSeal(FirstRun(h), file')
       \/ /\ db' = KeyBack(SaveFails(h), db.key)
          /\ UNCHANGED <<file, salts>>
  /\ UNCHANGED <<phase, locked, fresh, kept>>

\* Mutant: db_update_kdf_params goes without db_invalidate_kdf_cache.
NewParamsOnly(h, par) == [h EXCEPT !.par = par]

\* db_update_kdf_params.
NewParams(h, par) == [h EXCEPT !.par = par, !.cache = NoCache]

\* Mutant: the parameters are not put back.
ParamsStay(h, old) == [h EXCEPT !.cache = NoCache]

ParamsBack(h, old) == [h EXCEPT !.par = old, !.cache = NoCache]

\* on_apply_clicked of the KDF dialog.
UpdateKdf(par) ==
  /\ db.open /\ ~locked /\ db.key # None
  /\ LET h == NewParams(db, par) IN
       \/ /\ Saves(h)
          /\ db' = AfterSeal(FirstRun(h), file')
       \/ /\ db' = ParamsBack(SaveFails(h), db.par)
          /\ UNCHANGED <<file, salts>>
  /\ UNCHANGED <<phase, locked, fresh, kept>>

-----------------------------------------------------------------------------
(* Everybody else.                                                         *)

\* kdf_cache_apply_to_db_data.
Seeded(pwd) == [Handle(pwd) EXCEPT !.cache = kept]

\* The search provider loads the file with a password of the keyring, seeded with
\* the key it kept, and keeps the key of a load that succeeded; without a key kept
\* this is also the command line.
ProviderLoad(pwd) ==
  /\ LET r == Decrypt(Seeded(pwd), file) IN
       \/ /\ r.what = "ok" /\ ~Migrates(r)
          /\ kept' = r.h.cache
          /\ UNCHANGED <<file, salts>>
       \/ /\ Migrates(r)
          /\ Saves(r.h)
          /\ kept' = AfterSeal(r.h, file').cache
  /\ UNCHANGED <<db, phase, locked, fresh>>

\* on_db_file_changed, and idle_wipe_check.
ProviderForgets ==
  /\ kept' = NoCache
  /\ UNCHANGED <<file, salts, db, phase, locked, fresh>>

\* Another machine changes the database, an old copy is put back, though never the
\* very bytes the window has read; the header may be damaged.
PutBack(fmt, pwd, par) ==
  /\ salts < MaxSalt
  /\ salts' = salts + 1
  /\ file' = File(fmt.ver, fmt.cut, pwd, salts + 1, par)
  /\ UNCHANGED <<db, phase, locked, fresh, kept>>

Damage ==
  /\ file.ver \in {2, 3}
  /\ file' = [file EXCEPT !.par = OutOfRange]
  /\ UNCHANGED <<salts, db, phase, locked, fresh, kept>>

Init ==
  /\ salts = 1
  /\ file \in {NoFile} \cup {File(fmt.ver, fmt.cut, pwd, 1, par) :
                               fmt \in Initial, pwd \in Passwords, par \in Params}
  /\ db = Handle(None) /\ phase = "idle" /\ locked = FALSE /\ fresh = TRUE
  /\ kept = NoCache

Next ==
  \/ \E pwd \in Passwords : Submit(pwd) \/ Create(pwd) \/ ChangePassword(pwd) \/ ProviderLoad(pwd)
  \/ Load \/ Done \/ Lock \/ Reopen \/ Restart \/ Save
  \/ \E par \in Params : UpdateKdf(par)
  \/ ProviderForgets \/ Damage
  \/ \E fmt \in Old, pwd \in Passwords, par \in Params : PutBack(fmt, pwd, par)

Spec == Init /\ [][Next]_vars

-----------------------------------------------------------------------------
(* Properties.                                                             *)

Keys == [pwd : Passwords \cup {None}, cut : BOOLEAN, salt : 0..MaxSalt, par : Params \cup {None, OutOfRange}]
Files == [ver : 0..3, salt : 0..MaxSalt, par : Params \cup {None, OutOfRange}, key : Keys,
          holds : {"all", "less"}]
Caches == [salt : 0..MaxSalt, pwd : Passwords \cup {None}, key : Keys]
Handles == [open : BOOLEAN, key : Passwords \cup {None}, par : Params \cup {None, OutOfRange},
            mem : {None, "all", "less"}, cache : Caches, digest : Files, legacy : BOOLEAN]

TypeOK ==
  /\ file \in Files
  /\ salts \in 1..MaxSalt
  /\ db \in Handles
  /\ phase \in {"idle", "running", "ok", "bad_tag", "other"}
  /\ locked \in BOOLEAN /\ fresh \in BOOLEAN
  /\ kept \in Caches
  /\ phase = "idle" /\ db.mem # None => db.par \in Params

\* Would a handle without any cache open the file with the password?
Opens(f, pwd) ==
  CASE f.ver = 0 -> FALSE
    [] f.ver = 1 -> f.key = Derive(pwd, TRUE, f.salt, None)
    [] f.ver = 2 -> \E cut \in BOOLEAN : f.key = Derive(pwd, cut, f.salt, f.par)
    [] f.ver = 3 -> f.key = Derive(pwd, FALSE, f.salt, f.par)

\* A file that is there and was not damaged opens with some password: its key can
\* be derived again from its own header.  The key it is sealed with may come from
\* a cache, the parameters beside it from db_data (encrypt_db).
FileOpens ==
  file # NoFile /\ file.par # OutOfRange => \E pwd \in Passwords : Opens(file, pwd)

\* Between two unlocks the cached key is the one the handle would derive: the
\* parameters in db_data have not moved on without it (get_db_derived_key's
\* "KDF params haven't changed").
CacheIsDerived ==
  phase = "idle" /\ db.cache # NoCache =>
    db.cache.key = Derive(db.cache.pwd, FALSE, db.cache.salt, db.par)

\* The password and the parameters a handle holds are those of the file it has
\* loaded or saved, whatever change of either failed in between.
KeyOpensFile ==
  phase = "idle" /\ db.mem # None /\ db.key # None /\ file # NoFile /\ db.digest = file =>
    Opens(file, db.key) /\ db.par = file.par

\* A load succeeds only with a password of the file, cached key or not.
LoadsOnlyWithPassword == [][phase = "running" /\ phase' = "ok" => Opens(file, db.key)]_vars

\* Violated: no save takes stored tokens away.
NothingEmptied == file.holds = "all"
=============================================================================
