------------------------------ MODULE DbStore ------------------------------
(***************************************************************************)
(* The encrypted database file and the handles on it: load_db, update_db,  *)
(* db_transaction and the helpers they call (src/common/db-common.c).      *)
(*                                                                         *)
(* A handle is one DatabaseData: the GUI's, a CLI process's, the target of *)
(* a "move token".  Handles live in different processes or in different    *)
(* callbacks of one process and share nothing but the file, its .bak copy  *)
(* and its .lock file.  The bytes of a database are abstracted to how many *)
(* times each token is in the array they hold; every write uses a fresh    *)
(* random IV, so two writes never have the same bytes and a file digest is *)
(* the number of a version.  The arrays in memory that hold only tokens    *)
(* which validate are sets: no such token is twice in a database.  Keys    *)
(* and parameters are left out: every handle has the password.             *)
(***************************************************************************)
EXTENDS Naturals, Integers, Sequences, FiniteSets

CONSTANTS
  Handles,      \* the DatabaseData structures of all processes
  Tokens,       \* the tokens a database may hold
  Invalid,      \* those that otp_validate_token_object refuses
  Seeds,        \* what a database found at start may hold
  MaxVersions   \* bound: the disk is full after this many writes

ASSUME InvalidAssumption == Invalid \subseteq Tokens
ASSUME SeedsAssumption ==
  Seeds \subseteq [Tokens -> Nat] /\ \A s \in Seeds, t \in Tokens \ Invalid : s[t] <= 1
ASSUME MaxVersionsAssumption == MaxVersions \in Nat \ {0}

VARIABLES
  flock,        \* does the filesystem implement flock()?
  log,          \* every version ever renamed into place; the last is the file
  bak,          \* the version .bak holds, 0 when there is none
  holders,      \* the handles that hold the .lock file
  pc,           \* where each handle is in the code
  op,           \* the call it is making
  live,         \* in_memory_json_data
  committed,    \* committed_json_data
  quarantined,  \* quarantined_tokens: how many of each
  candidate,    \* the local `candidate` of update_db and db_transaction
  digest,       \* loaded_file_digest, NoDigest while !has_loaded_file_digest
  copied,       \* the version an unfinished .bak copy has read
  probed        \* current_db_version as get_db_version read it

\* Two variables record history and are read by no guard: the version each
\* handle's tokens come from, and whether another handle wrote the file after
\* this handle's own write and before this handle recorded its digest.
VARIABLES base, overtaken

memory == <<live, committed, quarantined, candidate>>
ghosts == <<base, overtaken>>
disk == <<log, bak>>
vars == <<flock, disk, holders, pc, op, memory, digest, copied, probed, ghosts>>

NoDigest == -1

\* The file as it is now; 0 when it does not exist.
File == Len(log)
Valid == Tokens \ Invalid

\* An array of tokens: how many times each is in it.
Copies == [Tokens -> Nat]
Nothing == [t \in Tokens |-> 0]

\* otp_extract_invalid_tokens moves every element that does not validate to the array
\* of those set aside, and leaves the others.
Accepted(c) == {t \in Valid : c[t] > 0}
SetAside(c) == [t \in Tokens |-> IF t \in Invalid THEN c[t] ELSE 0]

\* The elements of c appended one by one to an array that holds S.
Merge(S, c) == [t \in Tokens |-> c[t] + (IF t \in S THEN 1 ELSE 0)]

Version == [toks : Copies, fmt : {2, 3}, base : Nat, blind : BOOLEAN]

\* Inside lock_db .. unlock_db.
Critical == {"locked", "checked", "backed", "renamed"}
\* After the rename and before compute_file_digest.
Window == {"renamed", "unlocked"}
Saving == Critical \cup {"locking", "unlocked", "recorded", "trailing"}
Points == Saving \cup {"closed", "opening", "idle", "reopening"}

Goto(h, p) == pc' = [pc EXCEPT ![h] = p]

\* Mutant of TakeFile: the array of the tokens set aside is not begun anew.
TakeFileOnTop(h) ==
  /\ File > 0
  /\ live' = [live EXCEPT ![h] = Accepted(log[File].toks)]
  /\ quarantined' =
       [quarantined EXCEPT ![h] = [t \in Tokens |-> @[t] + SetAside(log[File].toks)[t]]]
  /\ digest' = [digest EXCEPT ![h] = File]
  /\ base' = [base EXCEPT ![h] = File]
  /\ overtaken' = [overtaken EXCEPT ![h] = FALSE]

\* partition_valid_tokens on what decrypt_db read, and the digest of those bytes.  A
\* handle that was migrated or has created the file loads it over what it set aside
\* before.
TakeFile(h) ==
  /\ File > 0
  /\ live' = [live EXCEPT ![h] = Accepted(log[File].toks)]
  /\ quarantined' = [quarantined EXCEPT ![h] = SetAside(log[File].toks)]
  /\ digest' = [digest EXCEPT ![h] = File]
  /\ base' = [base EXCEPT ![h] = File]
  /\ overtaken' = [overtaken EXCEPT ![h] = FALSE]

\* Mutant of Discard: has_loaded_file_digest survives a purge.
DiscardKeepsDigest(h) ==
  /\ Goto(h, "closed")
  /\ op' = [op EXCEPT ![h] = "none"]
  /\ holders' = holders \ {h}
  /\ live' = [live EXCEPT ![h] = {}]
  /\ committed' = [committed EXCEPT ![h] = {}]
  /\ quarantined' = [quarantined EXCEPT ![h] = Nothing]
  /\ candidate' = [candidate EXCEPT ![h] = {}]
  /\ copied' = [copied EXCEPT ![h] = 0]
  /\ probed' = [probed EXCEPT ![h] = 0]
  /\ base' = [base EXCEPT ![h] = 0]
  /\ overtaken' = [overtaken EXCEPT ![h] = FALSE]
  /\ UNCHANGED <<flock, disk, digest>>

\* database_data_free / database_data_purge_secrets, or the end of the process:
\* the kernel drops its flock.
Discard(h) ==
  /\ Goto(h, "closed")
  /\ op' = [op EXCEPT ![h] = "none"]
  /\ holders' = holders \ {h}
  /\ live' = [live EXCEPT ![h] = {}]
  /\ committed' = [committed EXCEPT ![h] = {}]
  /\ quarantined' = [quarantined EXCEPT ![h] = Nothing]
  /\ candidate' = [candidate EXCEPT ![h] = {}]
  /\ digest' = [digest EXCEPT ![h] = NoDigest]
  /\ copied' = [copied EXCEPT ![h] = 0]
  /\ probed' = [probed EXCEPT ![h] = 0]
  /\ base' = [base EXCEPT ![h] = 0]
  /\ overtaken' = [overtaken EXCEPT ![h] = FALSE]
  /\ UNCHANGED <<flock, disk>>

-----------------------------------------------------------------------------
(* Loading.  No lock is taken; the version and the content are two opens.  *)

OpenVersion(h) ==
  /\ pc[h] = "closed"
  /\ File > 0
  /\ probed' = [probed EXCEPT ![h] = log[File].fmt]
  /\ Goto(h, "opening")
  /\ UNCHANGED <<flock, disk, holders, op, memory, digest, copied, ghosts>>

\* decrypt_db parses with the version probed before: a file upgraded in between
\* does not authenticate.  A current file is loaded; an older one is migrated.
OpenCurrent(h) ==
  /\ pc[h] = "opening"
  /\ probed[h] = log[File].fmt
  /\ probed[h] = 3
  /\ TakeFile(h)
  /\ committed' = [committed EXCEPT ![h] = live'[h]]
  /\ Goto(h, "idle")
  /\ probed' = [probed EXCEPT ![h] = 0]
  /\ UNCHANGED <<flock, disk, holders, op, candidate, copied>>

OpenLegacy(h) ==
  /\ pc[h] = "opening"
  /\ probed[h] = log[File].fmt
  /\ probed[h] = 2
  /\ TakeFile(h)
  /\ candidate' = [candidate EXCEPT ![h] = live'[h]]
  /\ op' = [op EXCEPT ![h] = "migrate"]
  /\ Goto(h, "locking")
  /\ probed' = [probed EXCEPT ![h] = 0]
  /\ UNCHANGED <<flock, disk, holders, committed, copied>>

OpenFails(h) == pc[h] = "opening" /\ Discard(h)

\* The second decrypt of load_db, after a migration, and the load_db that the
\* "new database" dialog runs after update_db created the file.
Reopen(h) ==
  /\ pc[h] = "reopening"
  /\ TakeFile(h)
  /\ committed' = [committed EXCEPT ![h] = live'[h]]
  /\ Goto(h, "idle")
  /\ op' = [op EXCEPT ![h] = "none"]
  /\ UNCHANGED <<flock, disk, holders, candidate, copied, probed>>

\* A failed migration drops the handle; a created one is kept as it is.
ReopenFails(h) ==
  /\ pc[h] = "reopening"
  /\ \/ op[h] = "migrate" /\ Discard(h)
     \/ /\ op[h] = "create"
        /\ Goto(h, "idle")
        /\ op' = [op EXCEPT ![h] = "none"]
        /\ UNCHANGED <<flock, disk, holders, memory, digest, copied, probed, ghosts>>

-----------------------------------------------------------------------------
(* Starting a save.                                                        *)

\* The window edits in_memory_json_data in place: counter, group, order, delete.
Edit(h, t) ==
  /\ pc[h] = "idle"
  /\ t \in Valid
  /\ \E new \in {live[h] \cup {t}, live[h] \ {t}} : live' = [live EXCEPT ![h] = new]
  /\ UNCHANGED <<flock, disk, holders, pc, op, committed, quarantined, candidate,
                 digest, copied, probed, ghosts>>

\* update_db: the candidate is the live set.
Update(h) ==
  /\ pc[h] = "idle"
  /\ candidate' = [candidate EXCEPT ![h] = live[h]]
  /\ op' = [op EXCEPT ![h] = "update"]
  /\ Goto(h, "locking")
  /\ UNCHANGED <<flock, disk, holders, live, committed, quarantined, digest, copied,
                 probed, ghosts>>

\* An edit that does not validate and the update_db of the same callback, which
\* refuses it: the live set, earlier edits included, goes back to the snapshot.
EditRefused(h) ==
  /\ pc[h] = "idle"
  /\ Invalid # {}
  /\ live' = [live EXCEPT ![h] = committed[h]]
  /\ UNCHANGED <<flock, disk, holders, pc, op, committed, quarantined, candidate,
                 digest, copied, probed, ghosts>>

\* db_transaction: a mutation of a copy; one that does not validate changes nothing
\* and is not a step.
Transaction(h, t) ==
  /\ pc[h] = "idle"
  /\ \E new \in {live[h] \cup {t}, live[h] \ {t}} :
       /\ new \cap Invalid = {}
       /\ candidate' = [candidate EXCEPT ![h] = new]
  /\ op' = [op EXCEPT ![h] = "transaction"]
  /\ Goto(h, "locking")
  /\ UNCHANGED <<flock, disk, holders, live, committed, quarantined, digest, copied,
                 probed, ghosts>>

\* update_db on a handle that was never loaded (in_memory_json_data == NULL).
Create(h) ==
  /\ pc[h] = "closed"
  /\ op' = [op EXCEPT ![h] = "create"]
  /\ Goto(h, "locking")
  /\ UNCHANGED <<flock, disk, holders, memory, digest, copied, probed, ghosts>>

-----------------------------------------------------------------------------
(* A save, from lock_db to the trailing backup.                            *)

\* Mutant of Abort: update_db does not restore the live set.
AbortWithoutRestore(h) ==
  \/ op[h] \in {"create", "migrate"} /\ Discard(h)
  \/ /\ op[h] \in {"update", "transaction"}
     /\ candidate' = [candidate EXCEPT ![h] = {}]
     /\ holders' = holders \ {h}
     /\ op' = [op EXCEPT ![h] = "none"]
     /\ Goto(h, "idle")
     /\ UNCHANGED <<flock, disk, live, committed, quarantined, digest, copied, probed,
                    ghosts>>

\* Every failure before the commit: unlock; update_db restores the live set
\* from the snapshot, db_transaction leaves it; a created or a migrating handle
\* (nothing committed to restore) is freed by the caller.
Abort(h) ==
  \/ op[h] \in {"create", "migrate"} /\ Discard(h)
  \/ /\ op[h] \in {"update", "transaction"}
     /\ live' = IF op[h] = "update" THEN [live EXCEPT ![h] = committed[h]] ELSE live
     /\ candidate' = [candidate EXCEPT ![h] = {}]
     /\ holders' = holders \ {h}
     /\ op' = [op EXCEPT ![h] = "none"]
     /\ Goto(h, "idle")
     /\ UNCHANGED <<flock, disk, committed, quarantined, digest, copied, probed, ghosts>>

\* Where flock() answers ENOSYS the save goes on without the lock.
Lock(h) ==
  /\ pc[h] = "locking"
  /\ flock => holders = {}
  /\ holders' = IF flock THEN {h} ELSE holders
  /\ Goto(h, "locked")
  /\ UNCHANGED <<flock, disk, op, memory, digest, copied, probed, ghosts>>

\* Mutants of LockTimesOut: after the deadline go on without the lock; no deadline.
LockTimesOutGoesOn(h) ==
  /\ pc[h] = "locking"
  /\ flock /\ holders # {}
  /\ Goto(h, "locked")
  /\ UNCHANGED <<flock, disk, holders, op, memory, digest, copied, probed, ghosts>>

LockNeverTimesOut(h) == pc[h] = "locking" /\ flock /\ FALSE /\ Abort(h)

\* "Database is busy": two seconds of retries went by with the lock held.
LockTimesOut(h) ==
  /\ pc[h] = "locking"
  /\ flock /\ holders # {}
  /\ Abort(h)

LockFails(h) == pc[h] = "locking" /\ Abort(h)

\* Mutant of Unchanged: the digest is not compared.
NotCompared(h) == digest[h] \in -1..File

\* loaded_file_digest_matches, for a handle that has a digest.
Unchanged(h) == digest[h] \in {NoDigest, File}

Check(h) ==
  /\ pc[h] = "locked"
  /\ \/ File = 0 /\ Goto(h, "backed")
     \/ File > 0 /\ Unchanged(h) /\ Goto(h, "checked")
  /\ UNCHANGED <<flock, disk, holders, op, memory, digest, copied, probed, ghosts>>

CheckRefuses(h) ==
  /\ pc[h] = "locked"
  /\ File > 0
  /\ ~Unchanged(h)
  /\ Abort(h)

\* compute_file_digest could not read the file.
CheckFails(h) ==
  /\ pc[h] = "locked"
  /\ File > 0
  /\ digest[h] # NoDigest
  /\ Abort(h)

\* backup_db before the write: .bak is replaced as a whole by a copy of the file.
Backup(h) ==
  /\ pc[h] = "checked"
  /\ bak' = File
  /\ Goto(h, "backed")
  /\ UNCHANGED <<flock, log, holders, op, memory, digest, copied, probed, ghosts>>

\* Mutant of BackupFails: the error of the first backup is ignored too.
BackupFailsIgnored(h) ==
  /\ pc[h] = "checked"
  /\ Goto(h, "backed")
  /\ UNCHANGED <<flock, disk, holders, op, memory, digest, copied, probed, ghosts>>

\* A .bak that was replaced and cannot be made private fails the save as well; that is
\* Backup and then CommitFails.
BackupFails(h) == pc[h] = "checked" /\ Abort(h)

\* Mutant of Written: encrypt_db serialises the live tokens alone.
WrittenWithoutMerge(h) ==
  [toks |-> Merge(candidate[h], Nothing), fmt |-> 3, base |-> base[h],
   blind |-> digest[h] = NoDigest \/ overtaken[h]]

\* encrypt_db appends the tokens set aside at load and atomic_write_database
\* renames the temporary file over the database.
Written(h) ==
  [toks |-> Merge(candidate[h], quarantined[h]), fmt |-> 3, base |-> base[h],
   blind |-> digest[h] = NoDigest \/ overtaken[h]]

Commit(h) ==
  /\ pc[h] = "backed"
  /\ File < MaxVersions
  /\ log' = Append(log, Written(h))
  /\ base' = [base EXCEPT ![h] = File + 1]
  /\ overtaken' = [g \in Handles |-> g # h /\ (overtaken[g] \/ pc[g] \in Window)]
  /\ Goto(h, "renamed")
  /\ UNCHANGED <<flock, bak, holders, op, memory, digest, copied, probed>>

\* Mutant of CommitFails: a failed write is taken for done.
CommitFailsUnnoticed(h) ==
  /\ pc[h] = "backed"
  /\ base' = [base EXCEPT ![h] = File + 1]
  /\ Goto(h, "renamed")
  /\ UNCHANGED <<flock, disk, holders, op, memory, digest, copied, probed, overtaken>>

\* Key derivation, encryption or a write to the temporary file failed.
CommitFails(h) == pc[h] = "backed" /\ Abort(h)

\* Mutant of Unlock: refresh_committed_snapshot is forgotten.
UnlockWithoutRefresh(h) ==
  /\ pc[h] = "renamed"
  /\ holders' = holders \ {h}
  /\ live' = [live EXCEPT ![h] = candidate[h]]
  /\ candidate' = [candidate EXCEPT ![h] = {}]
  /\ Goto(h, "unlocked")
  /\ UNCHANGED <<flock, disk, op, committed, quarantined, digest, copied, probed, ghosts>>

\* unlock_db, then the candidate becomes the live set and the snapshot.
Unlock(h) ==
  /\ pc[h] = "renamed"
  /\ holders' = holders \ {h}
  /\ live' = [live EXCEPT ![h] = candidate[h]]
  /\ committed' = [committed EXCEPT ![h] = candidate[h]]
  /\ candidate' = [candidate EXCEPT ![h] = {}]
  /\ Goto(h, "unlocked")
  /\ UNCHANGED <<flock, disk, op, quarantined, digest, copied, probed, ghosts>>

\* compute_file_digest hashes whatever the path names now, without the lock.
RecordDigest(h) ==
  /\ pc[h] = "unlocked"
  /\ digest' = [digest EXCEPT ![h] = File]
  /\ Goto(h, "recorded")
  /\ UNCHANGED <<flock, disk, holders, op, memory, copied, probed, ghosts>>

\* Its error is ignored: the buffer keeps the old digest (or the zeros of a new
\* handle, which no file matches) and has_loaded_file_digest is set.
RecordDigestFails(h) ==
  /\ pc[h] = "unlocked"
  /\ digest' = [digest EXCEPT ![h] = IF @ = NoDigest THEN 0 ELSE @]
  /\ Goto(h, "recorded")
  /\ UNCHANGED <<flock, disk, holders, op, memory, copied, probed, ghosts>>

\* What follows update_db or db_transaction in the caller: load_db decrypts
\* again after a migration, and the GUI loads what it created.
Return(h) ==
  \/ /\ op[h] \in {"migrate", "create"}
     /\ Goto(h, "reopening")
     /\ UNCHANGED op
  \/ /\ op[h] # "migrate"
     /\ Goto(h, "idle")
     /\ op' = [op EXCEPT ![h] = "none"]

\* The second backup_db runs without the lock and its error is ignored.  The copy
\* reads the file it opened and replaces .bak when it is done.
TrailingOpen(h) ==
  /\ pc[h] = "recorded"
  /\ copied' = [copied EXCEPT ![h] = File]
  /\ Goto(h, "trailing")
  /\ UNCHANGED <<flock, disk, holders, op, memory, digest, probed, ghosts>>

TrailingReplace(h) ==
  /\ pc[h] = "trailing"
  /\ bak' = copied[h]
  /\ copied' = [copied EXCEPT ![h] = 0]
  /\ Return(h)
  /\ UNCHANGED <<flock, log, holders, memory, digest, probed, ghosts>>

TrailingFails(h) ==
  /\ pc[h] = "recorded"
  /\ Return(h)
  /\ UNCHANGED <<flock, disk, holders, memory, digest, copied, probed, ghosts>>

-----------------------------------------------------------------------------
\* The lock screen purges an idle handle; the process may end at any point.
Close(h) == pc[h] = "idle" /\ Discard(h)
Crash(h) == pc[h] \notin {"closed", "idle"} /\ Discard(h)

Load(h) == OpenVersion(h) \/ OpenCurrent(h) \/ OpenLegacy(h) \/ OpenFails(h)
Begin(h) == \/ Update(h) \/ EditRefused(h) \/ Create(h)
            \/ \E t \in Tokens : Edit(h, t) \/ Transaction(h, t)

\* The steps a running save takes by itself.
Progress(h) ==
  \/ Lock(h) \/ LockTimesOut(h) \/ Check(h) \/ CheckRefuses(h)
  \/ Backup(h)
  \/ Commit(h) \/ (File >= MaxVersions /\ CommitFails(h))
  \/ Unlock(h) \/ RecordDigest(h) \/ TrailingOpen(h) \/ TrailingReplace(h)

\* Errors of the system calls a save makes.
Fault(h) ==
  \/ LockFails(h) \/ CheckFails(h) \/ BackupFails(h) \/ CommitFails(h)
  \/ RecordDigestFails(h) \/ TrailingFails(h)

Reload(h) == Reopen(h) \/ ReopenFails(h)

Next ==
  \E h \in Handles : \/ Load(h) \/ Begin(h) \/ Progress(h) \/ Fault(h)
                     \/ Reload(h) \/ Close(h) \/ Crash(h)

Init ==
  /\ flock \in BOOLEAN
  /\ \/ log = << >>
     \/ \E s \in Seeds, f \in {2, 3} :
          log = <<[toks |-> s, fmt |-> f, base |-> 0, blind |-> TRUE]>>
  /\ bak = 0
  /\ holders = {}
  /\ pc = [h \in Handles |-> "closed"]
  /\ op = [h \in Handles |-> "none"]
  /\ live = [h \in Handles |-> {}]
  /\ committed = [h \in Handles |-> {}]
  /\ quarantined = [h \in Handles |-> Nothing]
  /\ candidate = [h \in Handles |-> {}]
  /\ digest = [h \in Handles |-> NoDigest]
  /\ copied = [h \in Handles |-> 0]
  /\ probed = [h \in Handles |-> 0]
  /\ base = [h \in Handles |-> 0]
  /\ overtaken = [h \in Handles |-> FALSE]

Spec == Init /\ [][Next]_vars

\* A running process keeps executing the save it is in.
FairSpec == Spec /\ \A h \in Handles : WF_vars(Progress(h))
-----------------------------------------------------------------------------
(* Properties.                                                             *)

\* The values the variables take.
TypeOK ==
  /\ flock \in BOOLEAN
  /\ log \in Seq(Version)
  /\ bak \in 0..File
  /\ holders \subseteq Handles
  /\ pc \in [Handles -> Points]
  /\ op \in [Handles -> {"none", "update", "transaction", "create", "migrate"}]
  /\ live \in [Handles -> SUBSET Tokens]
  /\ committed \in [Handles -> SUBSET Tokens]
  /\ quarantined \in [Handles -> Copies]
  /\ candidate \in [Handles -> SUBSET Tokens]
  /\ digest \in [Handles -> -1..File]
  /\ copied \in [Handles -> 0..File]
  /\ probed \in [Handles -> {0, 2, 3}]
  /\ base \in [Handles -> 0..File]
  /\ overtaken \in [Handles -> BOOLEAN]

\* Where locks work, a save replaces the version its tokens come from, unless the
\* handle had no digest (it created the file) or another handle wrote the file
\* between this handle's rename and its compute_file_digest.  The stale-snapshot
\* check of update_db and db_transaction, with the window it leaves open.
NoSilentClobber ==
  flock => \A i \in DOMAIN log : log[i].blind \/ log[i].base = i - 1

\* The same without the exception, for saves by handles that loaded the database:
\* what tests/README.md says of a stale snapshot.
NoLostUpdate ==
  flock => \A i \in DOMAIN log \ {1} :
    log[i].base > 0 /\ log[i - 1].base > 0 => log[i].base = i - 1

\* What the check established under the lock still holds when the file is
\* replaced: nothing writes the database between the check and the rename.
CheckStillHolds ==
  flock => \A h \in Handles :
    pc[h] \in {"checked", "backed"} /\ File > 0 => Unchanged(h)

\* A handle vouches for bytes it has not read only if it was overtaken in the
\* window: otherwise its digest is not newer than the tokens it holds.
DigestIsOwn ==
  \A h \in Handles : digest[h] > base[h] => overtaken[h]

\* Between saves, and through one that has not reached its rename, the snapshot a
\* failure restores and the tokens set aside are those of one stored version,
\* never a mixture of two.
Loaded(h) ==
  /\ base[h] > 0
  /\ \/ pc[h] \in {"idle", "reopening", "unlocked", "recorded", "trailing"}
     \/ op[h] \in {"update", "transaction"} /\ pc[h] # "renamed"

SnapshotIsOneVersion ==
  \A h \in Handles : Loaded(h) =>
    /\ committed[h] = Accepted(log[base[h]].toks)
    /\ quarantined[h] = SetAside(log[base[h]].toks)

\* A token that does not validate is never lost and never duplicated by a save:
\* each version holds it as many times as the version it was made from, through
\* migrations, failed saves and loads over what was set aside before.
QuarantineKept ==
  \A i \in DOMAIN log : log[i].base > 0 =>
    SetAside(log[i].toks) = SetAside(log[log[i].base].toks)

\* Where locks work, no database is replaced before there is a copy of one.
BackupBeforeReplace ==
  flock => \A h \in Handles : pc[h] = "backed" /\ File > 0 => bak > 0

\* However an update_db ends, memory shows what a version on disk holds.
UpdateEndsCommitted ==
  [][\A h \in Handles :
       op[h] = "update" /\ pc'[h] = "idle" => live'[h] = committed'[h]]_vars

\* A save ends: the wait for the lock is bounded and no step waits for another.
SaveEnds ==
  \A h \in Handles : pc[h] \in Saving ~> pc[h] \notin Saving

\* The inductive invariants of the proofs.  A handle inside lock_db .. unlock_db
\* is the one holder; a handle in the window has the latest version or has been
\* overtaken; only a handle that has stored nothing yet has no digest.
LockInv ==
  flock => \A h \in Handles : pc[h] \in Critical => holders = {h}

WindowInv ==
  \A h \in Handles : pc[h] \in Window => base[h] = File \/ overtaken[h]

NoDigestInv ==
  \A h \in Handles : digest[h] = NoDigest => base[h] = 0 \/ pc[h] \in Window

StaleInv ==
  /\ TypeOK /\ LockInv /\ WindowInv /\ NoDigestInv
  /\ CheckStillHolds /\ DigestIsOwn /\ NoSilentClobber

\* Nothing a handle would write as its own is invalid, and what it set aside is
\* exactly what the version it comes from holds of that.
ValidInv ==
  \A h \in Handles : (live[h] \cup committed[h] \cup candidate[h]) \cap Invalid = {}

AsideInv ==
  \A h \in Handles :
    quarantined[h] = IF base[h] = 0 THEN Nothing ELSE SetAside(log[base[h]].toks)

RenamedInv ==
  \A h \in Handles :
    pc[h] = "renamed" => base[h] > 0 /\ Accepted(log[base[h]].toks) = candidate[h]

BasesInv == \A i \in DOMAIN log : log[i].base < i

TokensInv ==
  /\ TypeOK /\ ValidInv /\ AsideInv /\ RenamedInv /\ BasesInv
  /\ SnapshotIsOneVersion /\ QuarantineKept

\* The handles are the clients of a versioned store, which does not count: see
\* VersionedStore.
Contents == [i \in DOMAIN log |-> {t \in Tokens : log[i].toks[t] > 0}]

Store == INSTANCE VersionedStore WITH
  Clients <- Handles, Opaque <- Invalid, guarded <- flock, hist <- Contents,
  snap <- base, settling <- {h \in Handles : pc[h] \in Window},
  blind <- {h \in Handles : overtaken[h]}

\* Every step of the code is a step of the versioned store or invisible in it.
ImplementsStore == Store!Spec
=============================================================================
