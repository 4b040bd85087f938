--------------------------- MODULE DbStoreProofs ---------------------------
(***************************************************************************)
(* Theorems about DbStore for any set of handles and tokens and any bound  *)
(* on the versions: type correctness, the stale-snapshot check, the tokens *)
(* set aside, and the refinement of VersionedStore.                        *)
(***************************************************************************)
EXTENDS DbStore, TLAPS

\* The file, when there is one, is a version.
LEMMA LatestVersion ==
  ASSUME log \in Seq(Version), File > 0
  PROVE  log[File] \in Version
BY DEF File

\* The newest version is a number, and so is whatever a digest may name.
LEMMA FileIsNat ==
  ASSUME log \in Seq(Version)
  PROVE  /\ File \in Nat
         /\ File \in 0..File
         /\ {NoDigest, 0, File} \subseteq -1..File
BY DEF File, NoDigest

\* What an array splits into, and what is appended to it, are arrays.
LEMMA ArrayTypes ==
  /\ Nothing \in Copies
  /\ \A c \in Copies : Accepted(c) \subseteq Tokens /\ SetAside(c) \in Copies
  /\ \A S, c : c \in Copies => Merge(S, c) \in Copies
BY DEF Nothing, Copies, Accepted, SetAside, Merge, Valid

\* Only what validates is accepted, and nothing of that is set aside.
LEMMA AcceptedValid ==
  /\ \A c : Accepted(c) \cap Invalid = {}
  /\ SetAside(Nothing) = Nothing
  /\ \A c \in Copies : SetAside(SetAside(c)) = SetAside(c)
BY DEF Nothing, Copies, Accepted, SetAside, Valid

\* The array that is written splits into the two it was made of, element by element.
LEMMA MergeSplits ==
  ASSUME NEW S \in SUBSET Tokens, S \cap Invalid = {},
         NEW c \in Copies, SetAside(c) = c
  PROVE  Accepted(Merge(S, c)) = S /\ SetAside(Merge(S, c)) = c
<1> DEFINE m == Merge(S, c)
<1>1. \A t \in Tokens : m[t] = c[t] + (IF t \in S THEN 1 ELSE 0) /\ c[t] \in Nat
  BY DEF Merge, Copies
<1>2. \A t \in Tokens : t \notin Invalid => c[t] = 0
  BY DEF SetAside
<1> HIDE DEF m
<1>3. Accepted(m) = S
  <2>1. \A t \in Tokens : t \notin Invalid => (m[t] > 0 <=> t \in S)
    BY <1>1, <1>2
  <2> QED
    BY <2>1 DEF Accepted, Valid
<1>4. SetAside(m) = c
  <2>1. \A t \in Tokens : c[t] = IF t \in Invalid THEN m[t] ELSE 0
    BY <1>1, <1>2
  <2>2. c = [t \in Tokens |-> c[t]]
    BY DEF Copies
  <2>3. [t \in Tokens |-> c[t]] = [t \in Tokens |-> IF t \in Invalid THEN m[t] ELSE 0]
    BY <2>1
  <2> QED
    BY <2>2, <2>3 DEF SetAside
<1> QED
  BY <1>3, <1>4 DEF m

\* What Commit writes has the type of a version.
LEMMA WrittenType ==
  ASSUME TypeOK, NEW h \in Handles
  PROVE  Written(h) \in Version
<1>1. base[h] \in Nat
  BY FileIsNat DEF TypeOK
<1>2. Merge(candidate[h], quarantined[h]) \in Copies
  BY ArrayTypes DEF TypeOK
<1> QED
  BY <1>1, <1>2 DEF TypeOK, Written, Version

\* Every variable keeps its type: no step of a load or a save leaves a handle at
\* a point, or with a version number, the code does not have.
THEOREM Typing == Spec => []TypeOK
<1> USE DEF Points, Saving, Critical, memory, ghosts, disk, Goto
<1>1. Init => TypeOK
  <2> SUFFICES ASSUME Init PROVE TypeOK
    OBVIOUS
  <2>1. log \in Seq(Version)
    <3>1. ASSUME NEW s \in Seeds, NEW f \in {2, 3}
          PROVE  [toks |-> s, fmt |-> f, base |-> 0, blind |-> TRUE] \in Version
      BY SeedsAssumption DEF Version, Copies
    <3>2. \A v \in Version : <<v>> \in Seq(Version)
      OBVIOUS
    <3>3. << >> \in Seq(Version)
      OBVIOUS
    <3>4. CASE log = << >>
      BY <3>3, <3>4
    <3>5. CASE log # << >>
      BY <3>1, <3>2, <3>5 DEF Init
    <3> QED
      BY <3>4, <3>5
  <2> QED
    BY <2>1, FileIsNat, ArrayTypes DEF Init, TypeOK
<1>2. TypeOK /\ [Next]_vars => TypeOK'
  <2> SUFFICES ASSUME TypeOK, [Next]_vars PROVE TypeOK'
    OBVIOUS
  <2> USE DEF TypeOK
  <2>f. File \in Nat /\ File \in 0..File /\ {NoDigest, 0, File} \subseteq -1..File
    BY FileIsNat
  <2>u. ASSUME UNCHANGED log PROVE File' = File
    BY <2>u DEF File
  <2>v. ASSUME File > 0 PROVE  /\ Accepted(log[File].toks) \subseteq Tokens /\ SetAside(log[File].toks) \in Copies
               /\ log[File].fmt \in {2, 3}
    BY <2>v, LatestVersion, ArrayTypes DEF Version
  <2>d. ASSUME NEW h \in Handles, Discard(h) PROVE TypeOK'
    BY <2>d, <2>f, <2>u, ArrayTypes DEF Discard
  <2>1. ASSUME NEW h \in Handles, Load(h) PROVE TypeOK'
    <3>1. CASE OpenVersion(h)
      BY <3>1, <2>v, <2>u DEF OpenVersion
    <3>2. CASE OpenCurrent(h)
      BY <3>2, <2>v, <2>u, <2>f DEF OpenCurrent, TakeFile
    <3>3. CASE OpenLegacy(h)
      BY <3>3, <2>v, <2>u, <2>f DEF OpenLegacy, TakeFile
    <3>4. CASE OpenFails(h)
      BY <3>4, <2>d DEF OpenFails
    <3> QED
      BY <2>1, <3>1, <3>2, <3>3, <3>4 DEF Load
  <2>a. ASSUME NEW h \in Handles, Abort(h) PROVE TypeOK'
    <3>1. CASE op[h] \in {"create", "migrate"}
      BY <2>a, <2>d, <3>1 DEF Abort
    <3>2. CASE op[h] = "update"
      <4>1. live' = [live EXCEPT ![h] = committed[h]]
        BY <2>a, <3>2 DEF Abort
      <4>2. live' \in [Handles -> SUBSET Tokens]
        BY <4>1
      <4> QED
        BY <2>a, <2>u, <4>2, <3>2 DEF Abort
    <3>3. CASE op[h] = "transaction"
      BY <2>a, <2>u, <3>3 DEF Abort
    <3> QED
      BY <2>a, <3>1, <3>2, <3>3 DEF Abort
  <2>2. ASSUME NEW h \in Handles, Begin(h) PROVE TypeOK'
    <3>1. CASE Update(h)
      BY <3>1, <2>u DEF Update
    <3>2. CASE EditRefused(h)
      BY <3>2, <2>u DEF EditRefused
    <3>3. CASE Create(h)
      BY <3>3, <2>u DEF Create
    <3>4. ASSUME NEW t \in Tokens, Edit(h, t) PROVE TypeOK'
      BY <3>4, <2>u DEF Edit
    <3>5. ASSUME NEW t \in Tokens, Transaction(h, t) PROVE TypeOK'
      BY <3>5, <2>u DEF Transaction
    <3> QED
      BY <2>2, <3>1, <3>2, <3>3, <3>4, <3>5 DEF Begin
  <2>r. ASSUME NEW h \in Handles, UNCHANGED log,
               pc' \in [Handles -> Points], bak' \in 0..File,
               op' \in [Handles -> {"none", "update", "transaction", "create", "migrate"}],
               holders' \subseteq Handles,
               digest' \in [Handles -> -1..File], copied' \in [Handles -> 0..File],
               live' \in [Handles -> SUBSET Tokens],
               committed' \in [Handles -> SUBSET Tokens],
               candidate' \in [Handles -> SUBSET Tokens],
               UNCHANGED <<flock, quarantined, probed, ghosts>>
        PROVE  TypeOK'
    BY <2>r, <2>u
  <2>3. ASSUME NEW h \in Handles, Progress(h) PROVE TypeOK'
    <3>1. CASE Lock(h)
      BY <3>1, <2>r DEF Lock
    <3>2. CASE LockTimesOut(h)
      BY <3>2, <2>a DEF LockTimesOut
    <3>3. CASE Check(h)
      BY <3>3, <2>r DEF Check
    <3>4. CASE CheckRefuses(h)
      BY <3>4, <2>a DEF CheckRefuses
    <3>5. CASE Backup(h)
      BY <3>5, <2>r, <2>f DEF Backup
    <3>6. CASE Commit(h)
      <4>1. log' \in Seq(Version) /\ File' = File + 1
        BY <3>6, WrittenType DEF Commit, File
      <4> QED
        BY <3>6, <4>1, <2>f DEF Commit
    <3>7. CASE CommitFails(h)
      BY <3>7, <2>a DEF CommitFails
    <3>8. CASE Unlock(h)
      BY <3>8, <2>r DEF Unlock
    <3>9. CASE RecordDigest(h)
      BY <3>9, <2>r, <2>f DEF RecordDigest
    <3>10. CASE TrailingOpen(h)
      BY <3>10, <2>r, <2>f DEF TrailingOpen
    <3>11. CASE TrailingReplace(h)
      <4>1. pc' \in [Handles -> Points]
        BY <3>11 DEF TrailingReplace, Return
      <4>2. op' \in [Handles -> {"none", "update", "transaction", "create", "migrate"}]
        BY <3>11 DEF TrailingReplace, Return
      <4>3. bak' \in 0..File /\ copied' \in [Handles -> 0..File]
        BY <3>11, <2>f DEF TrailingReplace
      <4> QED
        BY <3>11, <4>1, <4>2, <4>3, <2>r DEF TrailingReplace
    <3> QED
      BY <2>3, <3>1, <3>2, <3>3, <3>4, <3>5, <3>6, <3>7, <3>8, <3>9, <3>10, <3>11
      DEF Progress
  <2>4. ASSUME NEW h \in Handles, Fault(h) PROVE TypeOK'
    <3>1. CASE RecordDigestFails(h)
      BY <3>1, <2>r, <2>f DEF RecordDigestFails
    <3>2. CASE TrailingFails(h)
      BY <3>2, <2>r DEF TrailingFails, Return
    <3> QED
      BY <2>4, <2>a, <3>1, <3>2 DEF Fault, LockFails, CheckFails, BackupFails, CommitFails
  <2>5. ASSUME NEW h \in Handles, Reload(h) PROVE TypeOK'
    <3>1. CASE Reopen(h)
      BY <3>1, <2>v, <2>u, <2>f DEF Reopen, TakeFile
    <3>2. CASE ReopenFails(h)
      BY <3>2, <2>d, <2>r DEF ReopenFails
    <3> QED
      BY <2>5, <3>1, <3>2 DEF Reload
  <2>6. ASSUME NEW h \in Handles, Close(h) \/ Crash(h) PROVE TypeOK'
    BY <2>6, <2>d DEF Close, Crash
  <2>7. CASE UNCHANGED vars
    BY <2>7, <2>u DEF vars
  <2> QED
    BY <2>1, <2>2, <2>3, <2>4, <2>5, <2>6, <2>7 DEF Next
<1> QED
  BY <1>1, <1>2, PTL DEF Spec
-----------------------------------------------------------------------------
(* The stale-snapshot check.                                               *)

\* A step of h that stays or gets out of lock_db .. unlock_db and leaves the file
\* and what h knows of it alone.
LEMMA QuietStep ==
  ASSUME TypeOK', StaleInv, NEW h \in Handles, NEW p \in Points \ Critical,
         pc' = [pc EXCEPT ![h] = p],
         holders' \in {holders, holders \ {h}},
         pc[h] \in Window => p \in Window,
         p \in Window => pc[h] \in Window,
         UNCHANGED <<flock, log, digest, base, overtaken>>
  PROVE  StaleInv'
<1> USE DEF TypeOK, StaleInv
<1>0. File' = File
  BY DEF File
<1>1. LockInv'
  BY DEF LockInv
<1>2. WindowInv'
  BY <1>0 DEF WindowInv
<1>3. NoDigestInv'
  BY DEF NoDigestInv
<1>4. CheckStillHolds'
  BY <1>0 DEF CheckStillHolds, Unchanged, Critical
<1>5. DigestIsOwn'
  BY DEF DigestIsOwn
<1>6. NoSilentClobber'
  BY DEF NoSilentClobber
<1> QED
  BY <1>1, <1>2, <1>3, <1>4, <1>5, <1>6

\* The end of a handle: it lets go of the lock and forgets its digest.
LEMMA StaleDiscard ==
  ASSUME TypeOK', StaleInv, NEW h \in Handles, Discard(h)
  PROVE  StaleInv'
<1> USE DEF TypeOK, StaleInv, Discard, Goto
<1>0. File' = File
  BY DEF File, disk
<1>1. LockInv'
  BY DEF LockInv, Critical
<1>2. WindowInv'
  BY <1>0 DEF WindowInv, Window, disk
<1>3. NoDigestInv'
  BY DEF NoDigestInv, Window
<1>4. CheckStillHolds'
  BY <1>0 DEF CheckStillHolds, Unchanged
<1>5. DigestIsOwn'
  BY DEF DigestIsOwn, NoDigest
<1>6. NoSilentClobber'
  BY DEF NoSilentClobber, disk
<1> QED
  BY <1>1, <1>2, <1>3, <1>4, <1>5, <1>6

\* A save that aborts before the rename vouches for nothing.
LEMMA StaleAbort ==
  ASSUME TypeOK', StaleInv, NEW h \in Handles, pc[h] \notin Window, Abort(h)
  PROVE  StaleInv'
<1>1. CASE Discard(h)
  BY <1>1, StaleDiscard
<1>2. CASE ~Discard(h)
  BY <1>2, QuietStep DEF Abort, Goto, Points, Saving, Critical, Window, disk, ghosts
<1> QED
  BY <1>1, <1>2

\* Reading the file whole: tokens and digest are of the same version.
LEMMA StaleTakeFile ==
  ASSUME TypeOK', StaleInv, NEW h \in Handles, NEW p \in Points \ (Critical \cup Window),
         TakeFile(h), pc' = [pc EXCEPT ![h] = p], UNCHANGED <<flock, disk, holders>>
  PROVE  StaleInv'
<1> USE DEF TypeOK, StaleInv, TakeFile, disk
<1>0. File' = File /\ File \in Nat
  BY FileIsNat DEF File
<1>1. LockInv'
  BY DEF LockInv
<1>2. WindowInv'
  BY <1>0 DEF WindowInv
<1>3. NoDigestInv'
  BY <1>0 DEF NoDigestInv, NoDigest
<1>4. CheckStillHolds'
  BY <1>0 DEF CheckStillHolds, Unchanged, Critical
<1>5. DigestIsOwn'
  BY <1>0 DEF DigestIsOwn
<1>6. NoSilentClobber'
  BY DEF NoSilentClobber
<1> QED
  BY <1>1, <1>2, <1>3, <1>4, <1>5, <1>6

\* A step inside lock_db .. unlock_db that does not touch the file: what is left to
\* show is what the step establishes.
LEMMA StaleInside ==
  ASSUME TypeOK', StaleInv, NEW h \in Handles, NEW p \in {"locked", "checked", "backed"},
         pc' = [pc EXCEPT ![h] = p],
         flock => holders' = {h},
         flock => \A g \in Handles : g # h => pc[g] \notin Critical,
         pc[h] \notin Window,
         flock /\ p # "locked" /\ File > 0 => Unchanged(h),
         UNCHANGED <<flock, log, digest, base, overtaken>>
  PROVE  StaleInv'
<1> USE DEF TypeOK, StaleInv
<1>0. File' = File
  BY DEF File
<1>1. LockInv'
  BY DEF LockInv
<1>2. WindowInv'
  BY <1>0 DEF WindowInv, Window
<1>3. NoDigestInv'
  BY DEF NoDigestInv
<1>4. CheckStillHolds'
  BY <1>0 DEF CheckStillHolds, Unchanged, Critical
<1>5. DigestIsOwn'
  BY DEF DigestIsOwn
<1>6. NoSilentClobber'
  BY DEF NoSilentClobber
<1> QED
  BY <1>1, <1>2, <1>3, <1>4, <1>5, <1>6

\* The rename.  The holder of the lock is alone, so the digest it compared is still
\* the file's; a digest of the file is of the tokens it holds unless it was overtaken.
LEMMA StaleCommit ==
  ASSUME TypeOK', StaleInv, NEW h \in Handles, Commit(h)
  PROVE  StaleInv'
<1> USE DEF StaleInv, Commit, Goto
<1>0. /\ File \in Nat /\ File' = File + 1
      /\ \A i \in DOMAIN log : log'[i] = log[i]
      /\ log'[File + 1] = Written(h)
      /\ DOMAIN log = 1..File /\ DOMAIN log' = 1..(File + 1)
  BY FileIsNat, WrittenType DEF TypeOK, File
<1>1. LockInv'
  BY DEF LockInv, TypeOK, Critical
<1>2. WindowInv'
  BY <1>0 DEF WindowInv, TypeOK, Window
<1>3. NoDigestInv'
  BY DEF NoDigestInv, TypeOK, Window
<1>4. CheckStillHolds'
  BY DEF CheckStillHolds, LockInv, TypeOK, Critical
<1>5. DigestIsOwn'
  BY <1>0 DEF DigestIsOwn, TypeOK
<1>6. NoSilentClobber'
  <2>1. ASSUME flock PROVE Written(h).blind \/ Written(h).base = File
    <3>1. CASE File = 0
      BY <3>1 DEF Written, TypeOK
    <3>2. CASE digest[h] = NoDigest
      BY <3>2 DEF Written
    <3>3. CASE File > 0 /\ digest[h] = File
      BY <3>3, <1>0 DEF Written, DigestIsOwn, TypeOK
    <3> QED
      BY <1>0, <2>1, <3>1, <3>2, <3>3 DEF CheckStillHolds, Unchanged
  <2> QED
    BY <1>0, <2>1 DEF NoSilentClobber
<1> QED
  BY <1>1, <1>2, <1>3, <1>4, <1>5, <1>6

\* The digest recorded after the unlock, whatever it is of.
LEMMA StaleDigest ==
  ASSUME TypeOK', StaleInv, NEW h \in Handles, RecordDigest(h) \/ RecordDigestFails(h)
  PROVE  StaleInv'
<1> USE DEF StaleInv, RecordDigest, RecordDigestFails, Goto
<1>0. /\ File' = File /\ File \in Nat
      /\ UNCHANGED <<flock, log, holders, base, overtaken>>
      /\ pc' = [pc EXCEPT ![h] = "recorded"]
      /\ pc[h] = "unlocked"
  BY FileIsNat DEF File, disk, ghosts, TypeOK
<1>a. \E d \in {File, 0, digest[h]} :
        d # NoDigest /\ digest' = [digest EXCEPT ![h] = d]
  BY <1>0 DEF NoDigest
<1>1. LockInv'
  BY <1>0 DEF LockInv, TypeOK, Critical
<1>2. WindowInv'
  BY <1>0 DEF WindowInv, TypeOK, Window
<1>3. NoDigestInv'
  BY <1>0, <1>a DEF NoDigestInv, TypeOK, Window
<1>4. CheckStillHolds'
  BY <1>0, <1>a DEF CheckStillHolds, Unchanged, TypeOK
<1>5. DigestIsOwn'
  BY <1>0, <1>a DEF DigestIsOwn, WindowInv, Window, TypeOK
<1>6. NoSilentClobber'
  BY <1>0 DEF NoSilentClobber
<1> QED
  BY <1>1, <1>2, <1>3, <1>4, <1>5, <1>6

\* Every step keeps the digests honest.
LEMMA StaleStep ==
  ASSUME TypeOK', StaleInv, [Next]_vars
  PROVE  StaleInv'
<1> USE DEF Goto, disk, ghosts, Points, Saving
<1>w. Window = {"renamed", "unlocked"} /\ Critical = {"locked", "checked", "backed", "renamed"}
  BY DEF Window, Critical
<1>l. ASSUME NEW h \in Handles, flock, pc[h] \in Critical
      PROVE  holders = {h} /\ \A g \in Handles : g # h => pc[g] \notin Critical
  BY <1>l DEF StaleInv, LockInv
<1>1. ASSUME NEW h \in Handles, Load(h) PROVE StaleInv'
  <2>1. CASE OpenVersion(h)
    BY <2>1, <1>w, QuietStep DEF OpenVersion
  <2>2. CASE OpenCurrent(h)
    BY <2>2, <1>w, StaleTakeFile DEF OpenCurrent
  <2>3. CASE OpenLegacy(h)
    BY <2>3, <1>w, StaleTakeFile DEF OpenLegacy
  <2>4. CASE OpenFails(h)
    BY <2>4, StaleDiscard DEF OpenFails
  <2> QED
    BY <1>1, <2>1, <2>2, <2>3, <2>4 DEF Load
<1>2. ASSUME NEW h \in Handles, Begin(h) PROVE StaleInv'
  <2>0. pc = [pc EXCEPT ![h] = pc[h]]
    BY DEF StaleInv, TypeOK
  <2>1. CASE Update(h)
    BY <2>1, <1>w, QuietStep DEF Update
  <2>2. CASE EditRefused(h)
    BY <2>2, <2>0, <1>w, QuietStep DEF EditRefused
  <2>3. CASE Create(h)
    BY <2>3, <1>w, QuietStep DEF Create
  <2>4. ASSUME NEW t \in Tokens, Edit(h, t) PROVE StaleInv'
    BY <2>4, <2>0, <1>w, QuietStep DEF Edit
  <2>5. ASSUME NEW t \in Tokens, Transaction(h, t) PROVE StaleInv'
    BY <2>5, <1>w, QuietStep DEF Transaction
  <2> QED
    BY <1>2, <2>1, <2>2, <2>3, <2>4, <2>5 DEF Begin
<1>3. ASSUME NEW h \in Handles, Progress(h) PROVE StaleInv'
  <2>1. CASE Lock(h)
    <3>1. flock => \A g \in Handles : pc[g] \notin Critical
      BY <2>1 DEF Lock, StaleInv, LockInv
    <3> QED
      BY <2>1, <3>1, <1>w, StaleInside DEF Lock
  <2>2. CASE LockTimesOut(h)
    BY <2>2, <1>w, StaleAbort DEF LockTimesOut
  <2>3. CASE Check(h)
    <3>1. PICK p \in {"checked", "backed"} :
            pc' = [pc EXCEPT ![h] = p] /\ (File > 0 => Unchanged(h))
      BY <2>3 DEF Check
    <3> QED
      BY <2>3, <3>1, <1>l, <1>w, StaleInside DEF Check
  <2>4. CASE CheckRefuses(h)
    BY <2>4, <1>w, StaleAbort DEF CheckRefuses
  <2>5. CASE Backup(h)
    <3>1. flock /\ File > 0 => Unchanged(h)
      BY <2>5 DEF Backup, StaleInv, CheckStillHolds
    <3> QED
      BY <2>5, <3>1, <1>l, <1>w, StaleInside DEF Backup
  <2>6. CASE Commit(h)
    BY <2>6, StaleCommit
  <2>7. CASE CommitFails(h)
    BY <2>7, <1>w, StaleAbort DEF CommitFails
  <2>8. CASE Unlock(h)
    BY <2>8, <1>w, QuietStep DEF Unlock
  <2>9. CASE RecordDigest(h)
    BY <2>9, StaleDigest
  <2>10. CASE TrailingOpen(h)
    BY <2>10, <1>w, QuietStep DEF TrailingOpen
  <2>11. CASE TrailingReplace(h)
    BY <2>11, <1>w, QuietStep DEF TrailingReplace, Return
  <2> QED
    BY <1>3, <2>1, <2>2, <2>3, <2>4, <2>5, <2>6, <2>7, <2>8, <2>9, <2>10, <2>11
    DEF Progress
<1>4. ASSUME NEW h \in Handles, Fault(h) PROVE StaleInv'
  <2>1. CASE RecordDigestFails(h)
    BY <2>1, StaleDigest
  <2>2. CASE TrailingFails(h)
    BY <2>2, <1>w, QuietStep DEF TrailingFails, Return
  <2>3. CASE LockFails(h) \/ CheckFails(h) \/ BackupFails(h) \/ CommitFails(h)
    BY <2>3, <1>w, StaleAbort DEF LockFails, CheckFails, BackupFails, CommitFails
  <2> QED
    BY <1>4, <2>1, <2>2, <2>3 DEF Fault
<1>5. ASSUME NEW h \in Handles, Reload(h) PROVE StaleInv'
  <2>1. CASE Reopen(h)
    BY <2>1, <1>w, StaleTakeFile DEF Reopen
  <2>2. CASE ReopenFails(h)
    BY <2>2, <1>w, StaleDiscard, QuietStep DEF ReopenFails
  <2> QED
    BY <1>5, <2>1, <2>2 DEF Reload
<1>6. ASSUME NEW h \in Handles, Close(h) \/ Crash(h) PROVE StaleInv'
  BY <1>6, StaleDiscard DEF Close, Crash
<1>7. CASE UNCHANGED vars
  <2> USE <1>7 DEF vars, StaleInv
  <2>1. File' = File
    BY DEF File
  <2>2. LockInv' /\ WindowInv' /\ NoDigestInv'
    BY <2>1 DEF LockInv, WindowInv, NoDigestInv
  <2>3. CheckStillHolds' /\ DigestIsOwn' /\ NoSilentClobber'
    BY <2>1 DEF CheckStillHolds, Unchanged, DigestIsOwn, NoSilentClobber
  <2> QED
    BY <2>2, <2>3
<1> QED
  BY <1>1, <1>2, <1>3, <1>4, <1>5, <1>6, <1>7 DEF Next

\* Where locks work, every save replaces the version its tokens come from, except in
\* the named cases: the invariant is that a handle in lock_db .. unlock_db is alone
\* there, that its comparison with the file still holds, and that a digest is of
\* the handle's own tokens unless the handle was overtaken.
THEOREM StaleSafety == Spec => []StaleInv
<1>1. Init /\ TypeOK => StaleInv
  <2> SUFFICES ASSUME Init, TypeOK PROVE StaleInv
    OBVIOUS
  <2> USE DEF Init
  <2>1. LockInv /\ WindowInv /\ CheckStillHolds
    BY DEF LockInv, WindowInv, CheckStillHolds, Critical, Window
  <2>2. NoDigestInv /\ DigestIsOwn
    BY DEF NoDigestInv, DigestIsOwn, NoDigest
  <2>3. NoSilentClobber
    BY DEF NoSilentClobber
  <2> QED
    BY <2>1, <2>2, <2>3 DEF StaleInv
<1>2. StaleInv /\ TypeOK' /\ [Next]_vars => StaleInv'
  BY StaleStep
<1> QED
  BY <1>1, <1>2, Typing, PTL DEF Spec

\* What a reader asks of it: no save silently clobbers another.
COROLLARY NoClobber == Spec => []NoSilentClobber
<1>1. StaleInv => NoSilentClobber
  BY DEF StaleInv
<1> QED
  BY <1>1, StaleSafety, PTL

\* A digest newer than the handle's tokens is always the mark of the window.
COROLLARY OwnDigest == Spec => []DigestIsOwn
<1>1. StaleInv => DigestIsOwn
  BY DEF StaleInv
<1> QED
  BY <1>1, StaleSafety, PTL

\* Nothing writes the database between the comparison under the lock and the rename.
COROLLARY CheckHolds == Spec => []CheckStillHolds
<1>1. StaleInv => CheckStillHolds
  BY DEF StaleInv
<1> QED
  BY <1>1, StaleSafety, PTL

-----------------------------------------------------------------------------
(* The tokens set aside at load.                                           *)

\* A step of h that leaves the file, h's snapshot and what it set aside alone, and
\* neither enters nor leaves the point after the rename.
LEMMA TokensStep ==
  ASSUME TypeOK, TypeOK', TokensInv, NEW h \in Handles, NEW p \in Points,
         pc' = [pc EXCEPT ![h] = p],
         p # "renamed", pc[h] # "renamed",
         NEW o, op' = [op EXCEPT ![h] = o],
         NEW l, live' = [live EXCEPT ![h] = l], l \cap Invalid = {},
         NEW c, candidate' = [candidate EXCEPT ![h] = c], c \cap Invalid = {},
         Loaded(h)' => Loaded(h),
         UNCHANGED <<log, committed, quarantined, base>>
  PROVE  TokensInv'
<1> USE DEF TypeOK
<1>1. ValidInv'
  BY DEF TokensInv, ValidInv
<1>2. AsideInv'
  BY DEF TokensInv, AsideInv
<1>3. RenamedInv'
  BY DEF TokensInv, RenamedInv
<1>4. BasesInv' /\ QuarantineKept'
  BY DEF TokensInv, BasesInv, QuarantineKept
<1>5. SnapshotIsOneVersion'
  <2>1. ASSUME NEW g \in Handles, Loaded(g)' PROVE Loaded(g)
    BY <2>1 DEF Loaded
  <2> QED
    BY <2>1 DEF TokensInv, SnapshotIsOneVersion
<1> QED
  BY <1>1, <1>2, <1>3, <1>4, <1>5 DEF TokensInv

\* A handle that drops its tokens sets nothing aside.
LEMMA TokensDiscard ==
  ASSUME TypeOK, TypeOK', TokensInv, NEW h \in Handles, Discard(h)
  PROVE  TokensInv'
<1> USE DEF TypeOK, Discard, Goto, disk
<1>1. ValidInv'
  BY DEF TokensInv, ValidInv
<1>2. AsideInv'
  BY DEF TokensInv, AsideInv
<1>3. RenamedInv'
  BY DEF TokensInv, RenamedInv
<1>4. BasesInv' /\ QuarantineKept'
  BY DEF TokensInv, BasesInv, QuarantineKept
<1>5. SnapshotIsOneVersion'
  BY DEF TokensInv, SnapshotIsOneVersion, Loaded
<1> QED
  BY <1>1, <1>2, <1>3, <1>4, <1>5 DEF TokensInv

\* A failed save restores the snapshot, which is valid.
LEMMA TokensAbort ==
  ASSUME TypeOK, TypeOK', TokensInv, NEW h \in Handles, Abort(h),
         pc[h] \in Saving, pc[h] # "renamed"
  PROVE  TokensInv'
<1>1. CASE Discard(h)
  BY <1>1, TokensDiscard
<1>2. CASE ~Discard(h)
  <2>1. op[h] \in {"update", "transaction"}
    BY <1>2 DEF Abort
  <2>2. \E l \in {live[h], committed[h]} : live' = [live EXCEPT ![h] = l]
    BY <1>2 DEF Abort, TypeOK
  <2>3. committed[h] \cap Invalid = {} /\ live[h] \cap Invalid = {}
    BY DEF TokensInv, ValidInv
  <2>4. Loaded(h)' => Loaded(h)
    BY <1>2, <2>1 DEF Abort, Loaded, ghosts
  <2>5. "idle" \in Points /\ {} \cap Invalid = {}
    BY DEF Points
  <2> QED
    BY <1>2, <2>2, <2>3, <2>4, <2>5, TokensStep DEF Abort, Goto, disk, ghosts
<1> QED
  BY <1>1, <1>2

\* Reading a version whole splits it into what is valid and what is set aside.
LEMMA TokensTakeFile ==
  ASSUME TypeOK, TypeOK', TokensInv, NEW h \in Handles, TakeFile(h),
         NEW p \in Points \ {"renamed"}, pc' = [pc EXCEPT ![h] = p],
         \A g \in Handles : g # h => op'[g] = op[g],
         NEW s, committed' = [committed EXCEPT ![h] = s],
         s = live'[h] \/ (s = committed[h] /\ ~Loaded(h)'),
         NEW c, candidate' = [candidate EXCEPT ![h] = c], c \cap Invalid = {},
         UNCHANGED log
  PROVE  TokensInv'
<1> USE DEF TypeOK, TakeFile
<1>1. ValidInv'
  BY AcceptedValid DEF TokensInv, ValidInv
<1>2. AsideInv'
  <2>1. base'[h] # 0 /\ quarantined'[h] = SetAside(log'[base'[h]].toks)
    BY FileIsNat
  <2>2. ASSUME NEW g \in Handles, g # h
        PROVE  quarantined'[g] = quarantined[g] /\ base'[g] = base[g]
    BY <2>2
  <2> QED
    BY <2>1, <2>2 DEF TokensInv, AsideInv
<1>3. RenamedInv'
  BY DEF TokensInv, RenamedInv
<1>4. BasesInv' /\ QuarantineKept'
  BY DEF TokensInv, BasesInv, QuarantineKept
<1>5. SnapshotIsOneVersion'
  <2>1. ASSUME NEW g \in Handles, g # h, Loaded(g)' PROVE Loaded(g)
    BY <2>1 DEF Loaded
  <2> QED
    BY <2>1 DEF TokensInv, SnapshotIsOneVersion
<1> QED
  BY <1>1, <1>2, <1>3, <1>4, <1>5 DEF TokensInv

\* What a handle set aside holds nothing that validates.
LEMMA AsideSplit ==
  ASSUME TypeOK, TokensInv, NEW h \in Handles
  PROVE  SetAside(quarantined[h]) = quarantined[h]
<1>1. CASE base[h] = 0
  <2>1. quarantined[h] = Nothing
    BY <1>1 DEF TokensInv, AsideInv
  <2> QED
    BY <2>1, AcceptedValid
<1>2. CASE base[h] # 0
  <2>1. base[h] \in DOMAIN log
    BY <1>2, FileIsNat DEF TypeOK, File
  <2>2. log[base[h]] \in Version
    BY <2>1 DEF TypeOK
  <2>3. log[base[h]].toks \in Copies
    BY <2>2 DEF Version
  <2>4. quarantined[h] = SetAside(log[base[h]].toks)
    BY <1>2 DEF TokensInv, AsideInv
  <2> QED
    BY <2>3, <2>4, AcceptedValid
<1> QED
  BY <1>1, <1>2

\* encrypt_db puts back exactly what this handle set aside, as often.
LEMMA TokensCommit ==
  ASSUME TypeOK, TypeOK', TokensInv, NEW h \in Handles, Commit(h)
  PROVE  TokensInv'
<1> USE DEF Commit, Goto
<1>0. /\ File \in Nat
      /\ \A i \in DOMAIN log : log'[i] = log[i]
      /\ log'[File + 1] = Written(h)
      /\ DOMAIN log = 1..File /\ DOMAIN log' = 1..(File + 1)
      /\ \A g \in Handles : base[g] > 0 => base[g] \in DOMAIN log
  BY FileIsNat, WrittenType DEF TypeOK, File
<1>q. /\ candidate[h] \in SUBSET Tokens /\ candidate[h] \cap Invalid = {}
      /\ quarantined[h] \in Copies /\ SetAside(quarantined[h]) = quarantined[h]
      /\ base[h] > 0 => quarantined[h] = SetAside(log[base[h]].toks)
  BY <1>0, AsideSplit DEF TokensInv, ValidInv, AsideInv, TypeOK
<1>w. /\ Written(h).base = base[h]
      /\ Accepted(Written(h).toks) = candidate[h]
      /\ SetAside(Written(h).toks) = quarantined[h]
  BY <1>q, MergeSplits DEF Written
<1>b. /\ base' = [base EXCEPT ![h] = File + 1]
      /\ UNCHANGED <<op, live, committed, quarantined, candidate>>
      /\ \A g \in Handles : g # h => (Loaded(g)' <=> Loaded(g))
      /\ ~Loaded(h)'
  BY DEF memory, Loaded, TypeOK
<1>1. ValidInv'
  BY <1>b DEF TokensInv, ValidInv
<1>2. AsideInv'
  <2>1. ASSUME NEW g \in Handles, g # h
        PROVE  quarantined'[g] = IF base'[g] = 0 THEN Nothing ELSE SetAside(log'[base'[g]].toks)
    BY <2>1, <1>0, <1>b DEF TokensInv, AsideInv, TypeOK
  <2>2. quarantined'[h] = SetAside(log'[base'[h]].toks) /\ base'[h] # 0
    BY <1>0, <1>w, <1>b DEF TypeOK
  <2> QED
    BY <2>1, <2>2 DEF AsideInv
<1>3. RenamedInv'
  BY <1>0, <1>w, <1>b DEF TokensInv, RenamedInv, TypeOK
<1>4. BasesInv'
  BY <1>0, <1>w DEF TokensInv, BasesInv, TypeOK
<1>5. QuarantineKept'
  <2>1. ASSUME NEW i \in DOMAIN log, log[i].base > 0
        PROVE  SetAside(log'[i].toks) = SetAside(log'[log'[i].base].toks)
    <3>0. log[i] \in Version
      BY <2>1 DEF TypeOK
    <3>1. log[i].base \in Nat
      BY <3>0 DEF Version
    <3>2. log[i].base \in DOMAIN log
      BY <2>1, <3>1, <1>0 DEF TokensInv, BasesInv
    <3> QED
      BY <2>1, <3>2, <1>0 DEF TokensInv, QuarantineKept
  <2>2. ASSUME base[h] > 0
        PROVE  SetAside(log'[File + 1].toks) = SetAside(log'[base[h]].toks)
    BY <2>2, <1>0, <1>w, <1>q
  <2>3. ASSUME NEW i \in 1..(File + 1), log'[i].base > 0
        PROVE  SetAside(log'[i].toks) = SetAside(log'[log'[i].base].toks)
    <3>1. CASE i \in DOMAIN log
      BY <3>1, <2>1, <2>3, <1>0
    <3>2. CASE i = File + 1
      BY <3>2, <2>2, <2>3, <1>0, <1>w
    <3>3. i \in 1..File \/ i = File + 1
      BY <1>0
    <3> QED
      BY <3>1, <3>2, <3>3, <1>0
  <2> QED
    BY <1>0, <2>3 DEF QuarantineKept
<1>6. SnapshotIsOneVersion'
  BY <1>0, <1>b DEF TokensInv, SnapshotIsOneVersion, TypeOK, Loaded
<1> QED
  BY <1>1, <1>2, <1>3, <1>4, <1>5, <1>6 DEF TokensInv

\* The snapshot becomes the candidate that was written.
LEMMA TokensUnlock ==
  ASSUME TypeOK, TypeOK', TokensInv, NEW h \in Handles, Unlock(h)
  PROVE  TokensInv'
<1> USE DEF TypeOK, Unlock, Goto, disk, ghosts
<1>1. ValidInv'
  BY DEF TokensInv, ValidInv
<1>2. AsideInv'
  BY DEF TokensInv, AsideInv
<1>3. RenamedInv'
  BY DEF TokensInv, RenamedInv
<1>4. BasesInv' /\ QuarantineKept'
  BY DEF TokensInv, BasesInv, QuarantineKept
<1>5. SnapshotIsOneVersion'
  <2>1. ASSUME NEW g \in Handles, g # h, Loaded(g)' PROVE Loaded(g)
    BY <2>1 DEF Loaded
  <2>2. base[h] > 0 /\ candidate[h] = Accepted(log[base[h]].toks)
    BY DEF TokensInv, RenamedInv
  <2>3. quarantined[h] = SetAside(log[base[h]].toks)
    <3>1. base[h] # 0
      BY <2>2
    <3> QED
      BY <3>1 DEF TokensInv, AsideInv
  <2>4. ASSUME NEW g \in Handles, Loaded(g)'
        PROVE  /\ committed'[g] = Accepted(log[base[g]].toks)
               /\ quarantined[g] = SetAside(log[base[g]].toks)
    <3>1. CASE g = h
      BY <3>1, <2>2, <2>3
    <3>2. CASE g # h
      BY <3>2, <2>1, <2>4 DEF TokensInv, SnapshotIsOneVersion
    <3> QED
      BY <3>1, <3>2
  <2> QED
    BY <2>4 DEF SnapshotIsOneVersion
<1> QED
  BY <1>1, <1>2, <1>3, <1>4, <1>5 DEF TokensInv

\* Every step keeps stored, live and quarantined tokens apart.
LEMMA TokensNext ==
  ASSUME TypeOK, TypeOK', TokensInv, [Next]_vars
  PROVE  TokensInv'
<1> USE DEF Goto, disk, ghosts, memory
<1>p. Points = {"locked", "checked", "backed", "renamed", "locking", "unlocked", "recorded",
                "trailing", "closed", "opening", "idle", "reopening"}
      /\ Saving = Points \ {"closed", "opening", "idle", "reopening"}
  BY DEF Points, Saving, Critical
<1>s. ASSUME NEW h \in Handles
      PROVE  /\ pc = [pc EXCEPT ![h] = pc[h]] /\ op = [op EXCEPT ![h] = op[h]]
             /\ live = [live EXCEPT ![h] = live[h]]
             /\ committed = [committed EXCEPT ![h] = committed[h]]
             /\ candidate = [candidate EXCEPT ![h] = candidate[h]]
             /\ live[h] \cap Invalid = {} /\ committed[h] \cap Invalid = {}
             /\ candidate[h] \cap Invalid = {}
  BY DEF TypeOK, TokensInv, ValidInv
<1>1. ASSUME NEW h \in Handles, Load(h) PROVE TokensInv'
  <2>1. CASE OpenVersion(h)
    <3>1. Loaded(h)' => Loaded(h)
      BY <2>1, <1>s DEF OpenVersion, Loaded, TypeOK
    <3> QED
      BY <2>1, <3>1, <1>p, <1>s, TokensStep DEF OpenVersion
  <2>2. CASE OpenCurrent(h)
    <3>1. committed' = [committed EXCEPT ![h] = live'[h]]
      BY <2>2 DEF OpenCurrent
    <3> QED
      BY <2>2, <3>1, <1>p, <1>s, TokensTakeFile DEF OpenCurrent
  <2>3. CASE OpenLegacy(h)
    <3>1. live'[h] \cap Invalid = {}
      BY <2>3, AcceptedValid DEF OpenLegacy, TakeFile, TypeOK
    <3>2. ~Loaded(h)'
      BY <2>3 DEF OpenLegacy, Loaded, TypeOK
    <3>3. \A g \in Handles : g # h => op'[g] = op[g]
      BY <2>3 DEF OpenLegacy, TypeOK
    <3> QED
      BY <2>3, <3>1, <3>2, <3>3, <1>p, <1>s, TokensTakeFile DEF OpenLegacy
  <2>4. CASE OpenFails(h)
    BY <2>4, TokensDiscard DEF OpenFails
  <2> QED
    BY <1>1, <2>1, <2>2, <2>3, <2>4 DEF Load
<1>2. ASSUME NEW h \in Handles, Begin(h) PROVE TokensInv'
  <2>i. ASSUME pc[h] = "idle" PROVE Loaded(h)' => base'[h] > 0 /\ (base'[h] = base[h] => Loaded(h))
    BY <2>i DEF Loaded
  <2>1. CASE Update(h)
    BY <2>1, <2>i, <1>p, <1>s, TokensStep DEF Update
  <2>2. CASE EditRefused(h)
    BY <2>2, <2>i, <1>p, <1>s, TokensStep DEF EditRefused
  <2>3. CASE Create(h)
    <3>1. ~Loaded(h)'
      BY <2>3 DEF Create, Loaded, TypeOK
    <3> QED
      BY <2>3, <3>1, <1>p, <1>s, TokensStep DEF Create
  <2>4. ASSUME NEW t \in Tokens, Edit(h, t) PROVE TokensInv'
    <3>1. PICK new \in {live[h] \cup {t}, live[h] \ {t}} : live' = [live EXCEPT ![h] = new]
      BY <2>4 DEF Edit
    <3>2. new \cap Invalid = {}
      BY <2>4, <1>s DEF Edit, Valid
    <3> QED
      BY <2>4, <3>1, <3>2, <2>i, <1>p, <1>s, TokensStep DEF Edit
  <2>5. ASSUME NEW t \in Tokens, Transaction(h, t) PROVE TokensInv'
    BY <2>5, <2>i, <1>p, <1>s, TokensStep DEF Transaction
  <2> QED
    BY <1>2, <2>1, <2>2, <2>3, <2>4, <2>5 DEF Begin
\* A step inside a save that leaves the memory of the handle alone.
<1>m. ASSUME NEW h \in Handles, NEW p \in Saving \ {"renamed", "unlocked", "locking"},
             pc[h] \in Saving \ {"renamed"}, pc' = [pc EXCEPT ![h] = p],
             pc[h] \in {"locking"} \cup Critical => p \in {"locked", "checked", "backed"},
             UNCHANGED <<log, op, memory, base>>
      PROVE  TokensInv'
  <2>1. Loaded(h)' => Loaded(h)
    BY <1>m, <1>p DEF Loaded, TypeOK, Critical
  <2> QED
    BY <1>m, <2>1, <1>p, <1>s, TokensStep
<1>r. ASSUME NEW h \in Handles, pc[h] \in {"recorded", "trailing"}, Return(h),
             UNCHANGED <<log, memory, base>>
      PROVE  TokensInv'
  <2>1. PICK p \in {"idle", "reopening"}, o \in {"none", op[h]} :
          pc' = [pc EXCEPT ![h] = p] /\ op' = [op EXCEPT ![h] = o]
    BY <1>r, <1>s DEF Return
  <2>2. Loaded(h)' => Loaded(h)
    BY <1>r DEF Loaded
  <2> QED
    BY <1>r, <2>1, <2>2, <1>p, <1>s, TokensStep
<1>3. ASSUME NEW h \in Handles, Progress(h) PROVE TokensInv'
  <2>1. CASE Lock(h)
    BY <2>1, <1>m, <1>p DEF Lock, Critical
  <2>2. CASE LockTimesOut(h)
    BY <2>2, <1>p, TokensAbort DEF LockTimesOut
  <2>3. CASE Check(h)
    BY <2>3, <1>m, <1>p DEF Check, Critical
  <2>4. CASE CheckRefuses(h)
    BY <2>4, <1>p, TokensAbort DEF CheckRefuses
  <2>5. CASE Backup(h)
    BY <2>5, <1>m, <1>p DEF Backup, Critical
  <2>6. CASE Commit(h)
    BY <2>6, TokensCommit
  <2>7. CASE CommitFails(h)
    BY <2>7, <1>p, TokensAbort DEF CommitFails
  <2>8. CASE Unlock(h)
    BY <2>8, TokensUnlock
  <2>9. CASE RecordDigest(h)
    BY <2>9, <1>m, <1>p DEF RecordDigest, Critical
  <2>10. CASE TrailingOpen(h)
    BY <2>10, <1>m, <1>p DEF TrailingOpen, Critical
  <2>11. CASE TrailingReplace(h)
    BY <2>11, <1>r DEF TrailingReplace
  <2> QED
    BY <1>3, <2>1, <2>2, <2>3, <2>4, <2>5, <2>6, <2>7, <2>8, <2>9, <2>10, <2>11
    DEF Progress
<1>4. ASSUME NEW h \in Handles, Fault(h) PROVE TokensInv'
  <2>1. CASE RecordDigestFails(h)
    BY <2>1, <1>m, <1>p DEF RecordDigestFails, Critical
  <2>2. CASE TrailingFails(h)
    BY <2>2, <1>r DEF TrailingFails
  <2>3. CASE LockFails(h) \/ CheckFails(h) \/ BackupFails(h) \/ CommitFails(h)
    BY <2>3, <1>p, TokensAbort DEF LockFails, CheckFails, BackupFails, CommitFails
  <2> QED
    BY <1>4, <2>1, <2>2, <2>3 DEF Fault
<1>5. ASSUME NEW h \in Handles, Reload(h) PROVE TokensInv'
  <2>1. CASE Reopen(h)
    <3>1. committed' = [committed EXCEPT ![h] = live'[h]]
      BY <2>1 DEF Reopen
    <3>2. \A g \in Handles : g # h => op'[g] = op[g]
      BY <2>1 DEF Reopen, TypeOK
    <3> QED
      BY <2>1, <3>1, <3>2, <1>p, <1>s, TokensTakeFile DEF Reopen
  <2>2. CASE ReopenFails(h) /\ ~Discard(h)
    <3>1. Loaded(h)' => Loaded(h)
      BY <2>2 DEF ReopenFails, Loaded
    <3> QED
      BY <2>2, <3>1, <1>p, <1>s, TokensStep DEF ReopenFails
  <2>3. CASE Discard(h)
    BY <2>3, TokensDiscard
  <2> QED
    BY <1>5, <2>1, <2>2, <2>3 DEF Reload
<1>6. ASSUME NEW h \in Handles, Close(h) \/ Crash(h) PROVE TokensInv'
  BY <1>6, TokensDiscard DEF Close, Crash
<1>7. CASE UNCHANGED vars
  <2> USE <1>7 DEF vars
  <2>1. ValidInv' /\ AsideInv' /\ RenamedInv' /\ BasesInv'
    BY DEF TokensInv, ValidInv, AsideInv, RenamedInv, BasesInv
  <2>2. SnapshotIsOneVersion' /\ QuarantineKept'
    BY DEF TokensInv, SnapshotIsOneVersion, Loaded, QuarantineKept
  <2> QED
    BY <2>1, <2>2 DEF TokensInv
<1> QED
  BY <1>1, <1>2, <1>3, <1>4, <1>5, <1>6, <1>7 DEF Next

\* What a handle holds comes from one stored version, and every save carries the
\* tokens that do not validate over unchanged.
THEOREM TokensSafety == Spec => []TokensInv
<1>1. Init /\ TypeOK => TokensInv
  <2> SUFFICES ASSUME Init, TypeOK PROVE TokensInv
    OBVIOUS
  <2> USE DEF Init
  <2>1. ValidInv /\ AsideInv /\ RenamedInv
    BY DEF ValidInv, AsideInv, RenamedInv
  <2>2. BasesInv /\ QuarantineKept
    BY DEF BasesInv, QuarantineKept
  <2>3. SnapshotIsOneVersion
    BY DEF SnapshotIsOneVersion, Loaded
  <2> QED
    BY <2>1, <2>2, <2>3 DEF TokensInv
<1>2. TypeOK /\ TokensInv /\ TypeOK' /\ [Next]_vars => TokensInv'
  BY TokensNext
<1> QED
  BY <1>1, <1>2, Typing, PTL DEF Spec

\* A token that does not validate is in every version as many times as in the one
\* the save was made from: no save loses one, and none writes one twice.
COROLLARY QuarantineSafety == Spec => []QuarantineKept
<1>1. TokensInv => QuarantineKept
  BY DEF TokensInv
<1> QED
  BY <1>1, TokensSafety, PTL

\* The snapshot a failed save restores is one stored version.
COROLLARY SnapshotSafety == Spec => []SnapshotIsOneVersion
<1>1. TokensInv => SnapshotIsOneVersion
  BY DEF TokensInv
<1> QED
  BY <1>1, TokensSafety, PTL

-----------------------------------------------------------------------------
(* The refinement: the code implements VersionedStore.                     *)

\* The abstract contents are a sequence as long as the log.
LEMMA ContentsSeq ==
  ASSUME log \in Seq(Version)
  PROVE  /\ Contents \in Seq(SUBSET Tokens)
         /\ Len(Contents) = File
         /\ DOMAIN Contents = 1..File
         /\ \A i \in 1..File : Contents[i] = {t \in Tokens : log[i].toks[t] > 0}
<1>1. File \in Nat /\ DOMAIN log = 1..File
  BY DEF File
<1>2. \A i \in 1..File : {t \in Tokens : log[i].toks[t] > 0} \in SUBSET Tokens
  OBVIOUS
<1> QED
  BY <1>1, <1>2 DEF Contents

\* What the abstract store does not see.
LEMMA StoreStutters ==
  ASSUME UNCHANGED <<flock, log, base, overtaken>>,
         \A g \in Handles : pc'[g] \in Window <=> pc[g] \in Window
  PROVE  UNCHANGED Store!vars
<1>1. Contents' = Contents
  BY DEF Contents
<1>2. {g \in Handles : pc[g] \in Window}' = {g \in Handles : pc[g] \in Window}
  OBVIOUS
<1>3. {g \in Handles : overtaken[g]}' = {g \in Handles : overtaken[g]}
  OBVIOUS
<1> QED
  BY <1>1, <1>2, <1>3 DEF Store!vars

\* Dropping the tokens of a handle is the Forget of the abstract store.
LEMMA StoreForgets ==
  ASSUME TypeOK, NEW h \in Handles, Discard(h)
  PROVE  Store!Forget(h)
<1> USE DEF TypeOK, Discard, Goto, disk
<1>1. Contents' = Contents
  BY DEF Contents
<1>2. {g \in Handles : pc[g] \in Window}' = {g \in Handles : pc[g] \in Window} \ {h}
  BY DEF Window
<1>3. {g \in Handles : overtaken[g]}' = {g \in Handles : overtaken[g]} \ {h}
  OBVIOUS
<1> QED
  BY <1>1, <1>2, <1>3 DEF Store!Forget

\* Reading the newest version is its Read.
LEMMA StoreReads ==
  ASSUME TypeOK, NEW h \in Handles, TakeFile(h), NEW p \in Points \ Window,
         pc' = [pc EXCEPT ![h] = p], UNCHANGED <<flock, log>>
  PROVE  Store!Read(h)
<1> USE DEF TypeOK, TakeFile
<1>1. Contents' = Contents
  BY DEF Contents
<1>2. {g \in Handles : pc[g] \in Window}' = {g \in Handles : pc[g] \in Window} \ {h}
  OBVIOUS
<1>3. {g \in Handles : overtaken[g]}' = {g \in Handles : overtaken[g]} \ {h}
  OBVIOUS
<1>4. Store!Latest = File
  BY ContentsSeq DEF Store!Latest
<1> QED
  BY <1>1, <1>2, <1>3, <1>4 DEF Store!Read

\* The rename: the comparison under the lock is what makes the commit one the
\* store allows, the merge of encrypt_db what makes it carry the rest along.
LEMMA StoreCommits ==
  ASSUME StaleInv, TokensInv, TypeOK', NEW h \in Handles, Commit(h)
  PROVE  \E T \in SUBSET Tokens : Store!Commit(h, T)
<1> DEFINE T == {t \in Tokens : Written(h).toks[t] > 0}
<1>0. TypeOK
  BY DEF StaleInv
<1>1. /\ File \in Nat /\ File' = File + 1
      /\ \A i \in 1..File : log'[i] = log[i]
      /\ log'[File + 1] = Written(h)
      /\ T \in SUBSET Tokens
      /\ UNCHANGED flock
      /\ base' = [base EXCEPT ![h] = File + 1]
  BY <1>0, FileIsNat, WrittenType DEF TypeOK, File, Commit
<1>2. Contents' = Append(Contents, T)
  <2>1. /\ Contents' \in Seq(SUBSET Tokens) /\ Len(Contents') = File + 1
        /\ \A i \in 1..(File + 1) :
             Contents'[i] = {t \in Tokens : log'[i].toks[t] > 0}
    <3>1. log' \in Seq(Version) /\ Len(log') = File + 1
      BY <1>1 DEF TypeOK, File
    <3>2. DOMAIN log' = 1..(File + 1)
      BY <3>1, <1>1
    <3> QED
      BY <1>1, <3>2 DEF Contents
  <2>2. /\ Contents \in Seq(SUBSET Tokens) /\ Len(Contents) = File
        /\ \A i \in 1..File : Contents[i] = {t \in Tokens : log[i].toks[t] > 0}
    BY <1>0, ContentsSeq DEF TypeOK
  <2>3. Contents'[File + 1] = T
    <3>1. File + 1 \in 1..(File + 1)
      BY <1>1
    <3>2. Contents'[File + 1] = {t \in Tokens : log'[File + 1].toks[t] > 0}
      BY <2>1, <3>1
    <3> QED
      BY <1>1, <3>2
  <2>4. ASSUME NEW i \in 1..File PROVE Contents'[i] = Contents[i]
    <3>1. i \in 1..(File + 1)
      BY <1>1
    <3>2. Contents'[i] = {t \in Tokens : log'[i].toks[t] > 0}
      BY <2>1, <3>1
    <3>3. log'[i] = log[i]
      BY <1>1
    <3> QED
      BY <2>2, <3>2, <3>3
  <2> HIDE DEF T
  <2>5. Len(Contents') = Len(Contents) + 1 /\ Contents'[Len(Contents) + 1] = T
    BY <2>1, <2>2, <2>3
  <2> QED
    BY <1>1, <2>1, <2>2, <2>4, <2>5
<1>3. Store!Latest = File
  BY <1>0, ContentsSeq DEF Store!Latest, TypeOK
<1>4. Store!May(h)
  <2>1. CASE digest[h] = NoDigest
    <3>1. pc[h] \notin Window
      BY DEF Commit, Window
    <3>2. base[h] = 0
      BY <2>1, <3>1 DEF StaleInv, NoDigestInv
    <3> QED
      BY <3>2 DEF Store!May
  <2>2. CASE flock /\ File > 0 /\ digest[h] = File
    <3>1. base[h] = File \/ overtaken[h]
      BY <2>2, <1>0, <1>1 DEF StaleInv, DigestIsOwn, TypeOK
    <3> QED
      BY <3>1, <1>3 DEF Store!May
  <2>3. CASE File = 0
    <3>1. base[h] = 0
      BY <2>3, <1>0 DEF TypeOK
    <3> QED
      BY <3>1 DEF Store!May
  <2>4. CASE ~flock
    BY <2>4 DEF Store!May
  <2>5. flock /\ File > 0 => Unchanged(h)
    BY DEF Commit, StaleInv, CheckStillHolds
  <2> QED
    BY <2>1, <2>2, <2>3, <2>4, <2>5, <1>1 DEF Unchanged
<1>5. T \cap Invalid = IF base[h] = 0 THEN {} ELSE Contents[base[h]] \cap Invalid
  <2> DEFINE Opaque(c) == {t \in Tokens : c[t] > 0} \cap Invalid
  <2>1. Opaque(Written(h).toks) = Opaque(quarantined[h])
    <3>1. candidate[h] \cap Invalid = {}
      BY DEF TokensInv, ValidInv
    <3>2. \A t \in Tokens \cap Invalid : Written(h).toks[t] = quarantined[h][t]
      BY <3>1, <1>0 DEF Written, Merge, TypeOK, Copies
    <3> QED
      BY <3>2
  <2>2. quarantined[h] =
          IF base[h] = 0 THEN Nothing ELSE SetAside(log[base[h]].toks)
    BY DEF TokensInv, AsideInv
  <2>4. Opaque(Nothing) = {} /\ \A c : Opaque(SetAside(c)) = Opaque(c)
    BY DEF Nothing, SetAside
  <2>3. base[h] # 0 =>
          Contents[base[h]] = {t \in Tokens : log[base[h]].toks[t] > 0}
    <3>1. base[h] \in 0..File
      BY <1>0 DEF TypeOK
    <3>2. base[h] # 0 => base[h] \in 1..File
      BY <3>1, <1>1
    <3> QED
      BY <3>2, <1>0, ContentsSeq DEF TypeOK
  <2>5. CASE base[h] = 0
    BY <2>1, <2>2, <2>4, <2>5
  <2>6. CASE base[h] # 0
    BY <2>1, <2>2, <2>3, <2>4, <2>6
  <2> QED
    BY <2>5, <2>6
<1>6. {g \in Handles : pc[g] \in Window}' = {g \in Handles : pc[g] \in Window} \cup {h}
  BY <1>0 DEF Commit, Goto, Window, TypeOK
<1>7. {g \in Handles : overtaken[g]}'
        = ({g \in Handles : overtaken[g]} \cup {g \in Handles : pc[g] \in Window}) \ {h}
  BY <1>0 DEF Commit, TypeOK
<1> HIDE DEF T
<1>8. Store!Commit(h, T)
  BY <1>1, <1>2, <1>3, <1>4, <1>5, <1>6, <1>7 DEF Store!Commit
<1> QED
  BY <1>1, <1>8 DEF Store!Commit

\* Every step is a step of the abstract store or changes nothing of it.
LEMMA StoreStep ==
  ASSUME StaleInv, TokensInv, TypeOK', [Next]_vars
  PROVE  [Store!Next]_(Store!vars)
<1> USE DEF Goto, disk, ghosts
<1>0. TypeOK
  BY DEF StaleInv
<1>w. Window = {"renamed", "unlocked"} /\ Window \subseteq Points
      /\ {"idle", "locking"} \subseteq Points
  BY DEF Window, Points, Saving, Critical
<1>d. ASSUME NEW h \in Handles, Discard(h) PROVE Store!Next
  BY <1>0, <1>d, StoreForgets DEF Store!Next
\* A step of h that neither enters nor leaves the window.
<1>q. ASSUME NEW h \in Handles, NEW p \in Points, pc' = [pc EXCEPT ![h] = p],
             pc[h] \in Window <=> p \in Window,
             UNCHANGED <<flock, log, base, overtaken>>
      PROVE  UNCHANGED Store!vars
  BY <1>0, <1>q, StoreStutters DEF TypeOK
<1>a. ASSUME NEW h \in Handles, Abort(h), pc[h] \notin Window
      PROVE  [Store!Next]_(Store!vars)
  BY <1>a, <1>d, <1>q, <1>w DEF Abort
<1>1. ASSUME NEW h \in Handles, Load(h) PROVE [Store!Next]_(Store!vars)
  <2>1. CASE OpenVersion(h)
    BY <2>1, <1>q, <1>w DEF OpenVersion, Points
  <2>2. CASE OpenCurrent(h)
    BY <2>2, <1>0, <1>w, StoreReads DEF OpenCurrent, Store!Next
  <2>3. CASE OpenLegacy(h)
    BY <2>3, <1>0, <1>w, StoreReads DEF OpenLegacy, Store!Next
  <2>4. CASE OpenFails(h)
    BY <2>4, <1>d DEF OpenFails
  <2> QED
    BY <1>1, <2>1, <2>2, <2>3, <2>4 DEF Load
<1>2. ASSUME NEW h \in Handles, Begin(h) PROVE UNCHANGED Store!vars
  <2>1. CASE Update(h)
    BY <2>1, <1>q, <1>w DEF Update
  <2>2. CASE EditRefused(h)
    BY <2>2, StoreStutters DEF EditRefused
  <2>3. CASE Create(h)
    BY <2>3, <1>q, <1>w DEF Create
  <2>4. ASSUME NEW t \in Tokens, Edit(h, t) PROVE UNCHANGED Store!vars
    BY <2>4, StoreStutters DEF Edit
  <2>5. ASSUME NEW t \in Tokens, Transaction(h, t) PROVE UNCHANGED Store!vars
    BY <2>5, <1>q, <1>w DEF Transaction
  <2> QED
    BY <1>2, <2>1, <2>2, <2>3, <2>4, <2>5 DEF Begin
<1>s. ASSUME NEW h \in Handles, RecordDigest(h) \/ RecordDigestFails(h)
      PROVE  Store!Next
  <2>1. Contents' = Contents
    BY <1>s DEF Contents, RecordDigest, RecordDigestFails
  <2>2. h \in {g \in Handles : pc[g] \in Window}
    BY <1>s DEF RecordDigest, RecordDigestFails, Window
  <2>3. {g \in Handles : pc[g] \in Window}' = {g \in Handles : pc[g] \in Window} \ {h}
    BY <1>s, <1>0 DEF RecordDigest, RecordDigestFails, Window, TypeOK
  <2>4. {g \in Handles : overtaken[g]}' = {g \in Handles : overtaken[g]}
    BY <1>s DEF RecordDigest, RecordDigestFails
  <2>5. UNCHANGED <<flock, base>>
    BY <1>s DEF RecordDigest, RecordDigestFails
  <2> QED
    BY <2>1, <2>2, <2>3, <2>4, <2>5 DEF Store!Next, Store!Settle
<1>r. ASSUME NEW h \in Handles, Return(h), pc[h] \notin Window,
             UNCHANGED <<flock, log, base, overtaken>>
      PROVE  UNCHANGED Store!vars
  BY <1>r, <1>q, <1>w DEF Return, Points
<1>3. ASSUME NEW h \in Handles, Progress(h) PROVE [Store!Next]_(Store!vars)
  <2>p. {"locked", "checked", "backed", "unlocked", "recorded", "trailing"} \subseteq Points
    BY DEF Points, Saving, Critical
  <2>1. CASE Lock(h)
    BY <2>1, <2>p, <1>q, <1>w DEF Lock
  <2>2. CASE LockTimesOut(h)
    BY <2>2, <1>a, <1>w DEF LockTimesOut
  <2>3. CASE Check(h)
    BY <2>3, <2>p, <1>q, <1>w DEF Check
  <2>4. CASE CheckRefuses(h)
    BY <2>4, <1>a, <1>w DEF CheckRefuses
  <2>5. CASE Backup(h)
    BY <2>5, <2>p, <1>q, <1>w DEF Backup
  <2>6. CASE Commit(h)
    BY <2>6, StoreCommits DEF Store!Next
  <2>7. CASE CommitFails(h)
    BY <2>7, <1>a, <1>w DEF CommitFails
  <2>8. CASE Unlock(h)
    BY <2>8, <2>p, <1>q, <1>w DEF Unlock
  <2>9. CASE RecordDigest(h)
    BY <2>9, <1>s
  <2>10. CASE TrailingOpen(h)
    BY <2>10, <2>p, <1>q, <1>w DEF TrailingOpen
  <2>11. CASE TrailingReplace(h)
    BY <2>11, <1>r, <1>w DEF TrailingReplace
  <2> QED
    BY <1>3, <2>1, <2>2, <2>3, <2>4, <2>5, <2>6, <2>7, <2>8, <2>9, <2>10, <2>11
    DEF Progress
<1>4. ASSUME NEW h \in Handles, Fault(h) PROVE [Store!Next]_(Store!vars)
  <2>1. CASE RecordDigestFails(h)
    BY <2>1, <1>s
  <2>2. CASE TrailingFails(h)
    BY <2>2, <1>r, <1>w DEF TrailingFails
  <2>3. CASE LockFails(h) \/ CheckFails(h) \/ BackupFails(h) \/ CommitFails(h)
    BY <2>3, <1>a, <1>w DEF LockFails, CheckFails, BackupFails, CommitFails
  <2> QED
    BY <1>4, <2>1, <2>2, <2>3 DEF Fault
<1>5. ASSUME NEW h \in Handles, Reload(h) PROVE [Store!Next]_(Store!vars)
  <2>1. CASE Reopen(h)
    BY <2>1, <1>0, <1>w, StoreReads DEF Reopen, Store!Next
  <2>2. CASE ReopenFails(h)
    BY <2>2, <1>d, <1>q, <1>w DEF ReopenFails
  <2> QED
    BY <1>5, <2>1, <2>2 DEF Reload
<1>6. ASSUME NEW h \in Handles, Close(h) \/ Crash(h) PROVE Store!Next
  BY <1>6, <1>d DEF Close, Crash
<1>7. CASE UNCHANGED vars
  BY <1>7, StoreStutters DEF vars
<1> QED
  BY <1>1, <1>2, <1>3, <1>4, <1>5, <1>6, <1>7 DEF Next

\* Every behaviour of loads and saves is one of the versioned store: one history,
\* and a commit only over the version the client read, but for the named cases.
THEOREM Implementation == Spec => ImplementsStore
<1>1. Init /\ TypeOK => Store!Init
  <2> SUFFICES ASSUME Init, TypeOK PROVE Store!Init
    OBVIOUS
  <2>1. \E start \in {<< >>} \cup {<<S>> : S \in SUBSET Tokens} : Contents = start
    <3>1. CASE log = << >>
      BY <3>1 DEF Contents
    <3>2. CASE log # << >>
      <4>1. PICK s \in Seeds, f \in {2, 3} :
              log = <<[toks |-> s, fmt |-> f, base |-> 0, blind |-> TRUE]>>
        BY <3>2 DEF Init
      <4>2. Contents = <<{t \in Tokens : s[t] > 0}>>
        BY <4>1 DEF Contents
      <4> QED
        BY <4>2
    <3> QED
      BY <3>1, <3>2
  <2>2. {h \in Handles : pc[h] \in Window} = {} /\ {h \in Handles : overtaken[h]} = {}
    BY DEF Init, Window
  <2> QED
    BY <2>1, <2>2 DEF Init, Store!Init
<1>2. StaleInv /\ TokensInv /\ TypeOK' /\ [Next]_vars => [Store!Next]_(Store!vars)
  BY StoreStep
<1> QED
  BY <1>1, <1>2, Typing, StaleSafety, TokensSafety, PTL DEF Spec, ImplementsStore, Store!Spec

-----------------------------------------------------------------------------
(* The backup, and the end of a save.                                      *)

\* A handle that compared a file has one to back up, one that has renamed its own has
\* one, and the copy that replaces .bak is of a version.  The file is not enough: at
\* "backed" a database may be there only because the handle itself waits to create it,
\* so that the lock matters as well.
BackupInv ==
  /\ BackupBeforeReplace
  /\ \A h \in Handles :
       /\ pc[h] \in {"checked", "renamed", "unlocked", "recorded"} => File > 0
       /\ pc[h] = "trailing" => copied[h] > 0

\* A handle outside a save makes no call, and one whose save reached Unlock shows its
\* snapshot until it is done.
EndInv ==
  \A h \in Handles :
    /\ pc[h] \in {"closed", "opening", "idle"} => op[h] = "none"
    /\ pc[h] \in {"unlocked", "recorded", "trailing"} => live[h] = committed[h]

\* One handle goes to p, while the database and the calls of the others stay.
LEMMA BackupQuiet ==
  ASSUME TypeOK, BackupInv, NEW h \in Handles, NEW p \in Points,
         pc' = [pc EXCEPT ![h] = p], UNCHANGED <<flock, log>>,
         bak > 0 => bak' > 0,
         p = "backed" /\ File > 0 => bak' > 0,
         p \in {"checked", "renamed", "unlocked", "recorded"} => File > 0,
         p = "trailing" => copied'[h] > 0,
         \A g \in Handles \ {h} : copied'[g] = copied[g]
  PROVE  BackupInv'
<1>1. File' = File
  BY DEF File
<1>2. \A g \in Handles : pc'[g] = IF g = h THEN p ELSE pc[g]
  BY DEF TypeOK
<1>3. BackupBeforeReplace'
  BY <1>1, <1>2 DEF BackupInv, BackupBeforeReplace
<1> QED
  BY <1>1, <1>2, <1>3 DEF BackupInv

\* Nobody waits for what a handle that drops everything had.
LEMMA BackupDiscard ==
  ASSUME TypeOK, BackupInv, NEW h \in Handles, Discard(h)
  PROVE  BackupInv'
<1>1. "closed" \in Points /\ UNCHANGED <<flock, log, bak>>
  BY DEF Points, Discard, disk
<1>2. \A g \in Handles \ {h} : copied'[g] = copied[g]
  BY DEF Discard, TypeOK
<1> QED
  BY <1>1, <1>2, BackupQuiet DEF Discard, Goto

\* A save that gives up leaves the backup as it is.
LEMMA BackupAbort ==
  ASSUME TypeOK, BackupInv, NEW h \in Handles, Abort(h)
  PROVE  BackupInv'
<1>1. CASE Discard(h)
  BY <1>1, BackupDiscard
<1>2. CASE ~Discard(h)
  BY <1>2, BackupQuiet DEF Abort, Goto, Points, disk
<1> QED
  BY <1>1, <1>2

\* The first database of a file that was not there is written by the one holder of the
\* lock: nobody else waits at "backed" for a backup of it.
LEMMA BackupCommit ==
  ASSUME TypeOK, LockInv, BackupInv, NEW h \in Handles, Commit(h)
  PROVE  BackupInv'
<1>1. File' = File + 1 /\ File \in Nat
  BY FileIsNat, WrittenType DEF Commit, File, TypeOK
<1>2. /\ \A g \in Handles : pc'[g] = IF g = h THEN "renamed" ELSE pc[g]
      /\ pc[h] = "backed" /\ UNCHANGED <<flock, bak, copied>>
  BY DEF Commit, Goto, TypeOK
<1>3. BackupBeforeReplace'
  <2> SUFFICES ASSUME flock, NEW g \in Handles, pc'[g] = "backed" PROVE bak > 0
    BY <1>2 DEF BackupBeforeReplace
  <2>1. g # h /\ pc[g] = "backed"
    BY <1>2
  <2>2. holders = {g} /\ holders = {h}
    BY <1>2, <2>1 DEF LockInv, Critical
  <2> QED
    BY <2>1, <2>2
<1> QED
  BY <1>1, <1>2, <1>3 DEF BackupInv

\* Every step keeps a copy of the database that is about to be replaced.
LEMMA BackupNext ==
  ASSUME TypeOK, LockInv, BackupInv, [Next]_vars
  PROVE  BackupInv'
<1> USE DEF Goto, disk, ghosts, memory
<1>p. /\ Points = {"locked", "checked", "backed", "renamed", "locking", "unlocked", "recorded",
                   "trailing", "closed", "opening", "idle", "reopening"}
      /\ File \in Nat
  BY FileIsNat DEF Points, Saving, Critical, TypeOK
<1>1. ASSUME NEW h \in Handles, Load(h) PROVE BackupInv'
  <2>1. CASE OpenVersion(h) \/ OpenCurrent(h) \/ OpenLegacy(h)
    BY <2>1, <1>p, BackupQuiet DEF OpenVersion, OpenCurrent, OpenLegacy
  <2> QED
    BY <1>1, <2>1, BackupDiscard DEF Load, OpenFails
<1>2. ASSUME NEW h \in Handles, Begin(h) PROVE BackupInv'
  <2>1. \/ pc' = [pc EXCEPT ![h] = pc[h]] /\ pc[h] = "idle"
        \/ pc' = [pc EXCEPT ![h] = "locking"]
    BY <1>2 DEF Begin, Update, EditRefused, Create, Edit, Transaction, TypeOK
  <2>2. UNCHANGED <<flock, log, bak, copied>>
    BY <1>2 DEF Begin, Update, EditRefused, Create, Edit, Transaction
  <2> QED
    BY <2>1, <2>2, <1>p, BackupQuiet
<1>3. ASSUME NEW h \in Handles, Progress(h) PROVE BackupInv'
  <2>1. CASE Lock(h)
    BY <2>1, <1>p, BackupQuiet DEF Lock
  <2>2. CASE LockTimesOut(h) \/ CheckRefuses(h) \/ CommitFails(h)
    BY <2>2, BackupAbort DEF LockTimesOut, CheckRefuses, CommitFails
  <2>3. CASE Check(h)
    BY <2>3, <1>p, BackupQuiet DEF Check
  <2>4. CASE Backup(h)
    <3>1. File > 0
      BY <2>4 DEF Backup, BackupInv
    <3> QED
      BY <2>4, <3>1, <1>p, BackupQuiet DEF Backup
  <2>5. CASE Commit(h)
    BY <2>5, BackupCommit
  <2>6. CASE Unlock(h) \/ RecordDigest(h)
    <3>1. File > 0
      BY <2>6 DEF Unlock, RecordDigest, BackupInv
    <3> QED
      BY <2>6, <3>1, <1>p, BackupQuiet DEF Unlock, RecordDigest
  <2>7. CASE TrailingOpen(h)
    <3>1. File > 0
      BY <2>7 DEF TrailingOpen, BackupInv
    <3>2. copied'[h] = File /\ \A g \in Handles \ {h} : copied'[g] = copied[g]
      BY <2>7 DEF TrailingOpen, TypeOK
    <3> QED
      BY <2>7, <3>1, <3>2, <1>p, BackupQuiet DEF TrailingOpen
  <2>8. CASE TrailingReplace(h)
    <3>1. bak' > 0
      BY <2>8 DEF TrailingReplace, BackupInv
    <3>2. \A g \in Handles \ {h} : copied'[g] = copied[g]
      BY <2>8 DEF TrailingReplace, TypeOK
    <3>3. \E p \in {"idle", "reopening"} : pc' = [pc EXCEPT ![h] = p]
      BY <2>8 DEF TrailingReplace, Return
    <3> QED
      BY <2>8, <3>1, <3>2, <3>3, <1>p, BackupQuiet DEF TrailingReplace
  <2> QED
    BY <1>3, <2>1, <2>2, <2>3, <2>4, <2>5, <2>6, <2>7, <2>8 DEF Progress
<1>4. ASSUME NEW h \in Handles, Fault(h) PROVE BackupInv'
  <2>1. CASE LockFails(h) \/ CheckFails(h) \/ BackupFails(h) \/ CommitFails(h)
    BY <2>1, BackupAbort DEF LockFails, CheckFails, BackupFails, CommitFails
  <2>2. CASE RecordDigestFails(h)
    <3>1. File > 0
      BY <2>2 DEF RecordDigestFails, BackupInv
    <3> QED
      BY <2>2, <3>1, <1>p, BackupQuiet DEF RecordDigestFails
  <2>3. CASE TrailingFails(h)
    <3>1. \E p \in {"idle", "reopening"} : pc' = [pc EXCEPT ![h] = p]
      BY <2>3 DEF TrailingFails, Return
    <3> QED
      BY <2>3, <3>1, <1>p, BackupQuiet DEF TrailingFails
  <2> QED
    BY <1>4, <2>1, <2>2, <2>3 DEF Fault
<1>5. ASSUME NEW h \in Handles, Reload(h) PROVE BackupInv'
  <2>1. CASE Reopen(h)
    BY <2>1, <1>p, BackupQuiet DEF Reopen
  <2>2. CASE ReopenFails(h) /\ ~Discard(h)
    BY <2>2, <1>p, BackupQuiet DEF ReopenFails
  <2> QED
    BY <1>5, <2>1, <2>2, BackupDiscard DEF Reload
<1>6. ASSUME NEW h \in Handles, Close(h) \/ Crash(h) PROVE BackupInv'
  BY <1>6, BackupDiscard DEF Close, Crash
<1>7. CASE UNCHANGED vars
  BY <1>7 DEF vars, BackupInv, BackupBeforeReplace, File
<1> QED
  BY <1>1, <1>2, <1>3, <1>4, <1>5, <1>6, <1>7 DEF Next

\* Where locks work, no database is replaced before there is a copy of one, whichever
\* handles save, fail or crash in between.
THEOREM BackedUp == Spec => []BackupBeforeReplace
<1>1. Init /\ TypeOK => BackupInv
  BY DEF Init, BackupInv, BackupBeforeReplace
<1>2. TypeOK /\ LockInv /\ BackupInv /\ [Next]_vars => BackupInv'
  BY BackupNext
<1>3. StaleInv => LockInv
  BY DEF StaleInv
<1>4. BackupInv => BackupBeforeReplace
  BY DEF BackupInv
<1> QED
  BY <1>1, <1>2, <1>3, <1>4, Typing, StaleSafety, PTL DEF Spec

\* One handle goes to p, while what the others hold stays.
LEMMA EndQuiet ==
  ASSUME TypeOK, EndInv, NEW h \in Handles, NEW p \in Points,
         pc' = [pc EXCEPT ![h] = p],
         \A g \in Handles \ {h} :
           op'[g] = op[g] /\ live'[g] = live[g] /\ committed'[g] = committed[g],
         p \in {"closed", "opening", "idle"} => op'[h] = "none",
         p \in {"unlocked", "recorded", "trailing"} => live'[h] = committed'[h]
  PROVE  EndInv'
<1>1. \A g \in Handles : pc'[g] = IF g = h THEN p ELSE pc[g]
  BY DEF TypeOK
<1> QED
  BY <1>1 DEF EndInv

\* A handle that drops everything makes no call any more.
LEMMA EndDiscard ==
  ASSUME TypeOK, EndInv, NEW h \in Handles, Discard(h)
  PROVE  EndInv'
<1>1. "closed" \in Points
  BY DEF Points
<1>2. \A g \in Handles \ {h} :
        op'[g] = op[g] /\ live'[g] = live[g] /\ committed'[g] = committed[g]
  BY DEF Discard, TypeOK
<1>3. op'[h] = "none"
  BY DEF Discard, TypeOK
<1> QED
  BY <1>1, <1>2, <1>3, EndQuiet DEF Discard, Goto

\* Nor does one whose save gave up.
LEMMA EndAbort ==
  ASSUME TypeOK, EndInv, NEW h \in Handles, Abort(h)
  PROVE  EndInv'
<1>1. CASE Discard(h)
  BY <1>1, EndDiscard
<1>2. CASE ~Discard(h)
  <2>1. \A g \in Handles \ {h} :
          op'[g] = op[g] /\ live'[g] = live[g] /\ committed'[g] = committed[g]
    BY <1>2 DEF Abort, TypeOK
  <2>2. op'[h] = "none" /\ "idle" \in Points
    BY <1>2 DEF Abort, TypeOK, Points
  <2> QED
    BY <1>2, <2>1, <2>2, EndQuiet DEF Abort, Goto
<1> QED
  BY <1>1, <1>2

\* Every step leaves a finished call with its snapshot shown.
LEMMA EndNext ==
  ASSUME TypeOK, EndInv, [Next]_vars
  PROVE  EndInv'
<1> USE DEF Goto, disk, ghosts, memory
<1>p. Points = {"locked", "checked", "backed", "renamed", "locking", "unlocked", "recorded",
                "trailing", "closed", "opening", "idle", "reopening"}
  BY DEF Points, Saving, Critical
\* A step that leaves the memory and the call of the handle alone.
<1>m. ASSUME NEW h \in Handles, NEW p \in Points, pc' = [pc EXCEPT ![h] = p],
             UNCHANGED <<op, live, committed>>,
             p \in {"closed", "opening", "idle"} => pc[h] \in {"closed", "opening", "idle"},
             p \in {"unlocked", "recorded", "trailing"} =>
               pc[h] \in {"unlocked", "recorded", "trailing"}
      PROVE  EndInv'
  BY <1>m, EndQuiet DEF EndInv
<1>r. ASSUME NEW h \in Handles, Return(h), UNCHANGED <<live, committed>>
      PROVE  EndInv'
  <2>1. \A g \in Handles \ {h} : op'[g] = op[g]
    BY <1>r DEF Return, TypeOK
  <2>2. \/ pc' = [pc EXCEPT ![h] = "reopening"]
        \/ pc' = [pc EXCEPT ![h] = "idle"] /\ op'[h] = "none"
    BY <1>r DEF Return, TypeOK
  <2> QED
    BY <1>r, <2>1, <2>2, <1>p, EndQuiet
<1>1. ASSUME NEW h \in Handles, Load(h) PROVE EndInv'
  <2>1. CASE OpenVersion(h)
    BY <2>1, <1>m, <1>p DEF OpenVersion
  <2>2. CASE OpenCurrent(h)
    <3>1. \A g \in Handles \ {h} : live'[g] = live[g] /\ committed'[g] = committed[g]
      BY <2>2 DEF OpenCurrent, TakeFile, TypeOK
    <3>2. op'[h] = "none"
      BY <2>2 DEF OpenCurrent, EndInv
    <3> QED
      BY <2>2, <3>1, <3>2, <1>p, EndQuiet DEF OpenCurrent
  <2>3. CASE OpenLegacy(h)
    <3>1. \A g \in Handles \ {h} : op'[g] = op[g] /\ live'[g] = live[g] /\ committed'[g] = committed[g]
      BY <2>3 DEF OpenLegacy, TakeFile, TypeOK
    <3> QED
      BY <2>3, <3>1, <1>p, EndQuiet DEF OpenLegacy
  <2> QED
    BY <1>1, <2>1, <2>2, <2>3, EndDiscard DEF Load, OpenFails
<1>2. ASSUME NEW h \in Handles, Begin(h) PROVE EndInv'
  <2>1. CASE Update(h) \/ Create(h) \/ \E t \in Tokens : Transaction(h, t)
    <3>1. \A g \in Handles \ {h} : op'[g] = op[g] /\ live'[g] = live[g] /\ committed'[g] = committed[g]
      BY <2>1 DEF Update, Create, Transaction, TypeOK
    <3>2. pc' = [pc EXCEPT ![h] = "locking"]
      BY <2>1 DEF Update, Create, Transaction
    <3> QED
      BY <3>1, <3>2, <1>p, EndQuiet
  <2>2. CASE EditRefused(h) \/ \E t \in Tokens : Edit(h, t)
    <3>1. /\ pc[h] = "idle" /\ UNCHANGED <<pc, op, committed>>
          /\ \A g \in Handles \ {h} : live'[g] = live[g]
      BY <2>2 DEF EditRefused, Edit, TypeOK
    <3>2. pc' = [pc EXCEPT ![h] = "idle"] /\ op'[h] = "none"
      BY <3>1 DEF EndInv, TypeOK
    <3> QED
      BY <3>1, <3>2, <1>p, EndQuiet
  <2> QED
    BY <1>2, <2>1, <2>2 DEF Begin
<1>3. ASSUME NEW h \in Handles, Progress(h) PROVE EndInv'
  <2>1. CASE Lock(h) \/ Check(h) \/ Backup(h) \/ Commit(h)
    <3>1. \E p \in {"locked", "checked", "backed", "renamed"} : pc' = [pc EXCEPT ![h] = p]
      BY <2>1 DEF Lock, Check, Backup, Commit
    <3>2. UNCHANGED <<op, live, committed>>
      BY <2>1 DEF Lock, Check, Backup, Commit
    <3> QED
      BY <3>1, <3>2, <1>m, <1>p
  <2>2. CASE LockTimesOut(h) \/ CheckRefuses(h) \/ CommitFails(h)
    BY <2>2, EndAbort DEF LockTimesOut, CheckRefuses, CommitFails
  <2>3. CASE Unlock(h)
    <3>1. \A g \in Handles \ {h} : live'[g] = live[g] /\ committed'[g] = committed[g]
      BY <2>3 DEF Unlock, TypeOK
    <3>2. live'[h] = committed'[h] /\ UNCHANGED op
      BY <2>3 DEF Unlock, TypeOK
    <3> QED
      BY <2>3, <3>1, <3>2, <1>p, EndQuiet DEF Unlock
  <2>4. CASE RecordDigest(h) \/ TrailingOpen(h)
    BY <2>4, <1>m, <1>p DEF RecordDigest, TrailingOpen
  <2>5. CASE TrailingReplace(h)
    BY <2>5, <1>r DEF TrailingReplace
  <2> QED
    BY <1>3, <2>1, <2>2, <2>3, <2>4, <2>5 DEF Progress
<1>4. ASSUME NEW h \in Handles, Fault(h) PROVE EndInv'
  <2>1. CASE LockFails(h) \/ CheckFails(h) \/ BackupFails(h) \/ CommitFails(h)
    BY <2>1, EndAbort DEF LockFails, CheckFails, BackupFails, CommitFails
  <2>2. CASE RecordDigestFails(h)
    BY <2>2, <1>m, <1>p DEF RecordDigestFails
  <2>3. CASE TrailingFails(h)
    BY <2>3, <1>r DEF TrailingFails
  <2> QED
    BY <1>4, <2>1, <2>2, <2>3 DEF Fault
<1>5. ASSUME NEW h \in Handles, Reload(h) PROVE EndInv'
  <2>1. CASE Reopen(h) \/ (ReopenFails(h) /\ ~Discard(h))
    <3>1. \A g \in Handles \ {h} : op'[g] = op[g] /\ live'[g] = live[g] /\ committed'[g] = committed[g]
      BY <2>1 DEF Reopen, ReopenFails, TakeFile, TypeOK
    <3>2. op'[h] = "none" /\ pc' = [pc EXCEPT ![h] = "idle"]
      BY <2>1 DEF Reopen, ReopenFails, TypeOK
    <3> QED
      BY <3>1, <3>2, <1>p, EndQuiet
  <2> QED
    BY <1>5, <2>1, EndDiscard DEF Reload
<1>6. ASSUME NEW h \in Handles, Close(h) \/ Crash(h) PROVE EndInv'
  BY <1>6, EndDiscard DEF Close, Crash
<1>7. CASE UNCHANGED vars
  BY <1>7 DEF vars, EndInv
<1> QED
  BY <1>1, <1>2, <1>3, <1>4, <1>5, <1>6, <1>7 DEF Next

\* However an update_db ends, memory shows what a version on disk holds: after every
\* failure the snapshot, after a success the candidate that became it.
THEOREM EndsCommitted == Spec => UpdateEndsCommitted
<1>1. Init => EndInv
  BY DEF Init, EndInv
<1>2. TypeOK /\ EndInv /\ [Next]_vars => EndInv'
  BY EndNext
<1>3. TypeOK /\ TypeOK' /\ EndInv /\ [Next]_vars =>
        [\A h \in Handles :
           op[h] = "update" /\ pc'[h] = "idle" => live'[h] = committed'[h]]_vars
  <2> SUFFICES ASSUME TypeOK, TypeOK', EndInv, Next, NEW h \in Handles,
                      op[h] = "update", pc'[h] = "idle"
               PROVE  live'[h] = committed'[h]
    BY Zenon
  <2>1. pc[h] \notin {"closed", "opening", "idle"}
    BY DEF EndInv
  <2>2. PICK g \in Handles : \/ Load(g) \/ Begin(g) \/ Progress(g) \/ Fault(g)
                             \/ Reload(g) \/ Close(g) \/ Crash(g)
    BY DEF Next
  <2>3. ~Discard(g)
    BY <2>1 DEF Discard, Goto, TypeOK
  <2>4. CASE Abort(g)
    <3>1. /\ pc' = [pc EXCEPT ![g] = "idle"] /\ UNCHANGED committed
          /\ live' = IF op[g] = "update" THEN [live EXCEPT ![g] = committed[g]] ELSE live
      BY <2>3, <2>4 DEF Abort, Goto
    <3>2. g = h
      BY <2>1, <3>1 DEF TypeOK
    <3> QED
      BY <3>1, <3>2 DEF TypeOK
  <2>5. CASE TrailingReplace(g) \/ TrailingFails(g)
    <3>1. /\ pc[g] \in {"recorded", "trailing"} /\ UNCHANGED <<live, committed>>
          /\ \E p \in Points : pc' = [pc EXCEPT ![g] = p]
      BY <2>5 DEF TrailingReplace, TrailingFails, Return, Goto, memory, Points
    <3>2. g = h
      BY <2>1, <3>1 DEF TypeOK
    <3> QED
      BY <3>1, <3>2 DEF EndInv
  \* Every other step leads elsewhere, or starts where no update is under way.
  <2>6. ASSUME NEW p, pc' = [pc EXCEPT ![g] = p], p # "idle" PROVE FALSE
    BY <2>1, <2>6 DEF TypeOK
  <2>7. ASSUME pc[g] \in {"closed", "opening", "idle", "reopening"},
               NEW p, pc' = [pc EXCEPT ![g] = p]
        PROVE  pc[g] = "reopening" /\ g = h
    BY <2>1, <2>7 DEF TypeOK
  <2>8. ~Load(g)
    BY <2>3, <2>6, <2>7 DEF Load, OpenVersion, OpenCurrent, OpenLegacy, OpenFails, Goto
  <2>9. ~Begin(g)
    <3>1. ~Update(g) /\ ~Create(g) /\ \A t \in Tokens : ~Transaction(g, t)
      BY <2>6 DEF Update, Create, Transaction, Goto
    <3>2. ~EditRefused(g) /\ \A t \in Tokens : ~Edit(g, t)
      BY <2>1 DEF EditRefused, Edit
    <3> QED
      BY <3>1, <3>2 DEF Begin
  <2>10. CASE Progress(g) /\ ~Abort(g) /\ ~TrailingReplace(g)
    BY <2>6, <2>10 DEF Progress, Lock, LockTimesOut, Check, CheckRefuses, Backup, Commit,
       CommitFails, Unlock, RecordDigest, TrailingOpen, Goto
  <2>11. CASE Fault(g) /\ ~Abort(g) /\ ~TrailingFails(g)
    BY <2>6, <2>11 DEF Fault, LockFails, CheckFails, BackupFails, CommitFails,
       RecordDigestFails, Goto
  <2>12. CASE Reload(g)
    <3>1. CASE Reopen(g)
      <4>1. g = h
        BY <2>7, <3>1 DEF Reopen, Goto
      <4> QED
        BY <3>1, <4>1 DEF Reopen, TypeOK
    <3>2. CASE ReopenFails(g)
      <4>1. op[g] = "create" /\ pc[g] = "reopening" /\ pc' = [pc EXCEPT ![g] = "idle"]
        BY <2>3, <3>2 DEF ReopenFails, Goto
      <4>2. g = h
        BY <2>7, <4>1
      <4> QED
        BY <4>1, <4>2
    <3> QED
      BY <2>12, <3>1, <3>2 DEF Reload
  <2> QED
    BY <2>2, <2>3, <2>4, <2>5, <2>8, <2>9, <2>10, <2>11, <2>12 DEF Close, Crash
<1> QED
  BY <1>1, <1>2, <1>3, Typing, PTL DEF Spec, UpdateEndsCommitted
=============================================================================
