------------------------ MODULE UnlockSessionProofs ------------------------
(***************************************************************************)
(* What a lock leaves in memory, for any sidebar and any number of         *)
(* workers, lookups and dialogs at once.  That a locked window holds       *)
(* nothing once no worker runs is not inductive: while one runs, a         *)
(* database may be loaded under a locked window.  The invariant says who   *)
(* will clear it away: a worker whose answer is stale, which purges, or    *)
(* one that has succeeded, which opens the lock.                           *)
(***************************************************************************)
EXTENDS UnlockSession, SequenceFacts

DbType == {NoDb} \cup [path : Paths, key : {NoKey} \cup Keys, loaded : BOOLEAN]
Worker == [attached : BOOLEAN, fresh : BOOLEAN, key : Keys,
           result : {"running", "ok", "badtag", "missing", "other"}]
Lookup == [fresh : BOOLEAN]
Kind == {"unlock", "decrypt", "open"}
Pages == {"locked", "no-db", "loading", "list", "empty"}

\* The values of the variables, with the queues as sequences.
Shape ==
  /\ db \in DbType
  /\ workers \in Seq(Worker)
  /\ lookups \in Seq(Lookup)
  /\ dialogs \in Seq(Kind)
  /\ Len(dialogs) + Len(workers) + Len(lookups) <= MaxPending
  /\ storing \subseteq BOOLEAN
  /\ unlocking \in BOOLEAN /\ locked \in BOOLEAN /\ migrating \in BOOLEAN
  /\ secret \in BOOLEAN /\ legacy \in BOOLEAN /\ choosing \in BOOLEAN
  /\ listed \in BOOLEAN /\ asked \in BOOLEAN
  /\ missing \subseteq Paths /\ selected \in Paths
  /\ page \in Pages

\* Is there a worker that will purge what it loaded, or that opens the lock?
Settled(ws) == \E i \in DOMAIN ws : ~ws[i].fresh \/ ws[i].result = "ok"

\* Is there a call that no lock request has overtaken?
AnyFresh(cs) == \E i \in DOMAIN cs : cs[i].fresh

\* What is in memory under a lock.
LockKept ==
  /\ locked => ~listed
  /\ page = "list" => ~locked /\ listed
  /\ unlocking => workers # << >>
  /\ locked /\ db.loaded => Settled(workers)
  /\ locked /\ db.key # NoKey => workers # << >>

\* Every call that no lock request has overtaken was asked for.
AskedFor == AnyFresh(workers) \/ AnyFresh(lookups) => asked

\* Is there a worker that works on db_data itself?
AnyAttached(ws) == \E i \in DOMAIN ws : ws[i].attached

\* There is a database under a worker that works on db_data.
Owned == AnyAttached(workers) => db # NoDb

Inv == Shape /\ LockKept /\ AskedFor /\ Owned

-----------------------------------------------------------------------------
(* The operators.                                                          *)

\* The purge leaves neither key nor tokens, and no other database.
LEMMA PurgedEmpty ==
  db \in DbType => /\ Purged \in DbType /\ ~Purged.loaded /\ Purged.key = NoKey
                   /\ db # NoDb => Purged # NoDb
  BY SidebarAssumption DEF DbType, Purged, Closed, NoDb, NoKey

\* A new database, before its password is known.
LEMMA ClosedEmpty ==
  ASSUME NEW p \in Paths
  PROVE  Closed(p) \in DbType /\ ~Closed(p).loaded /\ Closed(p).key = NoKey /\ Closed(p) # NoDb
  BY SidebarAssumption DEF DbType, Closed, NoKey, NoDb

\* The list is the page of an unlocked window with tokens.
LEMMA PageShown ==
  ASSUME NEW l \in BOOLEAN, NEW d, NEW tokens \in BOOLEAN
  PROVE  PageOf(l, d, tokens) \in Pages /\ (PageOf(l, d, tokens) = "list" => ~l /\ tokens)
<1>1. CASE l
  BY <1>1 DEF PageOf, Pages
<1>2. CASE ~l /\ d = NoDb
  BY <1>2 DEF PageOf, Pages
<1>3. CASE ~l /\ d # NoDb /\ ~d.loaded
  BY <1>3 DEF PageOf, Pages
<1>4. CASE ~l /\ d # NoDb /\ d.loaded
  <2>1. PageOf(l, d, tokens) = IF tokens THEN "list" ELSE "empty"
    BY <1>4 DEF PageOf
  <2> QED
    BY <1>4, <2>1 DEF Pages
<1> QED
  BY <1>1, <1>2, <1>3, <1>4

\* A lock request leaves no call fresh.
LEMMA StaleWorkers ==
  ASSUME NEW ws \in Seq(Worker)
  PROVE  /\ Stale(ws) \in Seq(Worker) /\ Len(Stale(ws)) = Len(ws)
         /\ ~AnyFresh(Stale(ws))
         /\ AnyAttached(Stale(ws)) => AnyAttached(ws)
         /\ ws # << >> => Settled(Stale(ws)) /\ Stale(ws) # << >>
<1>1. DOMAIN ws = 1..Len(ws) /\ Len(ws) \in Nat /\ \A i \in 1..Len(ws) : ws[i] \in Worker
  BY LenProperties, ElementOfSeq
<1>2. \A i \in DOMAIN ws : [ws[i] EXCEPT !.fresh = FALSE] \in Worker
  BY <1>1 DEF Worker
<1>3. Stale(ws) \in [DOMAIN ws -> Worker]
  BY <1>2 DEF Stale
<1>4. Stale(ws) \in Seq(Worker) /\ Len(Stale(ws)) = Len(ws) /\ DOMAIN Stale(ws) = 1..Len(ws)
  BY <1>3, MapSeq
<1>5. \A i \in 1..Len(ws) : ~Stale(ws)[i].fresh /\ Stale(ws)[i].attached = ws[i].attached
  BY <1>1 DEF Stale, Worker
<1>6. ws # << >> => Len(ws) >= 1
  BY NonEmptySeq
<1>7. Stale(ws) # << >> <=> Len(Stale(ws)) >= 1
  BY <1>4, NonEmptySeq
<1>8. ws # << >> => 1 \in 1..Len(ws)
  BY <1>1, <1>6
<1> QED
  BY <1>1, <1>4, <1>5, <1>6, <1>7, <1>8 DEF AnyFresh, AnyAttached, Settled

\* A lock request overtakes every lookup.
LEMMA StaleLookups ==
  ASSUME NEW cs \in Seq(Lookup)
  PROVE  Stale(cs) \in Seq(Lookup) /\ Len(Stale(cs)) = Len(cs) /\ ~AnyFresh(Stale(cs))
<1>1. DOMAIN cs = 1..Len(cs) /\ \A i \in 1..Len(cs) : cs[i] \in Lookup
  BY LenProperties, ElementOfSeq
<1>2. \A i \in DOMAIN cs : [cs[i] EXCEPT !.fresh = FALSE] \in Lookup
  BY <1>1 DEF Lookup
<1>3. Stale(cs) \in [DOMAIN cs -> Lookup]
  BY <1>2 DEF Stale
<1>4. Stale(cs) \in Seq(Lookup) /\ Len(Stale(cs)) = Len(cs) /\ DOMAIN Stale(cs) = 1..Len(cs)
  BY <1>3, MapSeq
<1>5. \A i \in 1..Len(cs) : ~Stale(cs)[i].fresh
  BY <1>1 DEF Stale, Lookup
<1> QED
  BY <1>4, <1>5 DEF AnyFresh

\* A worker whose database is gone still answers as before.
LEMMA DetachedWorkers ==
  ASSUME NEW ws \in Seq(Worker)
  PROVE  /\ Detached(ws) \in Seq(Worker) /\ Len(Detached(ws)) = Len(ws)
         /\ AnyFresh(Detached(ws)) => AnyFresh(ws)
         /\ ~AnyAttached(Detached(ws))
         /\ Settled(ws) => Settled(Detached(ws))
         /\ ws # << >> => Detached(ws) # << >>
<1>1. DOMAIN ws = 1..Len(ws) /\ Len(ws) \in Nat /\ \A i \in 1..Len(ws) : ws[i] \in Worker
  BY LenProperties, ElementOfSeq
<1>2. \A i \in DOMAIN ws : [ws[i] EXCEPT !.attached = FALSE] \in Worker
  BY <1>1 DEF Worker
<1>3. Detached(ws) \in [DOMAIN ws -> Worker]
  BY <1>2 DEF Detached
<1>4. Detached(ws) \in Seq(Worker) /\ Len(Detached(ws)) = Len(ws) /\ DOMAIN Detached(ws) = 1..Len(ws)
  BY <1>3, MapSeq
<1>5. \A i \in 1..Len(ws) : /\ Detached(ws)[i].fresh = ws[i].fresh
                            /\ Detached(ws)[i].result = ws[i].result
                            /\ ~Detached(ws)[i].attached
  BY <1>1 DEF Detached, Worker
<1>6. ws # << >> => Len(ws) >= 1
  BY NonEmptySeq
<1>7. Detached(ws) # << >> <=> Len(Detached(ws)) >= 1
  BY <1>4, NonEmptySeq
<1> QED
  BY <1>1, <1>4, <1>5, <1>6, <1>7 DEF AnyFresh, AnyAttached, Settled

\* A worker that has answered is taken out of the queue.
LEMMA AnsweredWorker ==
  ASSUME NEW ws \in Seq(Worker), NEW i \in DOMAIN ws
  PROVE  /\ RemoveAt(ws, i) \in Seq(Worker) /\ Len(RemoveAt(ws, i)) = Len(ws) - 1
         /\ AnyFresh(RemoveAt(ws, i)) => AnyFresh(ws)
         /\ AnyAttached(RemoveAt(ws, i)) => AnyAttached(ws)
         /\ ws[i].fresh /\ ws[i].result # "ok" /\ Settled(ws) => Settled(RemoveAt(ws, i))
<1>1. RemoveAt(ws, i) \in Seq(Worker) /\ Len(RemoveAt(ws, i)) = Len(ws) - 1
  BY RemoveAtSeq
<1>2. /\ \A j \in DOMAIN ws \ {i} :
           \E k \in DOMAIN RemoveAt(ws, i) : RemoveAt(ws, i)[k] = ws[j]
      /\ \A k \in DOMAIN RemoveAt(ws, i) :
           \E j \in DOMAIN ws \ {i} : RemoveAt(ws, i)[k] = ws[j]
  BY RemoveAtKeeps
<1> QED
  BY <1>1, <1>2 DEF AnyFresh, AnyAttached, Settled

\* A lookup that is answered leaves the others as they are.
LEMMA AnsweredLookup ==
  ASSUME NEW cs \in Seq(Lookup), NEW i \in DOMAIN cs
  PROVE  /\ RemoveAt(cs, i) \in Seq(Lookup) /\ Len(RemoveAt(cs, i)) = Len(cs) - 1
         /\ AnyFresh(RemoveAt(cs, i)) => AnyFresh(cs)
<1>1. RemoveAt(cs, i) \in Seq(Lookup) /\ Len(RemoveAt(cs, i)) = Len(cs) - 1
  BY RemoveAtSeq
<1>2. \A k \in DOMAIN RemoveAt(cs, i) : \E j \in DOMAIN cs \ {i} : RemoveAt(cs, i)[k] = cs[j]
  BY RemoveAtKeeps
<1> QED
  BY <1>1, <1>2 DEF AnyFresh

\* A worker or a lookup that starts is fresh; a worker that was there stays.
LEMMA StartedWorker ==
  ASSUME NEW ws \in Seq(Worker), NEW w \in Worker
  PROVE  /\ Append(ws, w) \in Seq(Worker) /\ Len(Append(ws, w)) = Len(ws) + 1
         /\ Append(ws, w) # << >>
         /\ Settled(ws) => Settled(Append(ws, w))
<1>1. /\ Append(ws, w) \in Seq(Worker) /\ Append(ws, w) # << >>
      /\ Len(Append(ws, w)) = Len(ws) + 1
      /\ \A i \in 1..Len(ws) : Append(ws, w)[i] = ws[i]
  BY AppendProperties
<1>2. DOMAIN ws = 1..Len(ws) /\ Len(ws) \in Nat /\ DOMAIN Append(ws, w) = 1..(Len(ws) + 1)
  BY <1>1, LenProperties
<1> QED
  BY <1>1, <1>2 DEF Settled

\* A dialog presented and one closed.
LEMMA Presented ==
  ASSUME NEW ds \in Seq(Kind), NEW kind \in Kind
  PROVE  <<kind>> \o ds \in Seq(Kind) /\ Len(<<kind>> \o ds) = Len(ds) + 1
  BY ConsSeq

\* The dialog on top is closed.
LEMMA ClosedDialog ==
  ASSUME NEW ds \in Seq(Kind), ds # << >>
  PROVE  Tail(ds) \in Seq(Kind) /\ Len(Tail(ds)) = Len(ds) - 1
  BY HeadTailProperties

\* The lengths of the three queues.
LEMMA Lengths ==
  Shape => Len(dialogs) \in Nat /\ Len(workers) \in Nat /\ Len(lookups) \in Nat /\ MaxPending \in Nat
<1> SUFFICES ASSUME Shape PROVE Len(dialogs) \in Nat /\ Len(workers) \in Nat /\ Len(lookups) \in Nat
  BY PendingAssumption
<1> QED
  BY LenProperties DEF Shape

\* What starting a worker does to the database and to the queue.
LEMMA Starting ==
  ASSUME Inv, NEW key \in Keys, StartUnlock(key)
  PROVE  /\ db' \in DbType /\ db'.loaded = db.loaded /\ db' # NoDb
         /\ workers' \in Seq(Worker) /\ Len(workers') = Len(workers) + 1
         /\ workers' # << >> /\ (Settled(workers) => Settled(workers'))
         /\ page' = "loading" /\ unlocking' = TRUE
<1>1. db \in DbType /\ workers \in Seq(Worker) /\ db # NoDb
  BY DEF Inv, Shape, StartUnlock
<1>2. db' \in DbType /\ db'.loaded = db.loaded /\ db' # NoDb
  BY <1>1, SidebarAssumption DEF StartUnlock, DbType, NoDb
<1> DEFINE w == [attached |-> TRUE, fresh |-> TRUE, key |-> key, result |-> "running"]
<1>3. w \in Worker /\ workers' = Append(workers, w)
  BY DEF Worker, StartUnlock
<1> HIDE DEF w
<1>4. /\ workers' \in Seq(Worker) /\ Len(workers') = Len(workers) + 1
      /\ workers' # << >> /\ (Settled(workers) => Settled(workers'))
  BY <1>1, <1>3, StartedWorker
<1> QED
  BY <1>2, <1>4 DEF StartUnlock

\* The session starts with nothing in memory.
LEMMA InitInv == Init => Inv
<1> SUFFICES ASSUME Init PROVE Inv
  OBVIOUS
<1>1. << >> \in Seq(Worker) /\ << >> \in Seq(Lookup) /\ << >> \in Seq(Kind) /\ Len(<< >>) = 0
  OBVIOUS
<1>2. <<[fresh |-> TRUE]>> \in Seq(Lookup) /\ Len(<<[fresh |-> TRUE]>>) = 1
  BY DEF Lookup
<1>3. <<"decrypt">> \in Seq(Kind) /\ Len(<<"decrypt">>) = 1
  BY DEF Kind
<1>4. MaxPending \in Nat /\ MaxPending >= 1 /\ Primary \in Paths
  BY PendingAssumption, SidebarAssumption
<1>5. /\ db \in DbType /\ ~db.loaded /\ missing \subseteq Paths
      /\ lookups \in Seq(Lookup) /\ dialogs \in Seq(Kind) /\ Len(dialogs) + Len(lookups) <= 1
      /\ AnyFresh(lookups) => lookups # << >>
  <2>1. CASE db = Closed(Primary) /\ missing = {} /\ secret
               /\ lookups = <<[fresh |-> TRUE]>> /\ dialogs = << >>
    BY <1>1, <1>2, <1>4, <2>1, ClosedEmpty
  <2>2. CASE db = Closed(Primary) /\ missing = {} /\ ~secret
               /\ lookups = << >> /\ dialogs = <<"decrypt">>
    BY <1>1, <1>3, <1>4, <2>2, ClosedEmpty DEF AnyFresh
  <2>3. CASE db = NoDb /\ missing = {Primary} /\ lookups = << >> /\ dialogs = << >>
    BY <1>1, <1>4, <2>3 DEF AnyFresh, DbType, NoDb
  <2> QED
    BY <2>1, <2>2, <2>3 DEF Init
<1>6. Len(dialogs) \in Nat /\ Len(lookups) \in Nat
  BY <1>5, LenProperties
<1>7. Shape
  <2>1. asked \in BOOLEAN
    BY Zenon DEF Init
  <2>2. /\ db \in DbType /\ lookups \in Seq(Lookup) /\ dialogs \in Seq(Kind)
        /\ workers \in Seq(Worker)
        /\ Len(dialogs) + Len(workers) + Len(lookups) <= MaxPending
    BY <1>1, <1>4, <1>5, <1>6 DEF Init
  <2> QED
    BY <1>4, <1>5, <2>1, <2>2 DEF Init, Shape, Pages
<1>8. LockKept
  BY DEF Init, LockKept
<1>9. AskedFor
  BY <1>5 DEF Init, AskedFor, AnyFresh
<1>10. Owned
  BY DEF Init, Owned, AnyAttached
<1> QED
  BY <1>7, <1>8, <1>9, <1>10 DEF Inv

-----------------------------------------------------------------------------
(* The steps.                                                              *)

\* A lock request: every call becomes stale, and where no unlock runs the secrets go.
LEMMA EnteringLock ==
  ASSUME Inv, EnterLocked, UNCHANGED unlocking
  PROVE  /\ db' \in DbType
         /\ workers' \in Seq(Worker) /\ Len(workers') = Len(workers)
         /\ lookups' \in Seq(Lookup) /\ Len(lookups') = Len(lookups)
         /\ locked' = TRUE /\ choosing' \in BOOLEAN /\ asked' = FALSE
         /\ listed' = FALSE /\ page' \in Pages
         /\ LockKept' /\ AskedFor' /\ Owned'
<1>1. /\ db \in DbType /\ workers \in Seq(Worker) /\ lookups \in Seq(Lookup)
      /\ unlocking => workers # << >>
      /\ choosing \in BOOLEAN /\ page \in Pages /\ locked \in BOOLEAN
      /\ locked => listed = FALSE
      /\ page = "list" => ~locked
  BY DEF Inv, Shape, LockKept
<1>2. PurgeSecrets /\ asked' = FALSE
  BY DEF EnterLocked
<1>3. /\ locked' = TRUE /\ choosing' \in BOOLEAN /\ listed' = FALSE
      /\ page' \in Pages /\ page' # "list"
  BY <1>1 DEF EnterLocked, Pages
<1>4. /\ workers' \in Seq(Worker) /\ Len(workers') = Len(workers) /\ ~AnyFresh(workers')
      /\ workers # << >> => Settled(workers') /\ workers' # << >>
      /\ AnyAttached(workers') => AnyAttached(workers)
  BY <1>1, <1>2, StaleWorkers DEF PurgeSecrets
<1>5. lookups' \in Seq(Lookup) /\ Len(lookups') = Len(lookups) /\ ~AnyFresh(lookups')
  BY <1>1, <1>2, StaleLookups DEF PurgeSecrets
<1>6. db' \in DbType /\ (~unlocking => ~db'.loaded /\ db'.key = NoKey) /\ (db # NoDb => db' # NoDb)
  BY <1>1, <1>2, PurgedEmpty DEF PurgeSecrets
<1>7. LockKept'
  BY <1>1, <1>3, <1>4, <1>6 DEF LockKept
<1>8. AskedFor'
  BY <1>4, <1>5 DEF AskedFor
<1>9. Owned'
  BY <1>4, <1>6 DEF Inv, Owned
<1> QED
  BY <1>2, <1>3, <1>4, <1>5, <1>6, <1>7, <1>8, <1>9

\* A lock request overtakes all workers and lookups and leaves nothing it may purge.
LEMMA LockInv == Inv /\ Lock => Inv'
<1> SUFFICES ASSUME Inv, Lock PROVE Inv'
  OBVIOUS
<1>1. EnterLocked /\ UNCHANGED unlocking
  BY DEF Lock
<1>2. /\ db' \in DbType
      /\ workers' \in Seq(Worker) /\ Len(workers') = Len(workers)
      /\ lookups' \in Seq(Lookup) /\ Len(lookups') = Len(lookups)
      /\ locked' = TRUE /\ choosing' \in BOOLEAN /\ asked' = FALSE
      /\ listed' = FALSE /\ page' \in Pages
      /\ LockKept' /\ AskedFor' /\ Owned'
  BY <1>1, EnteringLock
<1>3. dialogs' \in Seq(Kind) /\ Len(dialogs') <= Len(dialogs) + 1
  <2>1. dialogs \in Seq(Kind) /\ Len(dialogs) \in Nat
    BY Lengths DEF Inv, Shape
  <2>2. CASE dialogs' = dialogs
    BY <2>1, <2>2
  <2>3. CASE dialogs' = <<"unlock">> \o dialogs
    <3>1. "unlock" \in Kind
      BY DEF Kind
    <3> QED
      BY <2>1, <2>3, <3>1, Presented
  <2> QED
    BY <2>2, <2>3 DEF Lock, Present
<1>4. Len(dialogs') + Len(workers') + Len(lookups') <= MaxPending
  <2>1. Len(dialogs) + Len(workers) + Len(lookups) < MaxPending
    BY DEF Lock, Room
  <2>2. Len(dialogs') \in Nat
    BY <1>3, LenProperties
  <2> QED
    BY <1>2, <1>3, <2>1, <2>2, Lengths DEF Inv
<1>5. Shape'
  BY <1>2, <1>3, <1>4 DEF Inv, Shape, Lock, keyring
<1> QED
  BY <1>2, <1>5 DEF Inv

\* The unlock dialog is shown.
LEMMA PresentUnlockInv == Inv /\ PresentUnlock => Inv'
<1> SUFFICES ASSUME Inv, PresentUnlock PROVE Inv'
  OBVIOUS
<1>1. dialogs \in Seq(Kind) /\ "unlock" \in Kind
  BY DEF Inv, Shape, Kind
<1>2. dialogs' \in Seq(Kind) /\ Len(dialogs') = Len(dialogs) + 1
  BY <1>1, Presented DEF PresentUnlock, Present
<1>3. Shape'
  BY <1>2, Lengths DEF Inv, Shape, PresentUnlock, Room, calls, keyring
<1> QED
  BY <1>3 DEF Inv, LockKept, AskedFor, Owned, PresentUnlock, calls

\* A dialog is closed without a password.
LEMMA DismissInv == Inv /\ Dismiss => Inv'
<1> SUFFICES ASSUME Inv, Dismiss PROVE Inv'
  OBVIOUS
<1>1. dialogs \in Seq(Kind) /\ dialogs # << >>
  BY DEF Inv, Shape, Dismiss
<1>2. dialogs' \in Seq(Kind) /\ Len(dialogs') = Len(dialogs) - 1
  BY <1>1, ClosedDialog DEF Dismiss
<1>3. CASE UNCHANGED <<db, workers, lookups, locked, choosing, listed, page, asked>>
  <2>1. Shape'
    BY <1>2, <1>3, Lengths DEF Inv, Shape, Dismiss, keyring
  <2> QED
    BY <1>3, <2>1 DEF Inv, LockKept, AskedFor, Owned, Dismiss
<1>4. CASE EnterLocked
  <2>1. UNCHANGED unlocking
    BY DEF Dismiss
  <2>2. /\ db' \in DbType
        /\ workers' \in Seq(Worker) /\ Len(workers') = Len(workers)
        /\ lookups' \in Seq(Lookup) /\ Len(lookups') = Len(lookups)
        /\ locked' = TRUE /\ choosing' \in BOOLEAN /\ asked' = FALSE
        /\ listed' = FALSE /\ page' \in Pages
        /\ LockKept' /\ AskedFor' /\ Owned'
    BY <1>4, <2>1, EnteringLock
  <2>3. Len(dialogs') + Len(workers') + Len(lookups') <= MaxPending
    BY <1>2, <2>2, Lengths DEF Inv, Shape
  <2>4. Shape'
    BY <1>2, <2>2, <2>3 DEF Inv, Shape, Dismiss, keyring
  <2> QED
    BY <2>2, <2>4 DEF Inv
<1> QED
  BY <1>3, <1>4 DEF Dismiss

\* A password is submitted, and a worker starts.
LEMMA SubmitInv == ASSUME NEW key \in Keys PROVE Inv /\ Submit(key) => Inv'
<1> SUFFICES ASSUME Inv, Submit(key) PROVE Inv'
  OBVIOUS
<1>1. dialogs \in Seq(Kind) /\ dialogs # << >>
  BY DEF Inv, Shape, Submit, Submittable
<1>2. dialogs' \in Seq(Kind) /\ Len(dialogs') = Len(dialogs) - 1
  BY <1>1, ClosedDialog DEF Submit
<1>3. StartUnlock(key)
  BY DEF Submit
<1>4. /\ db' \in DbType /\ db'.loaded = db.loaded /\ db' # NoDb
      /\ workers' \in Seq(Worker) /\ Len(workers') = Len(workers) + 1
      /\ workers' # << >> /\ (Settled(workers) => Settled(workers'))
      /\ page' = "loading" /\ unlocking' = TRUE
  BY <1>3, Starting
<1>5. Len(dialogs') + Len(workers') + Len(lookups') <= MaxPending
  BY <1>2, <1>4, Lengths DEF Inv, Shape, Submit
<1>6. Shape'
  BY <1>2, <1>4, <1>5 DEF Inv, Shape, Submit, keyring, Pages
<1>7. LockKept'
  BY <1>4 DEF Inv, LockKept, Submit
<1>8. AskedFor'
  BY DEF AskedFor, Submit
<1>9. Owned'
  BY <1>4 DEF Owned
<1> QED
  BY <1>6, <1>7, <1>8, <1>9 DEF Inv

\* A password for which there is no secure memory starts nothing.
LEMMA SubmitRefusedInv == Inv /\ SubmitRefused => Inv'
<1> SUFFICES ASSUME Inv, SubmitRefused PROVE Inv'
  OBVIOUS
<1>1. db' \in DbType /\ db'.loaded = db.loaded /\ db'.key = NoKey /\ db' # NoDb
  BY SidebarAssumption DEF Inv, Shape, SubmitRefused, DbType, NoDb
<1>2. Shape'
  BY <1>1 DEF Inv, Shape, SubmitRefused, calls, keyring, window
<1> QED
  BY <1>1, <1>2 DEF Inv, LockKept, AskedFor, Owned, SubmitRefused, calls, window

\* A lookup that answers: the fresh ones start a worker or present a dialog.
LEMMA LookupDoneInv == Inv /\ LookupDone => Inv'
<1> SUFFICES ASSUME Inv, LookupDone PROVE Inv'
  OBVIOUS
<1>1. PICK i \in DOMAIN lookups :
        /\ \/ \E key \in Keys : LookupFound(i, key) \/ LookupLegacy(i, key)
           \/ LookupEmpty(i) \/ LookupStale(i)
        /\ lookups' = RemoveAt(lookups, i)
        /\ UNCHANGED <<locked, storing, legacy, choosing, selected, missing, listed, asked>>
  BY DEF LookupDone
<1>2. /\ lookups' \in Seq(Lookup) /\ Len(lookups') = Len(lookups) - 1
      /\ AnyFresh(lookups') => AnyFresh(lookups)
  BY <1>1, AnsweredLookup DEF Inv, Shape
<1>3. ASSUME NEW key \in Keys, lookups[i].fresh, migrating' \in BOOLEAN, UNCHANGED <<secret, dialogs>>,
             StartUnlock(key)
      PROVE  Inv'
  <2>1. /\ db' \in DbType /\ db'.loaded = db.loaded /\ db' # NoDb
        /\ workers' \in Seq(Worker) /\ Len(workers') = Len(workers) + 1
        /\ workers' # << >> /\ (Settled(workers) => Settled(workers'))
        /\ page' = "loading" /\ unlocking' = TRUE
    BY <1>3, Starting
  <2>2. Len(dialogs') + Len(workers') + Len(lookups') <= MaxPending
    BY <1>2, <1>3, <2>1, Lengths DEF Inv, Shape
  <2>3. Shape'
    BY <1>1, <1>2, <1>3, <2>1, <2>2 DEF Inv, Shape, Pages
  <2>4. LockKept'
    BY <1>1, <2>1 DEF Inv, LockKept
  <2>5. AskedFor'
    BY <1>1, <1>3 DEF Inv, AskedFor, AnyFresh
  <2>6. Owned'
    BY <2>1 DEF Owned
  <2> QED
    BY <2>3, <2>4, <2>5, <2>6 DEF Inv
<1>4. ASSUME UNCHANGED <<db, page, unlocking, workers, dialogs>>,
             migrating' \in BOOLEAN, secret' \in BOOLEAN
      PROVE  Inv'
  <2>1. Len(dialogs') + Len(workers') + Len(lookups') <= MaxPending
    BY <1>2, <1>4, Lengths DEF Inv, Shape
  <2>2. Shape'
    BY <1>1, <1>2, <1>4, <2>1 DEF Inv, Shape
  <2> QED
    BY <1>1, <1>2, <1>4, <2>2 DEF Inv, LockKept, AskedFor, Owned
<1>5. CASE \E key \in Keys : LookupFound(i, key) \/ LookupLegacy(i, key)
  <2>1. PICK key \in Keys : LookupFound(i, key) \/ LookupLegacy(i, key)
    BY <1>5
  <2>2. /\ lookups[i].fresh /\ migrating' \in BOOLEAN /\ UNCHANGED <<secret, dialogs>>
        /\ StartUnlock(key) \/ UNCHANGED <<db, page, unlocking, workers>>
    BY <2>1 DEF LookupFound, LookupLegacy
  <2> QED
    BY <1>3, <1>4, <2>2 DEF Inv, Shape
<1>6. CASE LookupEmpty(i)
  <2>1. dialogs \in Seq(Kind) /\ "decrypt" \in Kind
    BY DEF Inv, Shape, Kind
  <2>2. dialogs' \in Seq(Kind) /\ Len(dialogs') = Len(dialogs) + 1
    BY <1>6, <2>1, Presented DEF LookupEmpty, Present
  <2>3. Len(dialogs') + Len(workers') + Len(lookups') <= MaxPending
    BY <1>2, <1>6, <2>2, Lengths DEF Inv, Shape, LookupEmpty
  <2>4. Shape'
    BY <1>1, <1>2, <1>6, <2>2, <2>3 DEF Inv, Shape, LookupEmpty
  <2> QED
    BY <1>1, <1>2, <1>6, <2>4 DEF Inv, LockKept, AskedFor, Owned, LookupEmpty
<1>7. CASE LookupStale(i)
  BY <1>4, <1>7 DEF LookupStale, Inv, Shape
<1> QED
  BY <1>1, <1>5, <1>6, <1>7

\* load_db returns on its thread: what it loaded is answered for by its own result.
LEMMA LoadInv == Inv => \A i \in DOMAIN workers : Load(i) => Inv'
<1> SUFFICES ASSUME Inv, NEW i \in DOMAIN workers, Load(i) PROVE Inv'
  OBVIOUS
<1>1. /\ db \in DbType /\ workers \in Seq(Worker) /\ Len(workers) \in Nat
      /\ DOMAIN workers = 1..Len(workers) /\ workers[i] \in Worker
  BY LenProperties, ElementOfSeq DEF Inv, Shape
<1>2. PICK r \in Answers(workers[i]) :
        /\ workers' = [workers EXCEPT ![i].result = r]
        /\ db' = CASE workers[i].attached /\ r = "ok" -> [db EXCEPT !.loaded = TRUE]
                   [] workers[i].attached /\ r = "missing" -> [db EXCEPT !.loaded = FALSE]
                   [] OTHER -> db
  BY DEF Load
<1>3. r \in {"ok", "badtag", "missing", "other"} /\ workers[i].result = "running"
  BY <1>2 DEF Answers, Load
<1> DEFINE w == [workers[i] EXCEPT !.result = r]
<1>4. w \in Worker /\ w.fresh = workers[i].fresh /\ w.result = r /\ w.attached = workers[i].attached
  BY <1>1, <1>3 DEF Worker
<1>5. workers' = [workers EXCEPT ![i] = w]
  BY <1>2
<1> HIDE DEF w
<1>6. /\ workers' \in Seq(Worker) /\ Len(workers') = Len(workers)
      /\ DOMAIN workers' = 1..Len(workers)
      /\ \A j \in 1..Len(workers) : workers'[j] = IF j = i THEN w ELSE workers[j]
  <2>1. /\ workers' \in Seq(Worker) /\ Len(workers') = Len(workers)
        /\ \A j \in 1..Len(workers) : workers'[j] = IF j = i THEN w ELSE workers[j]
    BY <1>1, <1>4, <1>5, ExceptSeq
  <2> QED
    BY <2>1, LenProperties
<1>7. /\ AnyFresh(workers') => AnyFresh(workers)
      /\ AnyAttached(workers') => AnyAttached(workers)
  BY <1>1, <1>4, <1>6 DEF AnyFresh, AnyAttached
<1>8. Settled(workers) \/ r = "ok" => Settled(workers')
  BY <1>1, <1>3, <1>4, <1>6 DEF Settled
<1>9. workers[i].attached => db # NoDb
  BY DEF Inv, Owned, AnyAttached
<1>10. /\ db' \in DbType
       /\ db'.key = db.key
       /\ db'.loaded => db.loaded \/ r = "ok"
       /\ db # NoDb => db' # NoDb
  <2>1. CASE workers[i].attached /\ r = "ok"
    BY <1>1, <1>2, <1>9, <2>1, SidebarAssumption DEF DbType, NoDb
  <2>2. CASE workers[i].attached /\ r = "missing"
    BY <1>1, <1>2, <1>9, <2>2, SidebarAssumption DEF DbType, NoDb
  <2>3. CASE ~(workers[i].attached /\ r \in {"ok", "missing"})
    <3>1. db' = db
      BY <1>2, <2>3
    <3> QED
      BY <1>1, <3>1
  <2> QED
    BY <2>1, <2>2, <2>3
<1>11. workers' # << >> /\ workers # << >>
  BY <1>1, <1>6, NonEmptySeq
<1>12. Shape'
  BY <1>6, <1>10 DEF Inv, Shape, Load, keyring, window
<1>13. LockKept'
  BY <1>8, <1>10, <1>11 DEF Inv, LockKept, Load, window
<1>14. AskedFor' /\ Owned'
  BY <1>7, <1>10 DEF Inv, AskedFor, Owned, Load
<1> QED
  BY <1>12, <1>13, <1>14 DEF Inv

\* What every branch of on_unlock_done leaves well-formed.
LEMMA DoneShape ==
  ASSUME Inv, UNCHANGED <<lookups, secret, legacy, selected>>, unlocking' = FALSE, UNCHANGED asked,
         db' \in DbType, workers' \in Seq(Worker), Len(workers') = Len(workers) - 1,
         dialogs' = dialogs \/ \E kind \in Kind : Present(kind),
         storing' \subseteq BOOLEAN, locked' \in BOOLEAN, migrating' \in BOOLEAN,
         choosing' \in BOOLEAN, listed' \in BOOLEAN, missing' \subseteq Paths, page' \in Pages
  PROVE  Shape'
<1>1. dialogs \in Seq(Kind) /\ Len(dialogs) \in Nat
  BY Lengths DEF Inv, Shape
<1>2. dialogs' \in Seq(Kind) /\ Len(dialogs') <= Len(dialogs) + 1 /\ Len(dialogs') \in Nat
  <2>1. CASE dialogs' = dialogs
    BY <1>1, <2>1
  <2>2. ASSUME NEW kind \in Kind, Present(kind) PROVE
          dialogs' \in Seq(Kind) /\ Len(dialogs') = Len(dialogs) + 1
    BY <1>1, <2>2, Presented DEF Present
  <2> QED
    BY <1>1, <2>1, <2>2
<1>3. Len(dialogs') + Len(workers') + Len(lookups') <= MaxPending
  BY <1>1, <1>2, Lengths DEF Inv, Shape
<1> QED
  BY <1>2, <1>3 DEF Inv, Shape

\* on_unlock_done.
LEMMA DoneInv == Inv => \A i \in DOMAIN workers : Done(i) => Inv'
<1> SUFFICES ASSUME Inv, NEW i \in DOMAIN workers, Done(i) PROVE Inv'
  OBVIOUS
<1>1. /\ db \in DbType /\ workers \in Seq(Worker) /\ missing \subseteq Paths
      /\ storing \subseteq BOOLEAN /\ migrating \in BOOLEAN /\ locked \in BOOLEAN
      /\ choosing \in BOOLEAN /\ listed \in BOOLEAN
  BY DEF Inv, Shape
<1>2. unlocking' = FALSE /\ UNCHANGED <<lookups, secret, legacy, selected, asked>>
  BY DEF Done
<1> DEFINE rest == RemoveAt(workers, i)
<1>3. /\ rest \in Seq(Worker) /\ Len(rest) = Len(workers) - 1
      /\ AnyFresh(rest) => AnyFresh(workers)
      /\ AnyAttached(rest) => AnyAttached(workers)
      /\ workers[i].fresh /\ workers[i].result # "ok" /\ Settled(workers) => Settled(rest)
  BY <1>1, AnsweredWorker
<1>4. /\ Detached(rest) \in Seq(Worker) /\ Len(Detached(rest)) = Len(rest)
      /\ AnyFresh(Detached(rest)) => AnyFresh(rest)
      /\ ~AnyAttached(Detached(rest))
  BY <1>3, DetachedWorkers
<1>5. "unlock" \in Kind /\ "decrypt" \in Kind
  BY DEF Kind
<1>6. CASE DoneStale(i)
  <2>1. Purged \in DbType /\ ~Purged.loaded /\ Purged.key = NoKey /\ (db # NoDb => Purged # NoDb)
    BY <1>1, PurgedEmpty
  <2>2. page' \in Pages /\ page' # "list"
    BY <1>1, <1>6, PageShown DEF DoneStale
  <2>3. Shape'
    BY <1>1, <1>2, <1>3, <1>5, <1>6, <2>1, <2>2, DoneShape DEF DoneStale
  <2>4. LockKept'
    BY <1>2, <1>6, <2>1, <2>2 DEF DoneStale, LockKept
  <2>5. AskedFor' /\ Owned'
    BY <1>2, <1>3, <1>6, <2>1 DEF DoneStale, Inv, AskedFor, Owned
  <2> QED
    BY <2>3, <2>4, <2>5 DEF Inv
<1>7. CASE DoneBadTag(i)
  <2>1. db' \in DbType /\ db'.loaded = db.loaded /\ db'.key = NoKey /\ db' # NoDb
    BY <1>1, <1>7, SidebarAssumption DEF DoneBadTag, DbType, NoDb
  <2>2. page' \in Pages /\ (page' = "list" => ~locked /\ listed)
    BY <1>1, <1>7, PageShown DEF DoneBadTag
  <2>3. \E kind \in Kind : Present(kind)
    BY <1>5, <1>7 DEF DoneBadTag
  <2>4. Shape'
    BY <1>1, <1>2, <1>3, <1>7, <2>1, <2>2, <2>3, DoneShape DEF DoneBadTag
  <2>5. LockKept'
    BY <1>2, <1>3, <1>7, <2>1, <2>2 DEF DoneBadTag, Inv, LockKept
  <2>6. AskedFor' /\ Owned'
    BY <1>2, <1>3, <1>7, <2>1 DEF DoneBadTag, Inv, AskedFor, Owned
  <2> QED
    BY <2>4, <2>5, <2>6 DEF Inv
<1>8. CASE DoneMissing(i)
  <2>1. db' \in DbType /\ ~db'.loaded /\ db'.key = NoKey
    BY <1>8 DEF DoneMissing, DbType, NoDb, NoKey
  <2>2. page' \in Pages /\ (page' = "list" => ~locked /\ listed)
    BY <1>1, <1>8, PageShown DEF DoneMissing
  <2>3. Shape'
    BY <1>1, <1>2, <1>3, <1>4, <1>8, <2>1, <2>2, DoneShape DEF DoneMissing
  <2>4. LockKept'
    BY <1>2, <1>8, <2>1, <2>2 DEF DoneMissing, Inv, LockKept
  <2>5. AskedFor' /\ Owned'
    BY <1>2, <1>3, <1>4, <1>8 DEF DoneMissing, Inv, AskedFor, Owned
  <2> QED
    BY <2>3, <2>4, <2>5 DEF Inv
<1>9. CASE DoneOther(i)
  <2>1. db' \in DbType /\ ~db'.loaded /\ db'.key = NoKey
    BY <1>9 DEF DoneOther, DbType, NoDb, NoKey
  <2>2. page' \in Pages /\ (page' = "list" => ~locked /\ listed)
    BY <1>1, <1>9, PageShown DEF DoneOther
  <2>3. Shape'
    BY <1>1, <1>2, <1>3, <1>4, <1>9, <2>1, <2>2, DoneShape DEF DoneOther
  <2>4. LockKept'
    BY <1>2, <1>9, <2>1, <2>2 DEF DoneOther, Inv, LockKept
  <2>5. AskedFor' /\ Owned'
    BY <1>2, <1>3, <1>4, <1>9 DEF DoneOther, Inv, AskedFor, Owned
  <2> QED
    BY <2>3, <2>4, <2>5 DEF Inv
<1>10. CASE DoneOk(i)
  <2>1. listed' \in BOOLEAN
    BY <1>10, Zenon DEF DoneOk
  <2>2. page' \in Pages /\ (page' = "list" => listed')
    <3>1. page' = PageOf(FALSE, db, listed')
      BY <1>10 DEF DoneOk
    <3> QED
      BY <2>1, <3>1, PageShown
  <2>3. storing' \subseteq BOOLEAN
    BY <1>1, <1>10 DEF DoneOk
  <2>4. Shape'
    BY <1>1, <1>2, <1>3, <1>10, <2>1, <2>2, <2>3, DoneShape DEF DoneOk
  <2>5. LockKept'
    BY <1>2, <1>10, <2>2 DEF DoneOk, LockKept
  <2>6. AskedFor' /\ Owned'
    BY <1>2, <1>3, <1>10 DEF DoneOk, Inv, AskedFor, Owned
  <2> QED
    BY <2>4, <2>5, <2>6 DEF Inv
<1> QED
  BY <1>6, <1>7, <1>8, <1>9, <1>10 DEF Done

\* The keyring has stored the password.
LEMMA StoreDoneInv == Inv /\ StoreDone => Inv'
<1> SUFFICES ASSUME Inv, StoreDone PROVE Inv'
  OBVIOUS
<1>1. PICK clear \in storing :
        /\ storing' = storing \ {clear}
        /\ \/ legacy' = (legacy /\ ~clear) /\ UNCHANGED secret
           \/ secret' = FALSE /\ UNCHANGED legacy
        /\ UNCHANGED <<db, workers, lookups, unlocking, locked, migrating, window, asked>>
  BY DEF StoreDone
<1>2. storing' \subseteq BOOLEAN /\ secret' \in BOOLEAN /\ clear \in BOOLEAN
  BY <1>1 DEF Inv, Shape
<1>3. legacy' \in BOOLEAN
  <2>1. CASE legacy' = (legacy /\ ~clear)
    BY <2>1, Zenon
  <2>2. CASE UNCHANGED legacy
    BY <2>2 DEF Inv, Shape
  <2> QED
    BY <1>1, <2>1, <2>2
<1>4. Shape'
  BY <1>1, <1>2, <1>3 DEF Inv, Shape, window
<1> QED
  BY <1>1, <1>4 DEF Inv, LockKept, AskedFor, Owned, window

\* Switching to p, in a window with enough room for a dialog or a lookup more.
LEMMA Switching ==
  ASSUME Inv, NEW p \in Paths, NEW d \in DbType, NEW left \in Seq(Kind), SwitchTo(p, d, left),
         Len(left) + Len(workers) + Len(lookups) + 1 <= MaxPending,
         UNCHANGED <<unlocking, locked, keyring, storing, missing>>,
         selected' \in Paths, choosing' \in BOOLEAN
  PROVE  Inv'
<1>1. /\ workers \in Seq(Worker) /\ lookups \in Seq(Lookup) /\ locked \in BOOLEAN
      /\ Len(workers) \in Nat /\ Len(lookups) \in Nat /\ Len(left) \in Nat
  BY Lengths, LenProperties DEF Inv, Shape
<1>2. /\ workers' \in Seq(Worker) /\ Len(workers') = Len(workers)
      /\ ~AnyAttached(workers') /\ (workers # << >> => workers' # << >>)
  BY <1>1, DetachedWorkers DEF SwitchTo
<1>3. db' \in DbType /\ ~db'.loaded /\ db'.key = NoKey
  BY ClosedEmpty DEF SwitchTo
<1>4. page' \in Pages /\ page' # "list"
  BY <1>1, PageShown DEF SwitchTo
<1>5. /\ lookups' \in Seq(Lookup) /\ dialogs' \in Seq(Kind)
      /\ Len(dialogs') + Len(workers') + Len(lookups') <= MaxPending
  <2>1. CASE lookups' = Append(lookups, [fresh |-> TRUE]) /\ dialogs' = left
    <3>1. [fresh |-> TRUE] \in Lookup
      BY DEF Lookup
    <3>2. lookups' \in Seq(Lookup) /\ Len(lookups') = Len(lookups) + 1
      BY <1>1, <2>1, <3>1, AppendProperties
    <3> QED
      BY <1>1, <1>2, <2>1, <3>2
  <2>2. CASE dialogs' = <<"decrypt">> \o left /\ UNCHANGED lookups
    <3>1. "decrypt" \in Kind
      BY DEF Kind
    <3>2. dialogs' \in Seq(Kind) /\ Len(dialogs') = Len(left) + 1
      BY <2>2, <3>1, Presented
    <3> QED
      BY <1>1, <1>2, <2>2, <3>2
  <2> QED
    BY <2>1, <2>2 DEF SwitchTo
<1>6. Shape'
  BY <1>2, <1>3, <1>4, <1>5 DEF Inv, Shape, SwitchTo, keyring
<1>7. LockKept'
  BY <1>2, <1>3, <1>4 DEF Inv, LockKept, SwitchTo
<1>8. AskedFor' /\ Owned'
  BY <1>2 DEF AskedFor, Owned, SwitchTo
<1> QED
  BY <1>6, <1>7, <1>8 DEF Inv

\* A row of the sidebar is selected.
LEMMA SelectInv == ASSUME NEW p \in Paths PROVE Inv /\ Select(p) => Inv'
<1> SUFFICES ASSUME Inv, Select(p) PROVE Inv'
  OBVIOUS
<1>1. selected' \in Paths
  BY DEF Inv, Shape, Select, DbType
<1>2. CASE SwitchTo(p, db, dialogs)
  <2>1. /\ db \in DbType /\ dialogs \in Seq(Kind) /\ choosing' \in BOOLEAN
        /\ UNCHANGED <<unlocking, locked, keyring, storing, missing>>
    BY DEF Inv, Shape, Select
  <2>2. Len(dialogs) + Len(workers) + Len(lookups) + 1 <= MaxPending
    BY Lengths DEF Inv, Select, Room
  <2> QED
    BY <1>1, <1>2, <2>1, <2>2, Switching
<1>3. CASE UNCHANGED <<db, workers, lookups, dialogs, listed, page, asked>>
  <2>1. Shape'
    BY <1>1, <1>3 DEF Inv, Shape, Select, keyring
  <2> QED
    BY <1>3, <2>1 DEF Inv, LockKept, AskedFor, Owned, Select
<1> QED
  BY <1>2, <1>3 DEF Select

\* Open Database asks for a file.
LEMMA OpenClickedInv == Inv /\ OpenClicked => Inv'
<1> SUFFICES ASSUME Inv, OpenClicked PROVE Inv'
  OBVIOUS
<1>1. Shape'
  BY DEF Inv, Shape, OpenClicked, calls, keyring
<1> QED
  BY <1>1 DEF Inv, LockKept, AskedFor, Owned, OpenClicked, calls

\* The file is chosen, and its password is asked for.
LEMMA FileChosenInv == Inv /\ FileChosen => Inv'
<1> SUFFICES ASSUME Inv, FileChosen PROVE Inv'
  OBVIOUS
<1>1. dialogs \in Seq(Kind) /\ "open" \in Kind
  BY DEF Inv, Shape, Kind
<1>2. dialogs' \in Seq(Kind) /\ Len(dialogs') + Len(workers') + Len(lookups') <= MaxPending
  <2>1. CASE UNCHANGED dialogs
    BY <1>1, <2>1 DEF Inv, Shape, FileChosen, calls
  <2>2. CASE Room /\ Present("open")
    <3>1. dialogs' \in Seq(Kind) /\ Len(dialogs') = Len(dialogs) + 1
      BY <1>1, <2>2, Presented DEF Present
    <3> QED
      BY <2>2, <3>1, Lengths DEF Inv, FileChosen, calls, Room
  <2> QED
    BY <2>1, <2>2 DEF FileChosen
<1>3. Shape'
  BY <1>2 DEF Inv, Shape, FileChosen, calls, keyring
<1> QED
  BY <1>3 DEF Inv, LockKept, AskedFor, Owned, FileChosen, calls

\* The file does not open with the password.
LEMMA OpenFailsInv == Inv /\ OpenFails => Inv'
<1> SUFFICES ASSUME Inv, OpenFails PROVE Inv'
  OBVIOUS
<1>1. dialogs \in Seq(Kind) /\ dialogs # << >>
  BY DEF Inv, Shape, OpenFails
<1>2. dialogs' \in Seq(Kind) /\ Len(dialogs') = Len(dialogs) - 1
  BY <1>1, ClosedDialog DEF OpenFails
<1>3. /\ listed' \in BOOLEAN /\ page' \in Pages
      /\ locked => ~listed'
      /\ page' = "list" => ~locked /\ listed'
  <2>1. CASE locked /\ UNCHANGED <<listed, page>>
    BY <2>1 DEF Inv, Shape, LockKept
  <2>2. CASE ~locked /\ listed' = FALSE /\ page' = PageOf(FALSE, db, FALSE)
    BY <2>2, PageShown
  <2> QED
    BY <2>1, <2>2 DEF OpenFails
<1>4. Len(dialogs') + Len(workers') + Len(lookups') <= MaxPending
  BY <1>2, Lengths DEF Inv, Shape, OpenFails, calls
<1>5. Shape'
  BY <1>2, <1>3, <1>4 DEF Inv, Shape, OpenFails, calls, keyring
<1> QED
  BY <1>3, <1>5 DEF Inv, LockKept, AskedFor, Owned, OpenFails, calls

\* The file opens and takes the place of the database.
LEMMA OpenLoadsInv == ASSUME NEW p \in Paths PROVE Inv /\ OpenLoads(p) => Inv'
<1> SUFFICES ASSUME Inv, OpenLoads(p) PROVE Inv'
  OBVIOUS
<1> DEFINE opened == [path |-> p, key |-> "right", loaded |-> TRUE]
<1>1. opened \in DbType /\ opened # NoDb /\ opened.loaded
  BY SidebarAssumption DEF DbType, NoDb, Keys
<1>2. /\ dialogs \in Seq(Kind) /\ dialogs # << >> /\ workers \in Seq(Worker)
      /\ selected' \in Paths /\ choosing' \in BOOLEAN /\ ~locked
      /\ UNCHANGED <<unlocking, locked, keyring, storing, choosing, missing>>
  BY SidebarAssumption DEF Inv, Shape, OpenLoads
<1>3. Tail(dialogs) \in Seq(Kind) /\ Len(Tail(dialogs)) = Len(dialogs) - 1
  BY <1>2, ClosedDialog
<1>4. Len(Tail(dialogs)) + Len(workers) + Len(lookups) + 1 <= MaxPending
  BY <1>3, Lengths DEF Inv, Shape
<1>5. CASE SwitchTo(LastEntry, opened, Tail(dialogs))
  BY <1>1, <1>2, <1>3, <1>4, <1>5, SidebarAssumption, Switching
<1>6. CASE /\ db' = opened
           /\ workers' = Detached(workers)
           /\ dialogs' = Tail(dialogs)
           /\ listed' = TRUE
           /\ page' = "list"
           /\ asked' = TRUE
           /\ UNCHANGED lookups
  <2>1. /\ workers' \in Seq(Worker) /\ Len(workers') = Len(workers)
        /\ ~AnyAttached(workers') /\ (workers # << >> => workers' # << >>)
    BY <1>2, <1>6, DetachedWorkers
  <2>2. Len(dialogs') + Len(workers') + Len(lookups') <= MaxPending
    BY <1>3, <1>4, <1>6, <2>1, Lengths DEF Inv
  <2>3. Shape'
    BY <1>1, <1>2, <1>3, <1>6, <2>1, <2>2 DEF Inv, Shape, Pages, keyring
  <2>4. LockKept'
    BY <1>2, <1>6, <2>1 DEF Inv, LockKept
  <2>5. AskedFor' /\ Owned'
    BY <1>6, <2>1 DEF AskedFor, Owned
  <2> QED
    BY <2>3, <2>4, <2>5 DEF Inv
<1> QED
  BY <1>5, <1>6 DEF OpenLoads

\* Every step keeps the invariant.
LEMMA NextInv == Inv /\ [Next]_vars => Inv'
<1> SUFFICES ASSUME Inv, [Next]_vars PROVE Inv'
  OBVIOUS
<1>1. CASE \E key \in Keys : Submit(key)
  BY <1>1, SubmitInv
<1>2. CASE \E p \in Paths : Select(p) \/ OpenLoads(p)
  BY <1>2, SelectInv, OpenLoadsInv
<1>3. CASE \E i \in DOMAIN workers : Load(i) \/ Done(i)
  BY <1>3, LoadInv, DoneInv
<1>4. CASE UNCHANGED vars
  BY <1>4 DEF Inv, Shape, LockKept, AskedFor, Owned, vars, calls, keyring, window
<1> QED
  BY <1>1, <1>2, <1>3, <1>4, PresentUnlockInv, DismissInv, SubmitRefusedInv, OpenClickedInv,
     FileChosenInv, OpenFailsInv, LockInv, LookupDoneInv, StoreDoneInv DEF Next, User

-----------------------------------------------------------------------------
(* The theorems.                                                           *)

\* The invariant, for any sidebar and any bound on the calls under way.
THEOREM Invariant == Spec => []Inv
<1>1. Init => Inv
  BY InitInv
<1>2. Inv /\ [Next]_vars => Inv'
  BY NextInv
<1> QED
  BY <1>1, <1>2, PTL DEF Spec

\* The values of the variables, as the runs check them.
THEOREM Typing == Spec => []TypeOK
<1>1. Inv => TypeOK
  <2> SUFFICES ASSUME Inv PROVE TypeOK
    OBVIOUS
  <2>1. \A i \in DOMAIN workers : workers[i] \in Worker
    BY ElementOfSeq, LenProperties DEF Inv, Shape
  <2>2. \A i \in DOMAIN lookups : lookups[i] \in Lookup
    BY ElementOfSeq, LenProperties DEF Inv, Shape
  <2> QED
    BY <2>1, <2>2 DEF Inv, Shape, TypeOK, DbType, Worker, Lookup, Kind, Pages
<1> QED
  BY <1>1, Invariant, PTL

\* Locked, and no worker running: neither key nor tokens are in memory, whatever was under
\* way when the lock came; and the list is shown only over an unlocked database
\* (lock_app_enter_locked_state, otpclient_application_purge_secrets, on_unlock_done).
THEOREM Locked == Spec => []LockedHoldsNothing
<1>1. Inv => LockedHoldsNothing
  <2> SUFFICES ASSUME Inv PROVE LockedHoldsNothing
    OBVIOUS
  <2>1. workers = << >> => ~Settled(workers)
    BY DEF Settled
  <2> QED
    BY <2>1 DEF Inv, LockKept, LockedHoldsNothing
<1> QED
  BY <1>1, Invariant, PTL

\* A worker that answers "ok" to a lock that came later opens nothing.
LEMMA OpeningAsked ==
  ASSUME Inv, [Next]_vars
  PROVE  (~listed /\ listed') \/ (locked /\ ~locked') => asked'
<1>1. ASSUME NEW i \in DOMAIN workers, Done(i), ~asked
      PROVE  ~(~listed /\ listed') /\ ~(locked /\ ~locked')
  <2>1. ~workers[i].fresh
    BY <1>1 DEF Inv, AskedFor, AnyFresh
  <2>2. DoneStale(i)
    BY <1>1, <2>1 DEF Done, DoneBadTag, DoneMissing, DoneOther, DoneOk
  <2> QED
    BY <2>2 DEF DoneStale
<1>2. ASSUME NEW i \in DOMAIN workers, Done(i)
      PROVE  asked' = asked
  BY <1>2 DEF Done
<1>3. ASSUME Lock \/ Dismiss
      PROVE  ~(~listed /\ listed') /\ ~(locked /\ ~locked')
  BY <1>3 DEF Lock, Dismiss, EnterLocked
<1>4. ASSUME NEW p \in Paths, Select(p) \/ OpenLoads(p)
      PROVE  (~(~listed /\ listed') /\ ~(locked /\ ~locked')) \/ asked'
  BY <1>4 DEF Select, OpenLoads, SwitchTo
<1>5. ASSUME NEW i \in DOMAIN workers, Load(i)
      PROVE  UNCHANGED <<listed, locked>>
  BY <1>5 DEF Load, window
<1>6. ASSUME NEW key \in Keys, Submit(key)
      PROVE  UNCHANGED <<listed, locked>>
  BY <1>6 DEF Submit
<1>7. ASSUME PresentUnlock \/ SubmitRefused \/ OpenClicked \/ FileChosen \/ LookupDone \/ StoreDone
      PROVE  UNCHANGED <<listed, locked>>
  BY <1>7 DEF PresentUnlock, SubmitRefused, OpenClicked, FileChosen, LookupDone, StoreDone, window
<1>8. ASSUME OpenFails
      PROVE  ~(~listed /\ listed') /\ UNCHANGED locked
  <2>1. CASE UNCHANGED <<listed, page>>
    BY <1>8, <2>1 DEF OpenFails
  <2>2. CASE listed' = FALSE
    BY <1>8, <2>2 DEF OpenFails
  <2> QED
    BY <1>8, <2>1, <2>2 DEF OpenFails
<1>9. ASSUME UNCHANGED vars
      PROVE  UNCHANGED <<listed, locked>>
  BY <1>9 DEF vars, window
<1> QED
  BY <1>1, <1>2, <1>3, <1>4, <1>5, <1>6, <1>7, <1>8, <1>9 DEF Next, User

\* Tokens appear only for somebody who asked after the last lock request (on_unlock_done
\* and on_secret_lookup_done compare lock_generation).
THEOREM Opens == Spec => OpensOnlyWhenAsked
<1>1. Inv /\ [Next]_vars => [~listed /\ listed' => asked']_vars
  <2> SUFFICES ASSUME Inv, [Next]_vars PROVE ~listed /\ listed' => asked'
    OBVIOUS
  <2> QED
    BY OpeningAsked
<1> QED
  BY <1>1, Invariant, PTL DEF Spec, OpensOnlyWhenAsked

\* A lock request is undone the same way.
THEOREM Unlocks == Spec => UnlocksOnlyWhenAsked
<1>1. Inv /\ [Next]_vars => [locked /\ ~locked' => asked']_vars
  <2> SUFFICES ASSUME Inv, [Next]_vars PROVE locked /\ ~locked' => asked'
    OBVIOUS
  <2> QED
    BY OpeningAsked
<1> QED
  BY <1>1, Invariant, PTL DEF Spec, UnlocksOnlyWhenAsked
=============================================================================
