---------------------------- MODULE DbKeyProofs ----------------------------
(***************************************************************************)
(* The key of the database file, for any passwords, parameters and number  *)
(* of salts.  Each cached key was derived with parameters that db_data may *)
(* have left since: a load takes over those of the header before it has    *)
(* verified anything.  What saves the cache is the digest: the parameters  *)
(* are those of the file whenever the file is still the one loaded, and    *)
(* only then may a save replace it.                                        *)
(***************************************************************************)
EXTENDS DbKey, Integers, TLAPS

\* The values of the variables; a load that went wrong may leave absurd parameters.
Shape ==
  /\ file \in Files
  /\ salts \in 1..MaxSalt
  /\ db \in Handles
  /\ phase \in {"idle", "running", "ok", "bad_tag", "other"}
  /\ locked \in BOOLEAN /\ fresh \in BOOLEAN
  /\ kept \in Caches
  /\ phase # "other" /\ db.mem # None => db.par \in Params

-----------------------------------------------------------------------------
(* The operators.                                                          *)

\* None is neither a password nor a set of parameters nor what a file holds.
LEMMA NoneApart ==
  /\ None \notin Passwords /\ None \notin Params /\ OutOfRange \notin Params
  /\ Default \in Params /\ None # "all" /\ None # "less" /\ OutOfRange # None
  BY NoneAssumption, ParamsAssumption DEF None

\* The empty handle, file and cache are values of their types.
LEMMA Empties ==
  NoKey \in Keys /\ NoFile \in Files /\ NoCache \in Caches /\ NoDb \in Handles
<1>1. MaxSalt \in Nat /\ 0 \in 0..MaxSalt
  BY SaltAssumption
<1>2. NoKey \in Keys
  BY <1>1 DEF NoKey, Keys
<1>3. NoFile \in Files
  BY <1>1, <1>2 DEF NoFile, Files
<1>4. NoCache \in Caches
  BY <1>1, <1>2 DEF NoCache, Caches
<1> QED
  BY <1>2, <1>3, <1>4 DEF NoDb, Handles

\* A new handle has a password and nothing else.
LEMMA HandleType ==
  ASSUME NEW pwd \in Passwords \cup {None}
  PROVE  Handle(pwd) \in Handles /\ Handle(pwd).key = pwd /\ Handle(pwd).mem = None
         /\ Handle(pwd).cache = NoCache /\ Handle(pwd).digest = NoFile
  BY Empties DEF Handle, NoDb, Handles

\* A derived key, cached or not.
LEMMA DeriveType ==
  ASSUME NEW pwd \in Passwords \cup {None}, NEW cut \in BOOLEAN, NEW salt \in 0..MaxSalt,
         NEW par \in Params \cup {None, OutOfRange}
  PROVE  Derive(pwd, cut, salt, par) \in Keys
<1>1. (cut /\ pwd \in NonAscii) \in BOOLEAN
  BY Zenon
<1> QED
  BY <1>1 DEF Derive, Keys

\* A derived key is a key, whether it came from the cache or not.
LEMMA DerivedKeyType ==
  ASSUME NEW h \in Handles, NEW salt \in 0..MaxSalt, NEW cut \in BOOLEAN
  PROVE  DerivedKey(h, salt, cut) \in Keys
<1>1. h.cache.key \in Keys /\ h.key \in Passwords \cup {None}
      /\ h.par \in Params \cup {None, OutOfRange}
  BY DEF Handles, Caches
<1>2. Derive(h.key, cut, salt, h.par) \in Keys
  BY <1>1, DeriveType
<1> QED
  BY <1>1, <1>2 DEF DerivedKey

\* What a handle has read of the file f.
Read(h, f) == [h EXCEPT !.digest = f, !.mem = f.holds]

\* The handle g with the mark of a password that only opens when it is cut.
Legacy(g) == [g EXCEPT !.legacy = TRUE]

\* The ways decrypt_db ends, with the handle h it started from, g that has read the
\* header, and the file f.
Outcome(h, g, f, r) ==
  \/ f.ver = 0 /\ r = Result(h, "other")
  \/ f.ver \in {2, 3} /\ f.par \notin Params /\ r = Result(g, "other")
  \/ f.ver # 0 /\ g.par \in Params /\ r = Result(g, "bad_tag")
  \/ /\ f.ver = 1 /\ Derive(h.key, TRUE, f.salt, None) = f.key
     /\ r = Result(Read(g, f), "ok")
  \/ /\ f.ver = 2 /\ f.par \in Params /\ h.key \in NonAscii
     /\ Derive(h.key, TRUE, f.salt, f.par) = f.key
     /\ r = Result(Read(Legacy(g), f), "ok")
  \/ /\ f.ver \in {2, 3} /\ f.par \in Params /\ DerivedKey(g, f.salt, FALSE) = f.key
     /\ r = Result(Read(Cached(g, f.salt, f.key), f), "ok")

\* A load ends with the tokens and the digest of the file, or it leaves both as they were.
LEMMA Outcomes ==
  ASSUME NEW h \in Handles, NEW f \in Files
  PROVE  Outcome(h, WithHeader(h, f), f, Decrypt(h, f))
<1> DEFINE g == WithHeader(h, f)
           r == CASE f.ver = 1 -> DecryptV1(g, f)
                  [] f.ver = 2 /\ g.par \in Params -> DecryptV2(g, f)
                  [] f.ver = 3 /\ g.par \in Params -> DecryptV3(g, f)
                  [] OTHER -> Result(IF f.ver = 0 THEN h ELSE g, "other")
<1>1. Decrypt(h, f) = IF r.what = "ok" THEN Result(Read(r.h, f), "ok") ELSE r
  BY DEF Decrypt, Read
<1>2. f.ver \in 0..3
  BY DEF Files
<1>3. g.key = h.key /\ g.par = (IF f.ver = 1 THEN Default ELSE f.par)
  BY DEF WithHeader, Handles
<1> SUFFICES Outcome(h, g, f, Decrypt(h, f))
  OBVIOUS
<1> HIDE DEF g, r
<1>4. CASE f.ver = 0
  <2>1. r = Result(h, "other")
    BY <1>4 DEF r
  <2>2. Decrypt(h, f) = Result(h, "other")
    BY <1>1, <2>1 DEF Result
  <2> QED
    BY <1>4, <2>2 DEF Outcome
<1>5. CASE f.ver = 1
  <2>1. r = DecryptV1(g, f) /\ g.par \in Params
    BY <1>3, <1>5, NoneApart DEF r
  <2>2. CASE Derive(h.key, TRUE, f.salt, None) = f.key
    <3>1. r = Result(g, "ok")
      BY <1>3, <2>1, <2>2 DEF DecryptV1
    <3>2. Decrypt(h, f) = Result(Read(g, f), "ok")
      BY <1>1, <3>1 DEF Result
    <3> QED
      BY <1>5, <2>2, <3>2 DEF Outcome
  <2>3. CASE Derive(h.key, TRUE, f.salt, None) # f.key
    <3>1. r = Result(g, "bad_tag")
      BY <1>3, <2>1, <2>3 DEF DecryptV1
    <3>2. Decrypt(h, f) = Result(g, "bad_tag")
      BY <1>1, <3>1 DEF Result
    <3>3. f.ver # 0
      BY <1>5
    <3> QED
      BY <2>1, <3>2, <3>3 DEF Outcome
  <2> QED
    BY <2>2, <2>3
<1>6. CASE f.ver \in {2, 3} /\ f.par \notin Params
  <2>1. r = Result(g, "other")
    BY <1>3, <1>6 DEF r
  <2>2. Decrypt(h, f) = Result(g, "other")
    BY <1>1, <2>1 DEF Result
  <2> QED
    BY <1>6, <2>2 DEF Outcome
<1>7. CASE f.ver \in {2, 3} /\ f.par \in Params
  <2>1. r = (IF f.ver = 2 THEN DecryptV2(g, f) ELSE DecryptV3(g, f)) /\ g.par \in Params /\ g.par = f.par
    BY <1>3, <1>7 DEF r
  <2>2. CASE DerivedKey(g, f.salt, FALSE) = f.key
    <3>1. r = Result(Cached(g, f.salt, f.key), "ok")
      BY <1>7, <2>1, <2>2 DEF DecryptV2, DecryptV3
    <3>2. Decrypt(h, f) = Result(Read(Cached(g, f.salt, f.key), f), "ok")
      BY <1>1, <3>1 DEF Result
    <3> QED
      BY <1>7, <2>2, <3>2 DEF Outcome
  <2>3. CASE /\ DerivedKey(g, f.salt, FALSE) # f.key /\ f.ver = 2
             /\ g.key \in NonAscii /\ DerivedKey(g, f.salt, TRUE) = f.key
    <3>1. r = Result(Legacy(g), "ok")
      BY <2>1, <2>3 DEF DecryptV2, Legacy
    <3>2. Decrypt(h, f) = Result(Read(Legacy(g), f), "ok")
      BY <1>1, <3>1 DEF Result
    <3>3. Derive(h.key, TRUE, f.salt, f.par) = f.key
      BY <1>3, <2>1, <2>3 DEF DerivedKey
    <3> QED
      BY <1>3, <1>7, <2>3, <3>2, <3>3 DEF Outcome
  <2>4. CASE /\ DerivedKey(g, f.salt, FALSE) # f.key
             /\ ~(f.ver = 2 /\ g.key \in NonAscii /\ DerivedKey(g, f.salt, TRUE) = f.key)
    <3>1. r = Result(g, "bad_tag")
      BY <1>7, <2>1, <2>4 DEF DecryptV2, DecryptV3
    <3>2. Decrypt(h, f) = Result(g, "bad_tag")
      BY <1>1, <3>1 DEF Result
    <3>3. f.ver # 0
      BY <1>7
    <3> QED
      BY <2>1, <3>2, <3>3 DEF Outcome
  <2> QED
    BY <2>2, <2>3, <2>4
<1> QED
  BY <1>2, <1>4, <1>5, <1>6, <1>7

\* Reading the header sets the parameters of a handle and nothing else.
LEMMA HeaderType ==
  ASSUME NEW h \in Handles, NEW f \in Files
  PROVE  /\ WithHeader(h, f) \in Handles
         /\ WithHeader(h, f).par = (IF f.ver = 1 THEN Default ELSE f.par)
         /\ WithHeader(h, f).key = h.key /\ WithHeader(h, f).mem = h.mem
         /\ WithHeader(h, f).cache = h.cache /\ WithHeader(h, f).digest = h.digest
  BY NoneApart DEF WithHeader, Handles, Files

\* Reading the tokens sets tokens and digest and nothing else.
LEMMA ReadType ==
  ASSUME NEW h \in Handles, NEW f \in Files
  PROVE  /\ Read(h, f) \in Handles
         /\ Read(h, f).digest = f /\ Read(h, f).mem = f.holds
         /\ Read(h, f).key = h.key /\ Read(h, f).par = h.par /\ Read(h, f).cache = h.cache
         /\ Legacy(h) \in Handles
         /\ Legacy(h).key = h.key /\ Legacy(h).par = h.par /\ Legacy(h).cache = h.cache
  BY DEF Read, Legacy, Handles, Files

\* Caching a key sets the cache and nothing else.
LEMMA CachedType ==
  ASSUME NEW h \in Handles, NEW salt \in 0..MaxSalt, NEW key \in Keys
  PROVE  /\ Cached(h, salt, key) \in Handles
         /\ Cached(h, salt, key).cache = [salt |-> salt, pwd |-> h.key, key |-> key]
         /\ Cached(h, salt, key).key = h.key /\ Cached(h, salt, key).par = h.par
         /\ Cached(h, salt, key).digest = h.digest /\ Cached(h, salt, key).mem = h.mem
  BY DEF Cached, Handles, Caches

\* What a load returns, as far as its types go.
LEMMA DecryptType ==
  ASSUME NEW h \in Handles, NEW f \in Files
  PROVE  /\ Decrypt(h, f).h \in Handles
         /\ Decrypt(h, f).what \in {"ok", "bad_tag", "other"}
         /\ Decrypt(h, f).h.key = h.key
         /\ Decrypt(h, f).what # "other" => Decrypt(h, f).h.par \in Params
         /\ Decrypt(h, f).what = "ok" => Decrypt(h, f).h.mem = f.holds
<1> DEFINE g == WithHeader(h, f)
           r == Decrypt(h, f)
<1>1. Outcome(h, g, f, r)
  BY Outcomes
<1>2. g \in Handles /\ g.key = h.key /\ g.par = (IF f.ver = 1 THEN Default ELSE f.par)
  BY HeaderType
<1>3. f.salt \in 0..MaxSalt /\ f.key \in Keys
  BY DEF Files
<1> SUFFICES /\ r.h \in Handles /\ r.what \in {"ok", "bad_tag", "other"} /\ r.h.key = h.key
             /\ r.what # "other" => r.h.par \in Params
             /\ r.what = "ok" => r.h.mem = f.holds
  OBVIOUS
<1> HIDE DEF g, r
<1>4. CASE r = Result(h, "other") \/ r = Result(g, "other")
  BY <1>2, <1>4 DEF Result
<1>5. CASE g.par \in Params /\ r = Result(g, "bad_tag")
  BY <1>2, <1>5 DEF Result
<1>6. CASE f.ver = 1 /\ r = Result(Read(g, f), "ok")
  <2>1. r.h = Read(g, f) /\ r.what = "ok"
    BY <1>6 DEF Result
  <2> QED
    BY <1>2, <1>6, <2>1, ReadType, NoneApart
<1>7. CASE f.ver = 2 /\ f.par \in Params /\ r = Result(Read(Legacy(g), f), "ok")
  <2>1. r.h = Read(Legacy(g), f) /\ r.what = "ok"
    BY <1>7 DEF Result
  <2>2. Legacy(g) \in Handles /\ Legacy(g).key = h.key /\ Legacy(g).par = f.par
    BY <1>2, <1>7, ReadType
  <2> QED
    BY <1>7, <2>1, <2>2, ReadType
<1>8. CASE f.ver \in {2, 3} /\ f.par \in Params /\ r = Result(Read(Cached(g, f.salt, f.key), f), "ok")
  <2>1. r.h = Read(Cached(g, f.salt, f.key), f) /\ r.what = "ok"
    BY <1>8 DEF Result
  <2>2. /\ Cached(g, f.salt, f.key) \in Handles /\ Cached(g, f.salt, f.key).key = h.key
        /\ Cached(g, f.salt, f.key).par = f.par
    <3>1. f.ver # 1
      BY <1>8
    <3> QED
      BY <1>2, <1>3, <3>1, CachedType
  <2> QED
    BY <1>8, <2>1, <2>2, ReadType
<1> QED
  BY <1>1, <1>4, <1>5, <1>6, <1>7, <1>8 DEF Outcome

\* update_db with nothing in memory starts from the default parameters.
LEMMA FirstRunType ==
  ASSUME NEW h \in Handles
  PROVE  /\ FirstRun(h) \in Handles
         /\ FirstRun(h).par = (IF h.mem = None THEN Default ELSE h.par)
         /\ FirstRun(h).key = h.key /\ FirstRun(h).mem = h.mem
         /\ FirstRun(h).cache = h.cache /\ FirstRun(h).digest = h.digest
  BY NoneApart DEF FirstRun, Handles

\* A file that is sealed, and the handle that sealed it.
LEMMA SealType ==
  ASSUME file \in Files, salts \in 1..MaxSalt, NEW h \in Handles, Saves(h)
  PROVE  LET g == FirstRun(h)
         IN  /\ file' \in Files /\ salts' \in 1..MaxSalt
             /\ file'.ver = 3 /\ file'.par = g.par /\ file'.holds \in {"all", "less"}
             /\ file'.salt = SaltFor(g) /\ file'.key = DerivedKey(g, SaltFor(g), FALSE)
             /\ AfterSeal(g, file') \in Handles
             /\ AfterSeal(g, file').cache = [salt |-> file'.salt, pwd |-> h.key, key |-> file'.key]
             /\ AfterSeal(g, file').key = h.key /\ AfterSeal(g, file').par = g.par
             /\ AfterSeal(g, file').digest = file' /\ AfterSeal(g, file').mem = file'.holds
<1> DEFINE g == FirstRun(h)
           k == DerivedKey(g, SaltFor(g), FALSE)
           c == Cached(g, file'.salt, file'.key)
<1>1. /\ g \in Handles /\ g.key = h.key /\ g.cache = h.cache /\ g.mem = h.mem
      /\ g.par \in Params \cup {None, OutOfRange}
  BY FirstRunType DEF Handles
<1>2. file' = [ver |-> 3, salt |-> SaltFor(g), par |-> g.par, key |-> k, holds |-> Content(h)]
  BY DEF Saves, Sealed
<1>3. SaltFor(g) \in 0..MaxSalt /\ salts' \in 1..MaxSalt
  <2>1. CASE h.cache = NoCache
    BY <1>1, <2>1, SaltAssumption DEF SaltFor, Saves, CanDraw, Drawn
  <2>2. CASE h.cache # NoCache
    BY <1>1, <2>2 DEF SaltFor, Saves, Drawn, Handles, Caches
  <2> QED
    BY <2>1, <2>2
<1>4. k \in Keys
  BY <1>1, <1>3, DerivedKeyType
<1>5. Content(h) \in {"all", "less"}
  BY DEF Content, Handles
<1> HIDE DEF g, k
<1>6. /\ file' \in Files /\ file'.ver = 3 /\ file'.par = g.par /\ file'.holds \in {"all", "less"}
      /\ file'.salt = SaltFor(g) /\ file'.key = k
  BY <1>1, <1>2, <1>3, <1>4, <1>5 DEF Files
<1>7. /\ c \in Handles /\ c.cache = [salt |-> file'.salt, pwd |-> h.key, key |-> file'.key]
      /\ c.key = h.key /\ c.par = g.par
  BY <1>1, <1>3, <1>4, <1>6, CachedType
<1>8. AfterSeal(g, file') = [c EXCEPT !.digest = file', !.mem = file'.holds, !.legacy = FALSE]
  BY DEF AfterSeal
<1> HIDE DEF c
<1>9. /\ AfterSeal(g, file') \in Handles /\ AfterSeal(g, file').cache = c.cache
      /\ AfterSeal(g, file').key = c.key /\ AfterSeal(g, file').par = c.par
      /\ AfterSeal(g, file').digest = file' /\ AfterSeal(g, file').mem = file'.holds
  BY <1>6, <1>7, <1>8 DEF Handles
<1> QED
  BY <1>3, <1>6, <1>7, <1>9 DEF g, k

-----------------------------------------------------------------------------
(* The types.                                                              *)

\* A save, in any phase but for a load that went wrong, leaves acceptable parameters.
LEMMA SaveShape ==
  ASSUME Shape, NEW h \in Handles, Saves(h), db' = AfterSeal(FirstRun(h), file'),
         phase # "other" => h.mem = None \/ h.par \in Params,
         UNCHANGED <<phase, locked, fresh, kept>>
  PROVE  Shape'
<1>1. file \in Files /\ salts \in 1..MaxSalt
  BY DEF Shape
<1>2. /\ file' \in Files /\ salts' \in 1..MaxSalt
      /\ db' \in Handles /\ db'.par = FirstRun(h).par
  BY <1>1, SealType
<1>3. phase # "other" => db'.par \in Params
  BY <1>2, FirstRunType, NoneApart
<1> QED
  BY <1>2, <1>3 DEF Shape

\* A handle that lost its save, and its key or its parameters taken back.
LEMMA BackType ==
  ASSUME NEW h \in Handles, NEW pwd \in Passwords \cup {None}, NEW par \in Params,
         NEW old \in Params \cup {None, OutOfRange}
  PROVE  /\ NewKey(h, pwd) \in Handles
         /\ NewKey(h, pwd).key = pwd /\ NewKey(h, pwd).mem = h.mem
         /\ NewKey(h, pwd).par = h.par /\ NewKey(h, pwd).digest = h.digest
         /\ NewKey(h, pwd).cache = NoCache
         /\ NewParams(h, par) \in Handles
         /\ NewParams(h, par).key = h.key /\ NewParams(h, par).mem = h.mem
         /\ NewParams(h, par).par = par /\ NewParams(h, par).digest = h.digest
         /\ NewParams(h, par).cache = NoCache
         /\ KeyBack(h, pwd) \in Handles
         /\ KeyBack(h, pwd).key = pwd /\ KeyBack(h, pwd).mem = h.mem
         /\ KeyBack(h, pwd).par = h.par /\ KeyBack(h, pwd).digest = h.digest
         /\ KeyBack(h, pwd).cache = NoCache
         /\ ParamsBack(h, old) \in Handles
         /\ ParamsBack(h, old).key = h.key /\ ParamsBack(h, old).mem = h.mem
         /\ ParamsBack(h, old).par = old /\ ParamsBack(h, old).digest = h.digest
         /\ ParamsBack(h, old).cache = NoCache
<1>1. NoCache \in Caches
  BY Empties
<1>2. /\ NewKey(h, pwd) \in Handles
      /\ NewKey(h, pwd).key = pwd /\ NewKey(h, pwd).mem = h.mem
      /\ NewKey(h, pwd).par = h.par /\ NewKey(h, pwd).digest = h.digest
      /\ NewKey(h, pwd).cache = NoCache
  BY <1>1 DEF NewKey, Handles
<1>3. /\ NewParams(h, par) \in Handles
      /\ NewParams(h, par).key = h.key /\ NewParams(h, par).mem = h.mem
      /\ NewParams(h, par).par = par /\ NewParams(h, par).digest = h.digest
      /\ NewParams(h, par).cache = NoCache
  BY <1>1 DEF NewParams, Handles
<1>4. KeyBack(h, pwd) = NewKey(h, pwd)
  BY DEF KeyBack, NewKey
<1>5. /\ ParamsBack(h, old) \in Handles
      /\ ParamsBack(h, old).key = h.key /\ ParamsBack(h, old).mem = h.mem
      /\ ParamsBack(h, old).par = old /\ ParamsBack(h, old).digest = h.digest
      /\ ParamsBack(h, old).cache = NoCache
  BY <1>1 DEF ParamsBack, Handles
<1> QED
  BY <1>2, <1>3, <1>4, <1>5

\* A purged handle, and one whose password was refused.
LEMMA PurgedType ==
  ASSUME NEW h \in Handles
  PROVE  /\ PurgeSecrets(h) \in Handles
         /\ PurgeSecrets(h).mem = None /\ PurgeSecrets(h).digest = NoFile
         /\ PurgeSecrets(h).cache = NoCache /\ PurgeSecrets(h).key = None
         /\ BadTag(h) \in Handles
         /\ BadTag(h).mem = h.mem /\ BadTag(h).digest = h.digest /\ BadTag(h).par = h.par
         /\ BadTag(h).cache = NoCache /\ BadTag(h).key = None
  BY Empties DEF PurgeSecrets, BadTag, NoDb, Handles

\* The provider starts a load with the key it kept.
LEMMA SeededType ==
  ASSUME kept \in Caches, NEW pwd \in Passwords
  PROVE  Seeded(pwd) \in Handles /\ Seeded(pwd).cache = kept /\ Seeded(pwd).key = pwd
         /\ Seeded(pwd).mem = None /\ Seeded(pwd).digest = NoFile
  BY HandleType DEF Seeded, Handles

\* A file somebody puts back.
LEMMA FileType ==
  ASSUME NEW fmt \in Formats, NEW pwd \in Passwords, NEW par \in Params, NEW salt \in 0..MaxSalt
  PROVE  /\ File(fmt.ver, fmt.cut, pwd, salt, par) \in Files
         /\ File(fmt.ver, fmt.cut, pwd, salt, par).ver = fmt.ver
         /\ File(fmt.ver, fmt.cut, pwd, salt, par).salt = salt
         /\ File(fmt.ver, fmt.cut, pwd, salt, par).par = (IF fmt.ver = 1 THEN None ELSE par)
         /\ File(fmt.ver, fmt.cut, pwd, salt, par).key
              = Derive(pwd, fmt.cut, salt, IF fmt.ver = 1 THEN None ELSE par)
<1> DEFINE q == IF fmt.ver = 1 THEN None ELSE par
<1>1. fmt.ver \in 0..3 /\ fmt.cut \in BOOLEAN
  BY DEF Formats
<1>2. q \in Params \cup {None, OutOfRange}
  OBVIOUS
<1>3. File(fmt.ver, fmt.cut, pwd, salt, par)
        = [ver |-> fmt.ver, salt |-> salt, par |-> q, key |-> Derive(pwd, fmt.cut, salt, q),
           holds |-> "all"]
  BY DEF File
<1> HIDE DEF q
<1>4. Derive(pwd, fmt.cut, salt, q) \in Keys
  BY <1>1, <1>2, DeriveType
<1>5. /\ File(fmt.ver, fmt.cut, pwd, salt, par) \in Files
      /\ File(fmt.ver, fmt.cut, pwd, salt, par).ver = fmt.ver
      /\ File(fmt.ver, fmt.cut, pwd, salt, par).salt = salt
      /\ File(fmt.ver, fmt.cut, pwd, salt, par).par = q
      /\ File(fmt.ver, fmt.cut, pwd, salt, par).key = Derive(pwd, fmt.cut, salt, q)
  BY <1>1, <1>2, <1>3, <1>4 DEF Files
<1> QED
  BY <1>5 DEF q

\* The values of the variables at the start.
LEMMA InitShape == Init => Shape
<1> SUFFICES ASSUME Init PROVE Shape
  OBVIOUS
<1>1. 1 \in 1..MaxSalt /\ 1 \in 0..MaxSalt
  BY SaltAssumption
<1>2. file \in Files
  BY <1>1, Empties, FileType, FormatsAssumption DEF Init
<1>3. db \in Handles /\ db.mem = None
  BY HandleType DEF Init
<1> QED
  BY <1>1, <1>2, <1>3, Empties DEF Init, Shape

\* A load of the window keeps the shapes.
LEMMA LoadShape == Shape /\ Load => Shape'
<1> SUFFICES ASSUME Shape, Load PROVE Shape'
  OBVIOUS
<1> DEFINE r == Decrypt(db, file)
<1>1. file \in Files /\ db \in Handles /\ salts \in 1..MaxSalt
  BY DEF Shape
<1>2. /\ r.h \in Handles /\ r.what \in {"ok", "bad_tag", "other"}
      /\ r.what # "other" => r.h.par \in Params
      /\ r.what = "ok" => r.h.mem = file.holds
  BY <1>1, DecryptType
<1>3. UNCHANGED <<locked, fresh, kept>>
  BY DEF Load
<1>4. /\ \/ db' = r.h /\ phase' = r.what /\ UNCHANGED <<file, salts>>
         \/ Migrates(r) /\ Saves(r.h) /\ db' = AfterSeal(r.h, file') /\ phase' = "ok"
         \/ db' = r.h /\ phase' = "other" /\ UNCHANGED <<file, salts>>
  BY DEF Load
<1> HIDE DEF r
<1>5. CASE db' = r.h /\ phase' \in {r.what, "other"} /\ UNCHANGED <<file, salts>>
  BY <1>1, <1>2, <1>3, <1>5 DEF Shape
<1>6. CASE Migrates(r) /\ Saves(r.h) /\ db' = AfterSeal(r.h, file') /\ phase' = "ok"
  <2>1. r.h.mem # None /\ r.h.par \in Params
    BY <1>1, <1>2, <1>6, NoneApart DEF Migrates, Files
  <2>2. FirstRun(r.h) = r.h
    BY <2>1 DEF FirstRun
  <2>3. file' \in Files /\ salts' \in 1..MaxSalt /\ db' \in Handles /\ db'.par = r.h.par
    BY <1>1, <1>2, <1>6, <2>2, SealType
  <2> QED
    BY <1>3, <1>6, <2>1, <2>3 DEF Shape
<1> QED
  BY <1>4, <1>5, <1>6

\* A load of the search provider keeps the shapes.
LEMMA ProviderShape ==
  ASSUME NEW pwd \in Passwords
  PROVE  Shape /\ ProviderLoad(pwd) => Shape'
<1> SUFFICES ASSUME Shape, ProviderLoad(pwd) PROVE Shape'
  OBVIOUS
<1> DEFINE r == Decrypt(Seeded(pwd), file)
<1>1. file \in Files /\ kept \in Caches /\ salts \in 1..MaxSalt
  BY DEF Shape
<1>2. r.h \in Handles /\ r.what \in {"ok", "bad_tag", "other"} /\ (r.what = "ok" => r.h.mem = file.holds)
  BY <1>1, SeededType, DecryptType
<1>3. UNCHANGED <<db, phase, locked, fresh>>
  BY DEF ProviderLoad
<1>4. \/ kept' = r.h.cache /\ UNCHANGED <<file, salts>>
      \/ Migrates(r) /\ Saves(r.h) /\ kept' = AfterSeal(r.h, file').cache
  BY DEF ProviderLoad
<1> HIDE DEF r
<1>5. CASE kept' = r.h.cache /\ UNCHANGED <<file, salts>>
  <2>1. kept' \in Caches
    BY <1>2, <1>5 DEF Handles
  <2> QED
    BY <1>3, <1>5, <2>1 DEF Shape
<1>6. CASE Migrates(r) /\ Saves(r.h) /\ kept' = AfterSeal(r.h, file').cache
  <2>1. r.h.mem # None
    BY <1>1, <1>2, <1>6, NoneApart DEF Migrates, Files
  <2>2. FirstRun(r.h) = r.h
    BY <2>1 DEF FirstRun
  <2>3. file' \in Files /\ salts' \in 1..MaxSalt /\ AfterSeal(r.h, file') \in Handles
    BY <1>1, <1>2, <1>6, <2>2, SealType
  <2>4. kept' \in Caches
    BY <1>6, <2>3 DEF Handles
  <2> QED
    BY <1>3, <2>3, <2>4 DEF Shape
<1> QED
  BY <1>4, <1>5, <1>6

\* Every step keeps the shapes.
LEMMA NextShape == Shape /\ [Next]_vars => Shape'
<1> SUFFICES ASSUME Shape, [Next]_vars PROVE Shape'
  OBVIOUS
<1>1. db \in Handles /\ db.key \in Passwords \cup {None} /\ db.par \in Params \cup {None, OutOfRange}
  BY DEF Shape, Handles
<1>2. ASSUME NEW pwd \in Passwords, Submit(pwd) PROVE Shape'
  <2>1. db' \in Handles /\ db'.mem = db.mem /\ db'.par = db.par /\ phase = "idle"
    BY <1>1, <1>2 DEF Submit, Handles
  <2> QED
    BY <1>2, <2>1 DEF Submit, Shape
<1>3. ASSUME NEW pwd \in Passwords, Create(pwd) PROVE Shape'
  <2> DEFINE h == [Handle(pwd) EXCEPT !.par = Default]
  <2>1. h \in Handles /\ h.mem = None /\ h.par = Default
    BY HandleType, NoneApart DEF Handles
  <2>2. Saves(h) /\ db' = AfterSeal(h, file') /\ UNCHANGED <<phase, locked, fresh, kept>>
    BY <1>3 DEF Create
  <2> HIDE DEF h
  <2>3. FirstRun(h) = h
    BY <2>1 DEF FirstRun, Handles
  <2> QED
    BY <2>1, <2>2, <2>3, SaveShape
<1>4. ASSUME NEW pwd \in Passwords, ChangePassword(pwd) PROVE Shape'
  <2> DEFINE h == NewKey(db, pwd)
  <2>1. h \in Handles /\ h.mem = db.mem /\ h.par = db.par
    BY <1>1, BackType, NoneApart
  <2>2. UNCHANGED <<phase, locked, fresh, kept>>
    BY <1>4 DEF ChangePassword
  <2>3. \/ Saves(h) /\ db' = AfterSeal(FirstRun(h), file')
        \/ db' = KeyBack(FirstRun(h), db.key) /\ UNCHANGED <<file, salts>>
    BY <1>4 DEF ChangePassword, SaveFails
  <2> HIDE DEF h
  <2>4. CASE Saves(h) /\ db' = AfterSeal(FirstRun(h), file')
    BY <2>1, <2>2, <2>4, SaveShape DEF Shape
  <2>5. CASE db' = KeyBack(FirstRun(h), db.key) /\ UNCHANGED <<file, salts>>
    <3>1. /\ FirstRun(h) \in Handles /\ FirstRun(h).mem = db.mem
          /\ FirstRun(h).par = IF db.mem = None THEN Default ELSE db.par
      BY <2>1, FirstRunType
    <3>2. db' \in Handles /\ db'.mem = db.mem /\ db'.par = FirstRun(h).par
      BY <1>1, <2>5, <3>1, BackType, NoneApart
    <3> QED
      BY <2>2, <2>5, <3>1, <3>2 DEF Shape
  <2> QED
    BY <2>3, <2>4, <2>5
<1>5. ASSUME NEW pwd \in Passwords, ProviderLoad(pwd) PROVE Shape'
  BY <1>5, ProviderShape
<1>6. ASSUME Done PROVE Shape'
  <2>1. /\ NoDb \in Handles /\ NoDb.mem = None
        /\ PurgeSecrets(db) \in Handles /\ PurgeSecrets(db).mem = None
        /\ BadTag(db) \in Handles /\ BadTag(db).mem = db.mem /\ BadTag(db).par = db.par
    BY <1>1, Empties, PurgedType DEF NoDb
  <2> QED
    BY <1>6, <2>1 DEF Done, Shape
<1>7. ASSUME Lock PROVE Shape'
  BY <1>1, <1>7, PurgedType DEF Lock, Shape
<1>8. ASSUME Reopen \/ Restart PROVE Shape'
  BY <1>8, HandleType DEF Reopen, Restart, Shape
<1>9. ASSUME Save PROVE Shape'
  BY <1>1, <1>9, SaveShape DEF Save, Shape
<1>10. ASSUME NEW par \in Params, UpdateKdf(par) PROVE Shape'
  <2> DEFINE h == NewParams(db, par)
  <2>1. h \in Handles /\ h.mem = db.mem /\ h.par = par
    BY <1>1, BackType
  <2>2. UNCHANGED <<phase, locked, fresh, kept>>
    BY <1>10 DEF UpdateKdf
  <2>3. \/ Saves(h) /\ db' = AfterSeal(FirstRun(h), file')
        \/ db' = ParamsBack(FirstRun(h), db.par) /\ UNCHANGED <<file, salts>>
    BY <1>10 DEF UpdateKdf, SaveFails
  <2> HIDE DEF h
  <2>4. CASE Saves(h) /\ db' = AfterSeal(FirstRun(h), file')
    BY <2>1, <2>2, <2>4, SaveShape
  <2>5. CASE db' = ParamsBack(FirstRun(h), db.par) /\ UNCHANGED <<file, salts>>
    <3>1. FirstRun(h) \in Handles /\ FirstRun(h).mem = db.mem
      BY <2>1, FirstRunType
    <3>2. db' \in Handles /\ db'.mem = db.mem /\ db'.par = db.par
      BY <1>1, <2>5, <3>1, BackType
    <3> QED
      BY <2>2, <2>5, <3>2 DEF Shape
  <2> QED
    BY <2>3, <2>4, <2>5
<1>11. ASSUME ProviderForgets PROVE Shape'
  BY <1>11, Empties DEF ProviderForgets, Shape
<1>12. ASSUME Damage PROVE Shape'
  <2>1. file' \in Files
    BY <1>12 DEF Damage, Shape, Files
  <2> QED
    BY <1>12, <2>1 DEF Damage, Shape
<1>13. ASSUME NEW fmt \in Old, NEW pwd \in Passwords, NEW par \in Params, PutBack(fmt, pwd, par)
       PROVE  Shape'
  <2>1. salts + 1 \in 1..MaxSalt /\ salts + 1 \in 0..MaxSalt
    BY <1>13, SaltAssumption DEF PutBack, Shape
  <2>2. file' \in Files
    BY <1>13, <2>1, FileType, FormatsAssumption DEF PutBack
  <2> QED
    BY <1>13, <2>1, <2>2 DEF PutBack, Shape
<1>14. ASSUME UNCHANGED vars PROVE Shape'
  BY <1>14 DEF vars, Shape
<1> QED
  BY <1>2, <1>3, <1>4, <1>5, <1>6, <1>7, <1>8, <1>9, <1>10, <1>11, <1>12, <1>13, <1>14, LoadShape
  DEF Next

\* The values of the variables, whatever is put back.
THEOREM Shaped == Spec => []Shape
<1>1. Init => Shape
  BY InitShape
<1>2. Shape /\ [Next]_vars => Shape'
  BY NextShape
<1> QED
  BY <1>1, <1>2, PTL DEF Spec

\* The values of the variables, as the runs check them.
THEOREM Typing == Spec => []TypeOK
<1>1. Shape => TypeOK
  BY DEF Shape, TypeOK
<1> QED
  BY <1>1, Shaped, PTL

-----------------------------------------------------------------------------
(* The keys.                                                               *)

\* Nobody puts a file of an older format back: the files that are migrated are those
\* the program found when it started.
CurrentOld == \A fmt \in Old : fmt.ver # 1 /\ ~fmt.cut

\* A file whose key no load can cache: it is sealed with a cut password.
OldKey(f) == f.ver = 1 \/ (f.ver = 2 /\ f.key.cut)

\* A file that somebody sealed, and that may have been damaged since.
Sound(f) ==
  /\ f.ver = 0 => f = NoFile
  /\ f.ver = 1 => f.par = None
  /\ f.ver \in {2, 3} => f.par \in Params \cup {OutOfRange}
  /\ f.ver # 0 /\ f.par # OutOfRange => \E pwd \in Passwords : Opens(f, pwd)

\* The key of a whole password, and of one that is cut.
Whole(pwd, salt, par) == Derive(pwd, FALSE, salt, par)
Shortened(pwd, salt, par) == Derive(pwd, TRUE, salt, par)

\* A key kept beside what it was derived from, with the parameters par.
Kept(c, par) == c # NoCache => c.pwd \in Passwords /\ c.key = Whole(c.pwd, c.salt, par)

\* No salt is drawn twice.
Salts ==
  /\ file.salt <= salts /\ db.digest.salt <= salts
  /\ db.cache.salt <= salts /\ kept.salt <= salts

\* What db_data knows of the file it has read.  The salt tells apart two files of
\* different formats, so that a migration by somebody else is noticed.
Remembers ==
  /\ db.mem = None <=> db.digest = NoFile
  /\ file = NoFile => db.digest = NoFile
  /\ db.digest.par # OutOfRange
  /\ file.ver < 3 /\ db.digest.salt = file.salt => db.digest.ver < 3
  /\ db.digest = file /\ file.ver = 1 => db.par = Default
  /\ db.digest = file /\ file.ver \in {2, 3} => db.par = file.par

\* The cached keys.
CachesSound ==
  /\ db.cache # NoCache => db.digest.par \in Params
  /\ Kept(db.cache, db.digest.par)
  /\ \E par \in Params : Kept(kept, par)
  /\ OldKey(file) => db.cache = NoCache /\ kept = NoCache

\* The password of db_data: between two unlocks it is the one of the file it has read.
PasswordSound ==
  /\ phase # "idle" \/ db.cache # NoCache => db.key # None
  /\ phase \in {"idle", "ok"} /\ db.mem # None /\ db.key # None =>
       Opens(db.digest, db.key) /\ db.par = db.digest.par

Inv == Shape /\ Sound(file) /\ Salts /\ Remembers /\ CachesSound /\ PasswordSound

\* The parts of a derived key.
LEMMA KeyParts ==
  ASSUME NEW pwd, NEW salt, NEW par
  PROVE  /\ Whole(pwd, salt, par).par = par /\ ~Whole(pwd, salt, par).cut
         /\ Shortened(pwd, salt, par).par = par
         /\ pwd \in NonAscii => Shortened(pwd, salt, par).cut
  BY DEF Derive, Whole, Shortened

\* A cached key is used for the password and the salt it was derived from.
LEMMA CacheHit ==
  ASSUME NEW h, NEW salt
  PROVE  DerivedKey(h, salt, FALSE) =
           IF h.cache # NoCache /\ h.cache.salt = salt /\ h.cache.pwd = h.key
           THEN h.cache.key ELSE Whole(h.key, salt, h.par)
  BY DEF DerivedKey, Whole

\* How a file of each format opens.
LEMMA OpensForms ==
  ASSUME NEW f \in Files, NEW pwd
  PROVE  /\ f.ver = 0 => ~Opens(f, pwd)
         /\ f.ver = 1 => (Opens(f, pwd) <=> f.key = Shortened(pwd, f.salt, None))
         /\ f.ver = 2 => (Opens(f, pwd) <=> \/ f.key = Whole(pwd, f.salt, f.par)
                                          \/ f.key = Shortened(pwd, f.salt, f.par))
         /\ f.ver = 3 => (Opens(f, pwd) <=> f.key = Whole(pwd, f.salt, f.par))
<1>1. CASE f.ver = 0
  BY <1>1 DEF Opens
<1>2. CASE f.ver = 1
  BY <1>2 DEF Opens, Shortened
<1>3. ASSUME f.ver = 2
      PROVE  Opens(f, pwd) <=> \/ f.key = Whole(pwd, f.salt, f.par)
                              \/ f.key = Shortened(pwd, f.salt, f.par)
  <2>1. Opens(f, pwd) <=> \E cut \in BOOLEAN : f.key = Derive(pwd, cut, f.salt, f.par)
    BY <1>3 DEF Opens
  <2>2. (\E cut \in BOOLEAN : f.key = Derive(pwd, cut, f.salt, f.par))
          <=> \/ f.key = Derive(pwd, FALSE, f.salt, f.par)
              \/ f.key = Derive(pwd, TRUE, f.salt, f.par)
    BY Zenon
  <2> QED
    BY <2>1, <2>2 DEF Whole, Shortened
<1>4. CASE f.ver = 3
  BY <1>4 DEF Opens, Whole
<1> QED
  BY <1>1, <1>2, <1>3, <1>4 DEF Files

\* The key of a file that was not damaged is derived with the parameters of its header.
LEMMA HeaderPar ==
  ASSUME NEW f \in Files, Sound(f), f.ver \in {2, 3}, f.par \in Params
  PROVE  f.key.par = f.par
<1>1. PICK pwd \in Passwords : Opens(f, pwd)
  BY NoneApart DEF Sound
<1>2. f.key = Whole(pwd, f.salt, f.par) \/ f.key = Shortened(pwd, f.salt, f.par)
  BY <1>1, OpensForms
<1> QED
  BY <1>2, KeyParts

\* What a load returns.
LEMMA ResultParts ==
  \A h, what : Result(h, what).h = h /\ Result(h, what).what = what
  BY DEF Result

\* A load that does not succeed leaves db_data as it was, but for the parameters.
LEMMA DecryptFails ==
  ASSUME NEW h \in Handles, NEW f \in Files, Decrypt(h, f).what # "ok"
  PROVE  /\ Decrypt(h, f).h.digest = h.digest /\ Decrypt(h, f).h.cache = h.cache
         /\ Decrypt(h, f).h.mem = h.mem
         /\ f.ver = 1 => Decrypt(h, f).h.par = Default
         /\ f.ver \in {2, 3} => Decrypt(h, f).h.par = f.par
<1> DEFINE g == WithHeader(h, f)
           r == Decrypt(h, f)
<1>1. Outcome(h, g, f, r)
  BY Outcomes
<1>2. /\ g.digest = h.digest /\ g.cache = h.cache /\ g.mem = h.mem
      /\ f.ver = 1 => g.par = Default
      /\ f.ver # 1 => g.par = f.par
  BY HeaderType
<1>3. r.what # "ok"
  OBVIOUS
<1> HIDE DEF g, r
<1>4. (f.ver = 0 /\ r = Result(h, "other")) \/ r.h = g
  <2>1. \A x : r # Result(x, "ok")
    BY <1>3, ResultParts
  <2>2. (f.ver = 0 /\ r = Result(h, "other")) \/ r = Result(g, "other") \/ r = Result(g, "bad_tag")
    BY <1>1, <2>1 DEF Outcome
  <2> QED
    BY <2>2, ResultParts
<1> SUFFICES /\ r.h.digest = h.digest /\ r.h.cache = h.cache /\ r.h.mem = h.mem
             /\ f.ver = 1 => r.h.par = Default
             /\ f.ver \in {2, 3} => r.h.par = f.par
  BY DEF r
<1>5. CASE f.ver = 0 /\ r = Result(h, "other")
  BY <1>5 DEF Result
<1>6. CASE r.h = g
  <2>1. f.ver \in {2, 3} => f.ver # 1
    OBVIOUS
  <2> QED
    BY <1>2, <1>6, <2>1
<1> QED
  BY <1>4, <1>5, <1>6

\* A load that succeeds: the password is one of the file, and the key is cached unless
\* the file is of an older format.
LEMMA DecryptOk ==
  ASSUME NEW h \in Handles, NEW f \in Files, h.key \in Passwords, Sound(f),
         NEW par \in Params, Kept(h.cache, par), OldKey(f) => h.cache = NoCache,
         Decrypt(h, f).what = "ok"
  PROVE  /\ f.ver \in 1..3 /\ f.par # OutOfRange /\ Opens(f, h.key)
         /\ Decrypt(h, f).h.digest = f /\ Decrypt(h, f).h.mem = f.holds
         /\ f.ver = 1 => Decrypt(h, f).h.par = Default
         /\ f.ver \in {2, 3} => Decrypt(h, f).h.par = f.par /\ f.par \in Params
         /\ OldKey(f) => Decrypt(h, f).h.cache = NoCache
         /\ ~OldKey(f) => /\ Decrypt(h, f).h.cache = [salt |-> f.salt, pwd |-> h.key, key |-> f.key]
                          /\ f.key = Whole(h.key, f.salt, f.par)
<1> DEFINE g == WithHeader(h, f)
           r == Decrypt(h, f)
<1>1. Outcome(h, g, f, r)
  BY Outcomes
<1>2. /\ g \in Handles /\ g.cache = h.cache /\ g.key = h.key
      /\ f.ver = 1 => g.par = Default
      /\ f.ver # 1 => g.par = f.par
  BY HeaderType
<1>3. r.what = "ok" /\ f.salt \in 0..MaxSalt /\ f.key \in Keys
  BY DEF Files
<1> HIDE DEF g, r
<1> SUFFICES /\ f.ver \in 1..3 /\ f.par # OutOfRange /\ Opens(f, h.key)
             /\ r.h.digest = f /\ r.h.mem = f.holds
             /\ f.ver = 1 => r.h.par = Default
             /\ f.ver \in {2, 3} => r.h.par = f.par /\ f.par \in Params
             /\ OldKey(f) => r.h.cache = NoCache
             /\ ~OldKey(f) => /\ r.h.cache = [salt |-> f.salt, pwd |-> h.key, key |-> f.key]
                              /\ f.key = Whole(h.key, f.salt, f.par)
  BY DEF r
<1>4. CASE f.ver = 1 /\ Derive(h.key, TRUE, f.salt, None) = f.key /\ r = Result(Read(g, f), "ok")
  <2>1. r.h = Read(g, f)
    BY <1>4 DEF Result
  <2>2. /\ r.h.digest = f /\ r.h.mem = f.holds /\ r.h.par = Default /\ r.h.cache = h.cache
    BY <1>2, <1>4, <2>1, ReadType
  <2>3. f.key = Shortened(h.key, f.salt, None)
    BY <1>4 DEF Shortened
  <2>4. f.par # OutOfRange /\ Opens(f, h.key) /\ OldKey(f) /\ f.ver \in 1..3
    BY <1>4, <2>3, NoneApart, OpensForms DEF Sound, OldKey
  <2>5. ~(f.ver \in {2, 3})
    BY <1>4
  <2> QED
    BY <2>2, <2>4, <2>5
<1>5. CASE /\ f.ver = 2 /\ f.par \in Params /\ h.key \in NonAscii
           /\ Derive(h.key, TRUE, f.salt, f.par) = f.key
           /\ r = Result(Read(Legacy(g), f), "ok")
  <2>1. r.h = Read(Legacy(g), f) /\ f.ver # 1
    BY <1>5 DEF Result
  <2>2. Legacy(g) \in Handles /\ Legacy(g).par = f.par /\ Legacy(g).cache = h.cache
    BY <1>2, <2>1, ReadType
  <2>3. r.h.digest = f /\ r.h.mem = f.holds /\ r.h.par = f.par /\ r.h.cache = h.cache
    BY <2>1, <2>2, ReadType
  <2>4. f.key = Shortened(h.key, f.salt, f.par) /\ f.key.cut
    <3>1. f.key = Shortened(h.key, f.salt, f.par)
      BY <1>5 DEF Shortened
    <3> QED
      BY <1>5, <3>1, KeyParts
  <2>5. OldKey(f) /\ Opens(f, h.key) /\ f.par # OutOfRange /\ f.ver \in 1..3
    BY <1>5, <2>4, OpensForms, NoneApart DEF OldKey
  <2> QED
    BY <1>5, <2>1, <2>3, <2>5
<1>6. CASE /\ f.ver \in {2, 3} /\ f.par \in Params /\ DerivedKey(g, f.salt, FALSE) = f.key
           /\ r = Result(Read(Cached(g, f.salt, f.key), f), "ok")
  <2>1. r.h = Read(Cached(g, f.salt, f.key), f) /\ f.ver # 1
    BY <1>6 DEF Result
  <2>2. /\ Cached(g, f.salt, f.key) \in Handles /\ Cached(g, f.salt, f.key).par = f.par
        /\ Cached(g, f.salt, f.key).cache = [salt |-> f.salt, pwd |-> h.key, key |-> f.key]
    BY <1>2, <1>3, <2>1, CachedType
  <2>3. /\ r.h.digest = f /\ r.h.mem = f.holds /\ r.h.par = f.par
        /\ r.h.cache = [salt |-> f.salt, pwd |-> h.key, key |-> f.key]
    BY <2>1, <2>2, ReadType
  <2>4. f.key = Whole(h.key, f.salt, f.par)
    <3>1. CASE h.cache # NoCache /\ h.cache.salt = f.salt /\ h.cache.pwd = h.key
      <4>1. f.key = h.cache.key
        BY <1>2, <1>6, <3>1, CacheHit
      <4>2. f.key = Whole(h.key, f.salt, par)
        BY <3>1, <4>1 DEF Kept
      <4>3. f.par = par
        BY <1>6, <4>2, HeaderPar, KeyParts
      <4> QED
        BY <4>2, <4>3
    <3>2. CASE ~(h.cache # NoCache /\ h.cache.salt = f.salt /\ h.cache.pwd = h.key)
      BY <1>2, <1>6, <2>1, <3>2, CacheHit
    <3> QED
      BY <3>1, <3>2
  <2>5. ~OldKey(f) /\ f.par # OutOfRange /\ f.ver \in 1..3
    BY <1>6, <2>1, <2>4, KeyParts, NoneApart DEF OldKey
  <2>6. Opens(f, h.key)
    BY <1>6, <2>4, OpensForms
  <2> QED
    BY <1>6, <2>1, <2>3, <2>4, <2>5, <2>6
<1> QED
  <2>1. r # Result(h, "other") /\ r # Result(g, "other") /\ r # Result(g, "bad_tag")
    BY <1>3, ResultParts
  <2> QED
    BY <1>1, <1>4, <1>5, <1>6, <2>1 DEF Outcome

\* What a save leaves on disk: the key it is sealed with can be derived from its header.
LEMMA SealKey ==
  ASSUME file \in Files, salts \in 1..MaxSalt, NEW h \in Handles, Saves(h), h.key \in Passwords,
         FirstRun(h).par \in Params, Kept(h.cache, FirstRun(h).par), h.cache.salt <= salts
  PROVE  /\ file'.key = Whole(h.key, file'.salt, FirstRun(h).par)
         /\ Opens(file', h.key) /\ Sound(file') /\ ~OldKey(file')
         /\ file'.salt <= salts' /\ salts <= salts'
         /\ file'.salt = IF h.cache # NoCache THEN h.cache.salt ELSE salts + 1
<1> DEFINE g == FirstRun(h)
<1>1. /\ file' \in Files /\ salts' \in 1..MaxSalt
      /\ file'.ver = 3 /\ file'.par = g.par
      /\ file'.salt = SaltFor(g) /\ file'.key = DerivedKey(g, SaltFor(g), FALSE)
  BY SealType
<1>2. g.cache = h.cache /\ g.key = h.key
  BY FirstRunType
<1>3. h.cache.salt \in Nat /\ salts \in Nat
  BY SaltAssumption DEF Handles, Caches
<1> HIDE DEF g
<1>4. /\ salts' = IF h.cache = NoCache THEN salts + 1 ELSE salts
      /\ file'.salt = IF h.cache # NoCache THEN h.cache.salt ELSE salts + 1
  BY <1>1, <1>2 DEF Saves, Drawn, SaltFor
<1>5. file'.salt <= salts' /\ salts <= salts'
  BY <1>3, <1>4
<1>6. file'.key = Whole(h.key, file'.salt, g.par)
  <2>1. CASE g.cache # NoCache /\ g.cache.salt = SaltFor(g) /\ g.cache.pwd = g.key
    <3>1. file'.key = g.cache.key
      BY <1>1, <2>1, CacheHit
    <3> QED
      BY <1>1, <1>2, <2>1, <3>1 DEF Kept, g
  <2>2. CASE ~(g.cache # NoCache /\ g.cache.salt = SaltFor(g) /\ g.cache.pwd = g.key)
    BY <1>1, <1>2, <2>2, CacheHit
  <2> QED
    BY <2>1, <2>2
<1>7. Opens(file', h.key)
  <2>1. file'.key = Whole(h.key, file'.salt, file'.par)
    BY <1>1, <1>6
  <2> QED
    BY <1>1, <2>1, OpensForms
<1>8. Sound(file') /\ ~OldKey(file')
  <2>1. file'.ver # 0 /\ file'.ver # 1 /\ file'.ver # 2
    BY <1>1
  <2> QED
    BY <1>1, <1>7, <2>1 DEF Sound, OldKey, g
<1> QED
  BY <1>4, <1>5, <1>6, <1>7, <1>8 DEF g

\* The window saves: it holds the password, the parameters and the key of the new file.
LEMMA SealInv ==
  ASSUME Inv, NEW h \in Handles, Saves(h), h.key \in Passwords,
         FirstRun(h).par \in Params, Kept(h.cache, FirstRun(h).par), h.cache.salt <= salts,
         db' = AfterSeal(FirstRun(h), file'), UNCHANGED kept, Shape'
  PROVE  Inv'
<1> DEFINE g == FirstRun(h)
<1>1. /\ file \in Files /\ salts \in 1..MaxSalt /\ kept \in Caches /\ kept.salt <= salts
      /\ salts \in Nat /\ salts' \in Nat /\ kept.salt \in Nat
  BY SaltAssumption DEF Inv, Shape, Salts, Caches
<1>2. /\ file'.ver = 3 /\ file'.par = g.par /\ file'.holds \in {"all", "less"}
      /\ db'.cache = [salt |-> file'.salt, pwd |-> h.key, key |-> file'.key]
      /\ db'.key = h.key /\ db'.par = g.par
      /\ db'.digest = file' /\ db'.mem = file'.holds
  BY <1>1, SealType
<1>3. /\ file'.key = Whole(h.key, file'.salt, g.par)
      /\ Opens(file', h.key) /\ Sound(file') /\ ~OldKey(file')
      /\ file'.salt <= salts' /\ salts <= salts'
  BY <1>1, SealKey
<1>4. g.par \in Params
  OBVIOUS
<1> HIDE DEF g
<1>5. db'.cache.salt = file'.salt /\ db'.cache.pwd = h.key /\ db'.cache.key = file'.key
  BY <1>2
<1>6. Salts'
  BY <1>1, <1>2, <1>3, <1>5 DEF Salts
<1>7. Remembers'
  <2>1. db'.mem # None /\ db'.digest # NoFile /\ file' # NoFile /\ db'.digest.par # OutOfRange
    BY <1>2, <1>4, NoneApart DEF NoFile
  <2>2. ~(file'.ver < 3) /\ file'.ver # 1
    BY <1>2
  <2> QED
    BY <1>2, <2>1, <2>2 DEF Remembers
<1>8. CachesSound'
  <2>1. db'.digest.par \in Params
    BY <1>2, <1>4
  <2>2. Kept(db'.cache, db'.digest.par)
    BY <1>2, <1>3, <1>5 DEF Kept
  <2>3. \E par \in Params : Kept(kept', par)
    BY DEF Inv, CachesSound
  <2> QED
    BY <1>3, <2>1, <2>2, <2>3 DEF CachesSound
<1>9. PasswordSound'
  BY <1>2, <1>3, NoneApart DEF PasswordSound
<1> QED
  BY <1>3, <1>6, <1>7, <1>8, <1>9 DEF Inv

\* db_data is emptied, or a new one takes its place.
LEMMA EmptiedInv ==
  ASSUME Inv, UNCHANGED <<file, salts, kept>>, Shape',
         db'.mem = None, db'.digest = NoFile, db'.cache = NoCache,
         phase' = "idle" \/ db'.key # None
  PROVE  Inv'
<1>1. NoFile.ver = 0 /\ NoFile.salt = 0 /\ NoFile.par = None /\ NoCache.salt = 0
  BY DEF NoFile, NoCache
<1>2. Salts'
  BY <1>1, SaltAssumption DEF Inv, Shape, Salts
<1>3. Remembers'
  BY <1>1, NoneApart DEF Remembers
<1>4. CachesSound'
  BY DEF Inv, CachesSound, Kept
<1>5. PasswordSound'
  BY DEF PasswordSound
<1> QED
  BY <1>2, <1>3, <1>4, <1>5 DEF Inv

\* The handle keeps what it has read of the file.
LEMMA StillInv ==
  ASSUME Inv, UNCHANGED <<file, salts, kept>>, Shape',
         db'.mem = db.mem, db'.digest = db.digest, db'.par = db.par \/ db.mem = None,
         db'.cache = db.cache \/ db'.cache = NoCache, PasswordSound'
  PROVE  Inv'
<1>1. db.mem = None => db.digest = NoFile
  BY DEF Inv, Remembers
<1>2. NoFile.ver = 0 /\ NoCache.salt = 0
  BY DEF NoFile, NoCache
<1>3. Salts'
  BY <1>2, SaltAssumption DEF Inv, Shape, Salts
<1>4. Remembers'
  <2>1. CASE db'.par = db.par
    BY <2>1 DEF Inv, Remembers
  <2>2. CASE db.mem = None
    <3>1. db'.digest = file' => file'.ver # 1 /\ file'.ver \notin {2, 3}
      BY <1>1, <1>2, <2>2
    <3> QED
      BY <3>1 DEF Inv, Remembers
  <2> QED
    BY <2>1, <2>2
<1>5. CachesSound'
  BY DEF Inv, CachesSound, Kept
<1> QED
  BY <1>3, <1>4, <1>5 DEF Inv

\* A database in memory may only replace the file it was read from, and has its parameters.
LEMMA Replaceable ==
  ASSUME Inv, db.mem # None, MayReplace(db)
  PROVE  db.digest = file /\ db.par \in Params /\ Kept(db.cache, db.par)
<1>1. db.digest # NoFile /\ file # NoFile
  BY DEF Inv, Remembers
<1>2. db.digest = file
  BY <1>1 DEF MayReplace
<1>3. file.ver \in 1..3
  BY <1>1 DEF Inv, Sound, Shape, Files
<1>4. CASE file.ver = 1
  <2>1. OldKey(file)
    BY <1>4 DEF OldKey
  <2> QED
    BY <1>2, <1>4, <2>1, NoneApart DEF Inv, Remembers, CachesSound, Kept
<1>5. CASE file.ver \in {2, 3}
  <2>1. db.par = file.par /\ file.par \in Params
    BY <1>2, <1>5 DEF Inv, Remembers, Sound
  <2> QED
    BY <1>2, <2>1 DEF Inv, CachesSound
<1> QED
  BY <1>3, <1>4, <1>5

\* The formats of a file that is found or put back.
LEMMA FileSound ==
  ASSUME NEW fmt \in Formats, NEW pwd \in Passwords, NEW par \in Params, NEW salt \in 0..MaxSalt
  PROVE  /\ Sound(File(fmt.ver, fmt.cut, pwd, salt, par))
         /\ fmt.ver # 1 /\ ~fmt.cut => ~OldKey(File(fmt.ver, fmt.cut, pwd, salt, par))
<1> DEFINE f == File(fmt.ver, fmt.cut, pwd, salt, par)
<1>1. /\ f \in Files /\ f.ver = fmt.ver /\ f.salt = salt
      /\ f.par = (IF fmt.ver = 1 THEN None ELSE par)
      /\ f.key = Derive(pwd, fmt.cut, salt, IF fmt.ver = 1 THEN None ELSE par)
  BY FileType
<1>2. fmt.ver \in 1..3 /\ fmt.cut \in BOOLEAN /\ (fmt.ver = 1 => fmt.cut) /\ (fmt.ver = 3 => ~fmt.cut)
  BY DEF Formats
<1> HIDE DEF f
<1>3. f.key = Derive(pwd, fmt.cut, f.salt, f.par)
  BY <1>1
<1>4. (~fmt.cut => f.key = Whole(pwd, f.salt, f.par)) /\ (fmt.cut => f.key = Shortened(pwd, f.salt, f.par))
  <2>1. CASE fmt.cut = TRUE
    BY <1>3, <2>1 DEF Shortened
  <2>2. CASE fmt.cut = FALSE
    BY <1>3, <2>2 DEF Whole
  <2> QED
    BY <1>2, <2>1, <2>2
<1>5. Opens(f, pwd)
  <2>1. CASE fmt.ver = 1
    <3>1. f.key = Shortened(pwd, f.salt, None)
      BY <1>1, <1>2, <1>4, <2>1
    <3> QED
      BY <1>1, <2>1, <3>1, OpensForms
  <2>2. CASE fmt.ver = 2
    BY <1>1, <1>4, <2>2, OpensForms
  <2>3. CASE fmt.ver = 3
    BY <1>1, <1>2, <1>4, <2>3, OpensForms
  <2> QED
    BY <1>2, <2>1, <2>2, <2>3
<1>6. Sound(f)
  <2>1. f.ver # 0
    BY <1>1, <1>2
  <2>2. f.ver \in {2, 3} => fmt.ver # 1
    BY <1>1
  <2> QED
    BY <1>1, <1>5, <2>1, <2>2, NoneApart DEF Sound
<1>7. fmt.ver # 1 /\ ~fmt.cut => ~OldKey(f)
  <2>1. ~fmt.cut => ~f.key.cut
    BY <1>4, KeyParts
  <2> QED
    BY <1>1, <2>1 DEF OldKey
<1> QED
  BY <1>6, <1>7 DEF f

\* At the start nothing is loaded and nothing is cached.
LEMMA InitInv == Init => Inv
<1> SUFFICES ASSUME Init PROVE Inv
  OBVIOUS
<1>1. Shape
  BY InitShape
<1>2. db.mem = None /\ db.digest = NoFile /\ db.cache = NoCache /\ db.key = None /\ kept = NoCache
  BY HandleType DEF Init
<1>3. NoFile.ver = 0 /\ NoFile.salt = 0 /\ NoFile.par = None /\ NoCache.salt = 0 /\ salts = 1
  BY DEF NoFile, NoCache, Init
<1>4. 1 \in 0..MaxSalt
  BY SaltAssumption
<1>5. Sound(file) /\ file.salt <= 1
  <2>1. CASE file = NoFile
    BY <1>3, <2>1 DEF Sound
  <2>2. CASE \E fmt \in Initial, pwd \in Passwords, par \in Params :
               file = File(fmt.ver, fmt.cut, pwd, 1, par)
    BY <1>4, <2>2, FileSound, FileType, FormatsAssumption
  <2> QED
    BY <2>1, <2>2 DEF Init
<1>6. Salts /\ Remembers /\ CachesSound /\ PasswordSound
  BY <1>2, <1>3, <1>5, NoneApart DEF Salts, Remembers, CachesSound, PasswordSound, Kept, Init
<1> QED
  BY <1>1, <1>5, <1>6 DEF Inv

\* A password that is submitted drops a cached key that belongs to another one.
LEMMA SubmitInv ==
  ASSUME NEW pwd \in Passwords, Shape'
  PROVE  Inv /\ Submit(pwd) => Inv'
<1> SUFFICES ASSUME Inv, Submit(pwd) PROVE Inv'
  OBVIOUS
<1>1. /\ db'.mem = db.mem /\ db'.digest = db.digest /\ db'.par = db.par
      /\ db'.cache = db.cache /\ db'.key = pwd /\ phase' = "running"
  BY DEF Inv, Shape, Submit, Handles
<1>2. PasswordSound'
  BY <1>1, NoneApart DEF PasswordSound
<1> QED
  BY <1>1, <1>2, StillInv DEF Submit

\* unlock_db_thread.
LEMMA LoadInv == Inv /\ Load /\ Shape' => Inv'
<1> SUFFICES ASSUME Inv, Load, Shape' PROVE Inv'
  OBVIOUS
<1> DEFINE r == Decrypt(db, file)
           h == r.h
<1>1. file \in Files /\ db \in Handles /\ salts \in 1..MaxSalt /\ phase = "running" /\ UNCHANGED kept
  BY DEF Inv, Shape, Load
<1>2. db.key \in Passwords
  BY <1>1 DEF Inv, PasswordSound, Handles
<1>3. \E par \in Params : Kept(db.cache, par)
  BY NoneApart DEF Inv, CachesSound, Kept
<1>4. h \in Handles /\ h.key = db.key /\ r.what \in {"ok", "bad_tag", "other"}
  BY <1>1, DecryptType
<1>5. r.what # "ok" => /\ h.digest = db.digest /\ h.cache = db.cache /\ h.mem = db.mem
                       /\ file.ver = 1 => h.par = Default
                       /\ file.ver \in {2, 3} => h.par = file.par
  BY <1>1, DecryptFails
<1>6. r.what = "ok" => /\ file.ver \in 1..3 /\ file.par # OutOfRange /\ Opens(file, db.key)
                       /\ h.digest = file /\ h.mem = file.holds
                       /\ file.ver = 1 => h.par = Default
                       /\ file.ver \in {2, 3} => h.par = file.par /\ file.par \in Params
                       /\ OldKey(file) => h.cache = NoCache
                       /\ ~OldKey(file) => /\ h.cache = [salt |-> file.salt, pwd |-> db.key, key |-> file.key]
                                           /\ file.key = Whole(db.key, file.salt, file.par)
  <2> SUFFICES ASSUME r.what = "ok"
               PROVE  /\ file.ver \in 1..3 /\ file.par # OutOfRange /\ Opens(file, db.key)
                      /\ h.digest = file /\ h.mem = file.holds
                      /\ file.ver = 1 => h.par = Default
                      /\ file.ver \in {2, 3} => h.par = file.par /\ file.par \in Params
                      /\ OldKey(file) => h.cache = NoCache
                      /\ ~OldKey(file) => /\ h.cache = [salt |-> file.salt, pwd |-> db.key, key |-> file.key]
                                          /\ file.key = Whole(db.key, file.salt, file.par)
    OBVIOUS
  <2>1. PICK par \in Params : Kept(db.cache, par)
    BY <1>3
  <2>2. Sound(file) /\ (OldKey(file) => db.cache = NoCache)
    BY DEF Inv, CachesSound
  <2> QED
    BY <1>1, <1>2, <2>1, <2>2, DecryptOk
<1>7. \/ ~Migrates(r) /\ db' = h /\ phase' = r.what /\ UNCHANGED <<file, salts>>
      \/ Migrates(r) /\ Saves(h) /\ db' = AfterSeal(h, file') /\ phase' = "ok"
      \/ Migrates(r) /\ db' = h /\ phase' = "other" /\ UNCHANGED <<file, salts>>
  BY DEF Load
<1> HIDE DEF r
<1>8. r.what = "ok" => /\ h.mem # None /\ h.par \in Params /\ Kept(h.cache, h.par)
                       /\ h.cache.salt <= salts
                       /\ h.cache # NoCache => h.par = file.par
  <2> SUFFICES ASSUME r.what = "ok"
               PROVE  /\ h.mem # None /\ h.par \in Params /\ Kept(h.cache, h.par)
                      /\ h.cache.salt <= salts
                      /\ h.cache # NoCache => h.par = file.par
    OBVIOUS
  <2>1. h.mem # None
    BY <1>1, <1>6, NoneApart DEF Files
  <2>2. h.par \in Params
    BY <1>6, NoneApart
  <2>3. CASE OldKey(file)
    <3>1. h.cache = NoCache /\ NoCache.salt = 0
      BY <1>6, <2>3 DEF NoCache
    <3> QED
      BY <1>1, <2>1, <2>2, <3>1, SaltAssumption DEF Kept
  <2>4. CASE ~OldKey(file)
    <3>1. file.ver \in {2, 3}
      BY <1>6, <2>4 DEF OldKey
    <3>2. h.par = file.par /\ file.salt <= salts
      BY <1>6, <3>1 DEF Inv, Salts
    <3>3. h.cache.salt = file.salt /\ h.cache.pwd = db.key /\ h.cache.key = file.key
      BY <1>6, <2>4
    <3>4. Kept(h.cache, h.par)
      BY <1>2, <1>6, <2>4, <3>2, <3>3 DEF Kept
    <3> QED
      BY <2>1, <2>2, <3>2, <3>3, <3>4
  <2> QED
    BY <2>3, <2>4
<1> HIDE DEF h
<1>9. CASE r.what # "ok" /\ db' = h /\ phase' = r.what /\ UNCHANGED <<file, salts>>
  <2>1. Salts' /\ CachesSound'
    BY <1>1, <1>5, <1>9 DEF Inv, Salts, CachesSound
  <2>2. Remembers'
    BY <1>5, <1>9 DEF Inv, Remembers
  <2>3. PasswordSound'
    BY <1>2, <1>4, <1>9, NoneApart DEF PasswordSound
  <2> QED
    BY <1>9, <2>1, <2>2, <2>3 DEF Inv
<1>10. CASE r.what = "ok" /\ db' = h /\ UNCHANGED <<file, salts>> /\ (phase' = "ok" => ~Migrates(r)) /\ phase' # "idle"
  <2>1. Salts'
    BY <1>1, <1>6, <1>8, <1>10 DEF Inv, Salts
  <2>2. Remembers'
    <3>1. file # NoFile
      BY <1>6, <1>10 DEF NoFile
    <3> QED
      BY <1>6, <1>8, <1>10, <3>1 DEF Remembers
  <2>3. CachesSound'
    <3>1. db'.cache # NoCache => db'.digest.par \in Params /\ db'.digest.par = db'.par
      BY <1>6, <1>8, <1>10
    <3>2. Kept(db'.cache, db'.digest.par)
      BY <1>8, <1>10, <3>1 DEF Kept
    <3>3. (\E par \in Params : Kept(kept', par)) /\ (OldKey(file') => kept' = NoCache)
      BY <1>1, <1>10 DEF Inv, CachesSound
    <3>4. OldKey(file') => db'.cache = NoCache
      BY <1>6, <1>10
    <3> QED
      BY <3>1, <3>2, <3>3, <3>4 DEF CachesSound
  <2>4. PasswordSound'
    <3>1. db'.key # None
      BY <1>2, <1>4, <1>10, NoneApart
    <3>2. phase' = "ok" => file.ver = 3
      BY <1>6, <1>10 DEF Migrates
    <3>3. phase' = "ok" => Opens(db'.digest, db'.key) /\ db'.par = db'.digest.par
      BY <1>4, <1>6, <1>10, <3>2
    <3> QED
      BY <1>10, <3>1, <3>3 DEF PasswordSound
  <2> QED
    BY <1>10, <2>1, <2>2, <2>3, <2>4 DEF Inv
<1>11. CASE Migrates(r) /\ Saves(h) /\ db' = AfterSeal(h, file')
  <2>1. r.what = "ok"
    BY <1>11 DEF Migrates
  <2>2. FirstRun(h) = h
    BY <1>8, <2>1 DEF FirstRun
  <2> QED
    BY <1>1, <1>2, <1>4, <1>8, <1>11, <2>1, <2>2, SealInv
<1>12. Migrates(r) => r.what = "ok"
  BY DEF Migrates
<1> QED
  BY <1>4, <1>7, <1>9, <1>10, <1>11, <1>12

\* on_unlock_done.
LEMMA DoneInv == Inv /\ Done /\ Shape' => Inv'
<1> SUFFICES ASSUME Inv, Done, Shape' PROVE Inv'
  OBVIOUS
<1>1. db \in Handles /\ phase' = "idle" /\ UNCHANGED <<file, salts, kept>>
  BY DEF Inv, Shape, Done
<1>2. CASE db' = PurgeSecrets(db) \/ db' = NoDb
  <2>1. NoDb.mem = None /\ NoDb.digest = NoFile /\ NoDb.cache = NoCache
    BY DEF NoDb
  <2> QED
    BY <1>1, <1>2, <2>1, PurgedType, EmptiedInv
<1>3. CASE phase = "ok" /\ UNCHANGED db
  <2>1. PasswordSound'
    BY <1>1, <1>3 DEF Inv, PasswordSound
  <2> QED
    BY <1>1, <1>3, <2>1, StillInv
<1>4. CASE db' = BadTag(db)
  <2>1. /\ db'.mem = db.mem /\ db'.digest = db.digest /\ db'.par = db.par
        /\ db'.cache = NoCache /\ db'.key = None
    BY <1>1, <1>4, PurgedType
  <2>2. PasswordSound'
    BY <1>1, <2>1 DEF PasswordSound
  <2> QED
    BY <1>1, <2>1, <2>2, StillInv
<1> QED
  BY <1>2, <1>3, <1>4 DEF Done

\* The lock forgets password, tokens and cached key.
LEMMA LockInv == Inv /\ Lock /\ Shape' => Inv'
<1> SUFFICES ASSUME Inv, Lock, Shape' PROVE Inv'
  OBVIOUS
<1>1. db \in Handles /\ UNCHANGED <<file, salts, phase, kept>>
  BY DEF Inv, Shape, Lock
<1>2. CASE phase = "idle"
  BY <1>1, <1>2, PurgedType, EmptiedInv DEF Lock
<1>3. CASE phase # "idle"
  <2>1. db' = db
    BY <1>3 DEF Lock
  <2>2. PasswordSound'
    BY <1>1, <2>1 DEF Inv, PasswordSound
  <2> QED
    BY <1>1, <2>1, <2>2, StillInv
<1> QED
  BY <1>2, <1>3

\* Another database, or another start of the program, begins with a new handle.
LEMMA ReopenInv == Inv /\ (Reopen \/ Restart) /\ Shape' => Inv'
<1> SUFFICES ASSUME Inv, Reopen \/ Restart, Shape' PROVE Inv'
  OBVIOUS
<1>1. db' = Handle(None) /\ phase' = "idle" /\ UNCHANGED <<file, salts, kept>>
  BY DEF Reopen, Restart
<1> QED
  BY <1>1, HandleType, EmptiedInv

\* A database that is created is sealed with its own password and the default parameters.
LEMMA CreateInv ==
  ASSUME NEW pwd \in Passwords, Shape'
  PROVE  Inv /\ Create(pwd) => Inv'
<1> SUFFICES ASSUME Inv, Create(pwd) PROVE Inv'
  OBVIOUS
<1> DEFINE h == [Handle(pwd) EXCEPT !.par = Default]
<1>1. h \in Handles /\ h.mem = None /\ h.par = Default /\ h.key = pwd /\ h.cache = NoCache
  BY HandleType, NoneApart DEF Handles
<1>2. Saves(h) /\ db' = AfterSeal(h, file') /\ UNCHANGED kept
  BY DEF Create
<1> HIDE DEF h
<1>3. FirstRun(h) = h
  BY <1>1 DEF FirstRun, Handles
<1>4. NoCache.salt <= salts
  BY SaltAssumption DEF NoCache, Inv, Shape
<1> QED
  BY <1>1, <1>2, <1>3, <1>4, NoneApart, SealInv DEF Kept

\* A save of what the window holds, with its own key or another, its own parameters or
\* others: in both cases the cache is only used with the parameters of the file.
LEMMA WindowSave ==
  ASSUME Inv, NEW h \in Handles, Saves(h), db' = AfterSeal(FirstRun(h), file'), UNCHANGED kept, Shape',
         h.key \in Passwords, h.mem = db.mem, h.digest = db.digest,
         h.par = db.par \/ h.par \in Params,
         h.cache = NoCache \/ (h.cache = db.cache /\ h.par = db.par)
  PROVE  Inv'
<1>1. MayReplace(h) <=> MayReplace(db)
  BY DEF MayReplace
<1>2. MayReplace(db)
  BY <1>1 DEF Saves
<1>3. h.cache.salt <= salts
  BY SaltAssumption DEF NoCache, Inv, Shape, Salts
<1>4. FirstRun(h).par = (IF h.mem = None THEN Default ELSE h.par)
  BY FirstRunType
<1>5. CASE db.mem = None
  <2>1. db.cache = NoCache
    BY <1>5, NoneApart DEF Inv, Remembers, CachesSound, NoFile
  <2> QED
    BY <1>3, <1>4, <1>5, <2>1, NoneApart, SealInv DEF Kept
<1>6. CASE db.mem # None
  <2>1. db.par \in Params /\ Kept(db.cache, db.par)
    BY <1>2, <1>6, Replaceable
  <2>2. FirstRun(h).par = h.par /\ h.par \in Params
    BY <1>4, <1>6, <2>1
  <2>3. Kept(h.cache, FirstRun(h).par)
    BY <2>1, <2>2 DEF Kept
  <2> QED
    BY <1>3, <2>2, <2>3, SealInv
<1> QED
  BY <1>5, <1>6

\* A save seals the file anew, or changes nothing.
LEMMA SaveInv == Inv /\ Save /\ Shape' => Inv'
<1> SUFFICES ASSUME Inv, Save, Shape' PROVE Inv'
  OBVIOUS
<1>1. db \in Handles /\ db.key \in Passwords
  BY DEF Inv, Shape, Save, Handles
<1> QED
  BY <1>1, WindowSave DEF Save

\* A password is changed in the file and in memory, or in neither.
LEMMA ChangePasswordInv ==
  ASSUME NEW pwd \in Passwords, Shape'
  PROVE  Inv /\ ChangePassword(pwd) => Inv'
<1> SUFFICES ASSUME Inv, ChangePassword(pwd) PROVE Inv'
  OBVIOUS
<1> DEFINE h == NewKey(db, pwd)
<1>1. db \in Handles /\ db.key \in Passwords
  BY DEF Inv, Shape, ChangePassword, Handles
<1>2. /\ h \in Handles /\ h.key = pwd /\ h.mem = db.mem /\ h.par = db.par
      /\ h.digest = db.digest /\ h.cache = NoCache
  BY <1>1, BackType, NoneApart
<1>3. UNCHANGED <<phase, kept>>
  BY DEF ChangePassword
<1>4. \/ Saves(h) /\ db' = AfterSeal(FirstRun(h), file')
      \/ db' = KeyBack(FirstRun(h), db.key) /\ UNCHANGED <<file, salts>>
  BY DEF ChangePassword, SaveFails
<1> HIDE DEF h
<1>5. CASE Saves(h) /\ db' = AfterSeal(FirstRun(h), file')
  BY <1>2, <1>3, <1>5, WindowSave
<1>6. CASE db' = KeyBack(FirstRun(h), db.key) /\ UNCHANGED <<file, salts>>
  <2>1. /\ FirstRun(h) \in Handles /\ FirstRun(h).mem = db.mem /\ FirstRun(h).digest = db.digest
        /\ FirstRun(h).par = IF db.mem = None THEN Default ELSE db.par
    BY <1>2, FirstRunType
  <2>2. /\ db'.mem = db.mem /\ db'.digest = db.digest /\ db'.par = FirstRun(h).par
        /\ db'.key = db.key /\ db'.cache = NoCache
    BY <1>1, <1>6, <2>1, BackType, NoneApart
  <2>3. PasswordSound'
    BY <1>1, <1>3, <2>1, <2>2, NoneApart DEF Inv, PasswordSound
  <2> QED
    BY <1>3, <1>6, <2>1, <2>2, <2>3, StillInv
<1> QED
  BY <1>4, <1>5, <1>6

\* So are the parameters.
LEMMA UpdateKdfInv ==
  ASSUME NEW par \in Params, Shape'
  PROVE  Inv /\ UpdateKdf(par) => Inv'
<1> SUFFICES ASSUME Inv, UpdateKdf(par) PROVE Inv'
  OBVIOUS
<1> DEFINE h == NewParams(db, par)
<1>1. db \in Handles /\ db.key \in Passwords /\ db.par \in Params \cup {None, OutOfRange}
  BY DEF Inv, Shape, UpdateKdf, Handles
<1>2. /\ h \in Handles /\ h.key = db.key /\ h.mem = db.mem /\ h.par = par
      /\ h.digest = db.digest /\ h.cache = NoCache
  BY <1>1, BackType
<1>3. UNCHANGED <<phase, kept>>
  BY DEF UpdateKdf
<1>4. \/ Saves(h) /\ db' = AfterSeal(FirstRun(h), file')
      \/ db' = ParamsBack(FirstRun(h), db.par) /\ UNCHANGED <<file, salts>>
  BY DEF UpdateKdf, SaveFails
<1> HIDE DEF h
<1>5. CASE Saves(h) /\ db' = AfterSeal(FirstRun(h), file')
  BY <1>1, <1>2, <1>3, <1>5, WindowSave
<1>6. CASE db' = ParamsBack(FirstRun(h), db.par) /\ UNCHANGED <<file, salts>>
  <2>1. /\ FirstRun(h) \in Handles /\ FirstRun(h).mem = db.mem
        /\ FirstRun(h).digest = db.digest /\ FirstRun(h).key = db.key
    BY <1>2, FirstRunType
  <2>2. /\ db'.mem = db.mem /\ db'.digest = db.digest /\ db'.par = db.par
        /\ db'.key = db.key /\ db'.cache = NoCache
    BY <1>1, <1>6, <2>1, BackType
  <2>3. PasswordSound'
    BY <1>1, <1>3, <2>2, NoneApart DEF Inv, PasswordSound
  <2> QED
    BY <1>3, <1>6, <2>2, <2>3, StillInv
<1> QED
  BY <1>4, <1>5, <1>6

\* A load marks the password as one that must be cut for a version 2 file only.
LEMMA LegacyOnlyV2 ==
  ASSUME NEW h \in Handles, NEW f \in Files, f.ver = 3, ~h.legacy
  PROVE  ~Decrypt(h, f).h.legacy
<1> DEFINE g == WithHeader(h, f)
           r == Decrypt(h, f)
<1>1. Outcome(h, g, f, r)
  BY Outcomes
<1>2. g \in Handles /\ ~g.legacy
  BY HeaderType DEF WithHeader, Handles
<1>3. f.salt \in 0..MaxSalt /\ f.key \in Keys
  BY DEF Files
<1>4. f.ver # 0 /\ f.ver # 1 /\ f.ver # 2
  OBVIOUS
<1> HIDE DEF g, r
<1> SUFFICES ~r.h.legacy
  BY DEF r
<1>5. CASE r = Result(g, "other") \/ r = Result(g, "bad_tag")
  BY <1>2, <1>5 DEF Result
<1>6. CASE r = Result(Read(Cached(g, f.salt, f.key), f), "ok")
  <2>1. r.h = Read(Cached(g, f.salt, f.key), f)
    BY <1>6 DEF Result
  <2>2. Cached(g, f.salt, f.key) \in Handles /\ ~Cached(g, f.salt, f.key).legacy
    BY <1>2, <1>3, CachedType DEF Cached, Handles
  <2> QED
    BY <2>1, <2>2 DEF Read, Handles
<1> QED
  BY <1>1, <1>4, <1>5, <1>6 DEF Outcome

\* Another program replaces the file, or damages it: the window notices.
LEMMA ReplacedInv ==
  ASSUME Inv, UNCHANGED <<db, phase>>, Shape', Sound(file'), file' # db.digest,
         file' # NoFile, ~OldKey(file'),
         file'.salt <= salts', salts <= salts', kept'.salt <= salts',
         file'.ver < 3 /\ db.digest.salt = file'.salt => db.digest.ver < 3,
         \E par \in Params : Kept(kept', par)
  PROVE  Inv'
<1>1. /\ salts \in Nat /\ salts' \in Nat /\ db.digest.salt \in Nat /\ db.cache.salt \in Nat
  BY SaltAssumption DEF Inv, Shape, Handles, Files, Caches
<1>2. Salts'
  BY <1>1 DEF Inv, Salts
<1>3. Remembers'
  BY DEF Inv, Remembers
<1>4. CachesSound'
  BY DEF Inv, CachesSound
<1>5. PasswordSound'
  BY DEF Inv, PasswordSound
<1> QED
  BY <1>2, <1>3, <1>4, <1>5 DEF Inv

\* load_and_decrypt of the search provider, and the command line.
LEMMA ProviderLoadInv ==
  ASSUME NEW pwd \in Passwords, Shape'
  PROVE  Inv /\ ProviderLoad(pwd) => Inv'
<1> SUFFICES ASSUME Inv, ProviderLoad(pwd) PROVE Inv'
  OBVIOUS
<1> DEFINE s == Seeded(pwd)
           r == Decrypt(s, file)
           h == r.h
<1>1. /\ file \in Files /\ salts \in 1..MaxSalt /\ kept \in Caches /\ kept.salt <= salts
      /\ salts \in Nat /\ kept.salt \in Nat /\ file.salt \in Nat /\ file.salt <= salts
      /\ db.digest.salt <= salts /\ db.digest.salt \in Nat
  BY SaltAssumption DEF Inv, Shape, Salts, Caches, Files, Handles
<1>2. s \in Handles /\ s.cache = kept /\ s.key = pwd /\ ~s.legacy
  BY <1>1, SeededType DEF Seeded, Handle, NoDb
<1>3. UNCHANGED <<db, phase>>
  BY DEF ProviderLoad
<1>4. \/ r.what = "ok" /\ ~Migrates(r) /\ kept' = h.cache /\ UNCHANGED <<file, salts>>
      \/ Migrates(r) /\ Saves(h) /\ kept' = AfterSeal(h, file').cache
  BY DEF ProviderLoad
<1>5. r.what = "ok"
  BY <1>4 DEF Migrates
<1>6. PICK par \in Params : Kept(kept, par)
  BY DEF Inv, CachesSound
<1> HIDE DEF s
<1>7. /\ file.ver \in 1..3 /\ file.par # OutOfRange
      /\ h.digest = file /\ h.mem = file.holds
      /\ file.ver = 1 => h.par = Default
      /\ file.ver \in {2, 3} => h.par = file.par /\ file.par \in Params
      /\ OldKey(file) => h.cache = NoCache
      /\ ~OldKey(file) => /\ h.cache = [salt |-> file.salt, pwd |-> pwd, key |-> file.key]
                          /\ file.key = Whole(pwd, file.salt, file.par)
  <2>1. Sound(file) /\ (OldKey(file) => s.cache = NoCache)
    BY <1>2 DEF Inv, CachesSound
  <2>2. s.key \in Passwords /\ Kept(s.cache, par)
    BY <1>2, <1>6
  <2> QED
    BY <1>1, <1>2, <1>5, <2>1, <2>2, DecryptOk
<1>8. h \in Handles /\ h.key = pwd
  BY <1>1, <1>2, DecryptType
<1>9. file.ver = 3 => ~h.legacy
  BY <1>1, <1>2, LegacyOnlyV2
<1> HIDE DEF r
<1>10. h.mem # None /\ h.par \in Params
  BY <1>1, <1>7, NoneApart DEF Files
<1>11. h.cache = NoCache \/ /\ file.ver \in {2, 3} /\ h.par = file.par /\ h.cache.salt = file.salt
                            /\ h.cache.pwd = pwd /\ h.cache.key = file.key
                            /\ file.key = Whole(pwd, file.salt, file.par)
  <2>1. CASE OldKey(file)
    BY <1>7, <2>1
  <2>2. CASE ~OldKey(file)
    <3>1. file.ver \in {2, 3}
      BY <1>7, <2>2 DEF OldKey
    <3> QED
      BY <1>7, <2>2, <3>1
  <2> QED
    BY <2>1, <2>2
<1>12. Kept(h.cache, h.par) /\ h.cache.salt <= salts
  BY <1>1, <1>11 DEF Kept, NoCache
<1>13. CASE ~Migrates(r) /\ kept' = h.cache /\ UNCHANGED <<file, salts>>
  <2>1. file.ver = 3
    BY <1>5, <1>7, <1>13 DEF Migrates
  <2>2. Salts'
    BY <1>3, <1>12, <1>13 DEF Inv, Salts
  <2>3. CachesSound'
    <3>1. ~OldKey(file)
      BY <1>7, <2>1, OpensForms, KeyParts DEF OldKey
    <3> QED
      BY <1>3, <1>10, <1>12, <1>13, <3>1 DEF Inv, CachesSound
  <2>4. Remembers' /\ PasswordSound'
    BY <1>3, <1>13 DEF Inv, Remembers, PasswordSound
  <2> QED
    BY <1>13, <2>2, <2>3, <2>4 DEF Inv
<1>14. CASE Migrates(r) /\ Saves(h) /\ kept' = AfterSeal(h, file').cache
  <2>1. file.ver < 3
    BY <1>5, <1>7, <1>9, <1>14 DEF Migrates
  <2>2. FirstRun(h) = h
    BY <1>10 DEF FirstRun
  <2>3. /\ file'.ver = 3 /\ file' \in Files /\ salts' \in 1..MaxSalt
        /\ kept' = [salt |-> file'.salt, pwd |-> pwd, key |-> file'.key]
    BY <1>1, <1>8, <1>14, <2>2, SealType
  <2>4. /\ file'.key = Whole(pwd, file'.salt, h.par)
        /\ Sound(file') /\ ~OldKey(file')
        /\ file'.salt <= salts' /\ salts <= salts'
        /\ file'.salt = IF h.cache # NoCache THEN h.cache.salt ELSE salts + 1
    BY <1>1, <1>8, <1>10, <1>12, <1>14, <2>2, SealKey
  <2>5. file' # db.digest
    <3>1. CASE h.cache = NoCache
      <4>1. file'.salt > db.digest.salt
        BY <1>1, <2>4, <3>1
      <4> QED
        BY <4>1, <1>1
    <3>2. CASE h.cache # NoCache
      <4>1. file'.salt = file.salt
        BY <1>11, <2>4, <3>2
      <4>2. db.digest.salt = file.salt => db.digest.ver < 3
        BY <2>1 DEF Inv, Remembers
      <4>3. ~(file'.ver < 3)
        BY <2>3
      <4> QED
        BY <4>1, <4>2, <4>3
    <3> QED
      BY <3>1, <3>2
  <2>6. kept'.salt = file'.salt /\ kept'.pwd = pwd /\ kept'.key = file'.key
    BY <2>3
  <2>7. Kept(kept', h.par)
    BY <2>4, <2>6 DEF Kept
  <2>8. file' # NoFile /\ ~(file'.ver < 3)
    BY <2>3 DEF NoFile
  <2> QED
    BY <1>3, <1>10, <2>4, <2>5, <2>6, <2>7, <2>8, ReplacedInv
<1> QED
  BY <1>4, <1>13, <1>14

\* on_db_file_changed and idle_wipe_check.
LEMMA ProviderForgetsInv == Inv /\ ProviderForgets /\ Shape' => Inv'
<1> SUFFICES ASSUME Inv, ProviderForgets, Shape' PROVE Inv'
  OBVIOUS
<1>1. kept' = NoCache /\ UNCHANGED <<file, salts, db, phase>>
  BY DEF ProviderForgets
<1>2. Salts'
  BY <1>1, SaltAssumption DEF Inv, Shape, Salts, NoCache
<1>3. CachesSound'
  BY <1>1, NoneApart DEF Inv, CachesSound, Kept
<1>4. Remembers' /\ PasswordSound'
  BY <1>1 DEF Inv, Remembers, PasswordSound
<1> QED
  BY <1>1, <1>2, <1>3, <1>4 DEF Inv

\* A file of a current format takes the place of the one on disk.
LEMMA PutBackInv ==
  ASSUME CurrentOld, NEW fmt \in Old, NEW pwd \in Passwords, NEW par \in Params, Shape'
  PROVE  Inv /\ PutBack(fmt, pwd, par) => Inv'
<1> SUFFICES ASSUME Inv, PutBack(fmt, pwd, par) PROVE Inv'
  OBVIOUS
<1>1. /\ salts \in Nat /\ salts + 1 \in 0..MaxSalt /\ salts' = salts + 1
      /\ db.digest.salt <= salts /\ db.digest.salt \in Nat
      /\ kept.salt <= salts /\ kept.salt \in Nat
  BY SaltAssumption DEF Inv, Shape, Salts, Handles, Files, Caches, PutBack
<1>2. file' = File(fmt.ver, fmt.cut, pwd, salts + 1, par) /\ UNCHANGED <<db, phase, kept>>
  BY DEF PutBack
<1>3. fmt \in Formats /\ fmt.ver # 1 /\ ~fmt.cut /\ fmt.ver # 0
  BY FormatsAssumption DEF CurrentOld, Formats
<1>4. file'.salt = salts + 1 /\ file'.ver = fmt.ver /\ Sound(file') /\ ~OldKey(file')
  BY <1>1, <1>2, <1>3, FileType, FileSound
<1>5. file' # NoFile /\ file' # db.digest /\ db.digest.salt # file'.salt
  <2>1. db.digest.salt # salts + 1
    BY <1>1
  <2> QED
    BY <1>3, <1>4, <2>1 DEF NoFile
<1>6. file'.salt <= salts' /\ salts <= salts' /\ kept'.salt <= salts'
  BY <1>1, <1>2, <1>4
<1>7. \E q \in Params : Kept(kept', q)
  BY <1>2 DEF Inv, CachesSound
<1> QED
  BY <1>2, <1>4, <1>5, <1>6, <1>7, ReplacedInv

\* The header is damaged.
LEMMA DamageInv == Inv /\ Damage /\ Shape' => Inv'
<1> SUFFICES ASSUME Inv, Damage, Shape' PROVE Inv'
  OBVIOUS
<1>1. /\ file'.ver = file.ver /\ file'.salt = file.salt /\ file'.key = file.key
      /\ file'.par = OutOfRange /\ file.ver \in {2, 3}
      /\ UNCHANGED <<salts, db, phase, kept>>
  BY DEF Damage, Inv, Shape, Files
<1>2. file # NoFile /\ file' # NoFile /\ db.digest # file' /\ file.ver # 1 /\ file.ver # 0
  BY <1>1 DEF NoFile, Inv, Remembers
<1>3. Sound(file')
  BY <1>1, <1>2 DEF Sound
<1>4. Salts'
  BY <1>1 DEF Inv, Salts
<1>5. Remembers'
  BY <1>1, <1>2 DEF Inv, Remembers
<1>6. CachesSound'
  BY <1>1 DEF Inv, CachesSound, OldKey
<1>7. PasswordSound'
  BY <1>1 DEF Inv, PasswordSound
<1> QED
  BY <1>3, <1>4, <1>5, <1>6, <1>7 DEF Inv

\* Every step keeps the invariant.
LEMMA NextInv ==
  ASSUME CurrentOld
  PROVE  Inv /\ [Next]_vars => Inv'
<1> SUFFICES ASSUME Inv, [Next]_vars PROVE Inv'
  OBVIOUS
<1>1. Shape'
  BY NextShape DEF Inv
<1>2. CASE UNCHANGED vars
  BY <1>1, <1>2 DEF vars, Inv, Sound, OldKey, Salts, Remembers, CachesSound, PasswordSound
<1>3. CASE Next
  BY <1>1, <1>3, SubmitInv, LoadInv, DoneInv, LockInv, ReopenInv, CreateInv, SaveInv,
     ChangePasswordInv, UpdateKdfInv, ProviderLoadInv, ProviderForgetsInv, PutBackInv, DamageInv
  DEF Next
<1> QED
  BY <1>2, <1>3

\* Keys, caches, digests and files fit together in every state, provided nobody puts
\* a file of an older format back.
THEOREM Keyed ==
  ASSUME CurrentOld
  PROVE  Spec => []Inv
<1>1. Init => Inv
  BY InitInv
<1>2. Inv /\ [Next]_vars => Inv'
  BY NextInv
<1> QED
  BY <1>1, <1>2, PTL DEF Spec

\* A file that is there and was not damaged opens with some password: the key a save
\* takes from a cache was derived with the parameters the save writes beside it.
THEOREM Reopens ==
  ASSUME CurrentOld
  PROVE  Spec => []FileOpens
<1>1. Inv => FileOpens
  <2> SUFFICES ASSUME Sound(file), file # NoFile, file.par # OutOfRange
               PROVE  \E pwd \in Passwords : Opens(file, pwd)
    BY DEF Inv, FileOpens
  <2> QED
    BY DEF Sound
<1> QED
  BY <1>1, Keyed, PTL

\* Between two unlocks the parameters in db_data are those of the cached key.
THEOREM Derived ==
  ASSUME CurrentOld
  PROVE  Spec => []CacheIsDerived
<1>1. Inv => CacheIsDerived
  <2> SUFFICES ASSUME Inv, phase = "idle", db.cache # NoCache
               PROVE  db.cache.key = Derive(db.cache.pwd, FALSE, db.cache.salt, db.par)
    BY DEF CacheIsDerived
  <2>1. db.digest.par \in Params /\ db.cache.key = Whole(db.cache.pwd, db.cache.salt, db.digest.par)
    BY DEF Inv, CachesSound, Kept
  <2>2. db.digest # NoFile
    BY <2>1, NoneApart DEF NoFile
  <2>3. db.mem # None /\ db.key # None
    BY <2>2 DEF Inv, Remembers, PasswordSound
  <2>4. db.par = db.digest.par
    BY <2>3 DEF Inv, PasswordSound
  <2> QED
    BY <2>1, <2>4 DEF Whole
<1> QED
  BY <1>1, Keyed, PTL

\* The password and the parameters a handle holds are those of its file.
THEOREM HandleOpensFile ==
  ASSUME CurrentOld
  PROVE  Spec => []KeyOpensFile
<1>1. Inv => KeyOpensFile
  BY DEF Inv, PasswordSound, KeyOpensFile
<1> QED
  BY <1>1, Keyed, PTL

\* A load succeeds only with a password of the file, cached key or not.
THEOREM Admits ==
  ASSUME CurrentOld
  PROVE  Spec => LoadsOnlyWithPassword
<1>1. Inv /\ [Next]_vars => [phase = "running" /\ phase' = "ok" => Opens(file, db.key)]_vars
  <2> SUFFICES ASSUME Inv, Next, phase = "running", phase' = "ok"
               PROVE  Opens(file, db.key)
    BY Zenon
  <2>1. Load
    BY DEF Next, Submit, Create, ChangePassword, ProviderLoad, Done, Lock, Reopen, Restart, Save,
           UpdateKdf, ProviderForgets, Damage, PutBack
  <2>2. file \in Files /\ db \in Handles /\ Sound(file) /\ (OldKey(file) => db.cache = NoCache)
    BY DEF Inv, Shape, CachesSound
  <2>3. db.key \in Passwords
    BY <2>2 DEF Inv, PasswordSound, Handles
  <2>4. Decrypt(db, file).what = "ok"
    BY <2>1 DEF Load, Migrates
  <2>5. PICK par \in Params : Kept(db.cache, par)
    BY NoneApart DEF Inv, CachesSound, Kept
  <2> QED
    BY <2>2, <2>3, <2>4, <2>5, DecryptOk
<1> QED
  BY <1>1, Keyed, PTL DEF Spec, LoadsOnlyWithPassword
=============================================================================
