------------------------ MODULE SearchProviderProofs ------------------------
(***************************************************************************)
(* The search daemon, for any tokens, files, callers and number of         *)
(* results.  A capability that may still be used has not been, because it  *)
(* leaves the table with the only activation it allows; and it still       *)
(* stands for a token of the file unless the file has been replaced since. *)
(***************************************************************************)
EXTENDS SearchProvider, SequenceTheorems, TLAPS

-----------------------------------------------------------------------------
(* The invariant.                                                          *)

\* A capability.
Results == [sender : Senders, query : Queries, label : Tokens, index : Nat \ {0},
            expired : BOOLEAN, used : BOOLEAN, fresh : BOOLEAN]

\* The token a capability was issued for is where it was, unless the file is another.
Standing(r, f) == r.fresh => r.index \in DOMAIN f /\ f[r.index] = r.label

\* The values of the variables, the table of capabilities apart.
Values ==
  /\ file \in Files
  /\ password \in BOOLEAN /\ listed \in BOOLEAN /\ monitor \in BOOLEAN
  /\ derived \in BOOLEAN /\ (event => monitor)
  /\ entries # NotLoaded =>
       DOMAIN entries \subseteq Nat \ {0} /\ \A i \in DOMAIN entries : entries[i] \in Totp
  /\ cachedAt \in {"zero", "set", "old"} /\ (cachedAt # "zero" => entries # NotLoaded)
  /\ bucket \in 0..Burst
  /\ active \in {"zero", "set", "old"}
  /\ handler # NoSearch => handler.sender \in Senders /\ handler.query \in Queries

\* Capabilities are of results that were given out, no two of them under one id, and
\* are gone once they have been used.
Capabilities ==
  /\ searches \in Nat
  /\ caps \subseteq DOMAIN results /\ DOMAIN results \subseteq (1..searches) \X (Nat \ {0})
  /\ \A id \in DOMAIN results : results[id] \in Results /\ Standing(results[id], file)
  /\ \A id \in caps : ~results[id].used

\* All of it: a cache that is served follows the file as well.
Inv == Values /\ Capabilities /\ CacheFollowsFile

-----------------------------------------------------------------------------
(* The operators.                                                          *)

\* What a load finds: entries at positions of the file.
LEMMA LoadedType ==
  ASSUME Values
  PROVE  /\ Loaded # NotLoaded
         /\ DOMAIN Loaded \subseteq Nat \ {0} /\ \A i \in DOMAIN Loaded : Loaded[i] \in Totp
         /\ Loaded \in {EntriesOf(file), NoEntries}
<1>1. file \in Seq(Tokens)
  BY FilesAssumption DEF Values
<1>2. DOMAIN file = 1..Len(file) /\ Len(file) \in Nat
  BY <1>1, LenProperties
<1>3. DOMAIN NotLoaded = {0} /\ DOMAIN NoEntries = {}
  BY DEF NotLoaded, NoEntries
<1>4. /\ DOMAIN EntriesOf(file) \subseteq Nat \ {0}
      /\ \A i \in DOMAIN EntriesOf(file) : EntriesOf(file)[i] \in Totp
  BY <1>2 DEF EntriesOf
<1>5. Loaded = EntriesOf(file) \/ Loaded = NoEntries
  BY DEF Loaded
<1> QED
  BY <1>3, <1>4, <1>5

\* The capabilities a search issues have new ids, and stand for tokens of the file if
\* that is where the entries come from.
LEMMA IssuedType ==
  ASSUME NEW sender \in Senders, NEW query \in Queries, NEW es, searches \in Nat,
         DOMAIN es \subseteq Nat \ {0}, \A i \in DOMAIN es : es[i] \in Totp
  PROVE  LET new == Issued(sender, query, es)
         IN  /\ DOMAIN new \subseteq {searches + 1} \X (Nat \ {0})
             /\ \A id \in DOMAIN new :
                  new[id] \in Results /\ ~new[id].used /\ Standing(new[id], file)
<1> DEFINE new == Issued(sender, query, es)
           hits == {i \in DOMAIN es : es[i] \in Matches[query]}
           now == es = EntriesOf(file)
<1>1. DOMAIN new = {searches + 1} \X hits
  BY DEF Issued
<1>2. ASSUME NEW id \in DOMAIN new
      PROVE  new[id] \in Results /\ ~new[id].used /\ Standing(new[id], file)
  <2>1. id[2] \in DOMAIN es /\ es[id[2]] \in Totp /\ id[2] \in Nat \ {0}
    BY <1>1
  <2>2. es[id[2]] \in Tokens
    BY <2>1, TotpAssumption
  <2>3. now \in BOOLEAN
    BY Zenon
  <2>4. now => id[2] \in DOMAIN file /\ file[id[2]] = es[id[2]]
    <3>1. now => id[2] \in DOMAIN EntriesOf(file) /\ es[id[2]] = EntriesOf(file)[id[2]]
      BY <2>1
    <3> QED
      BY <3>1 DEF EntriesOf
  <2>5. new[id] = [sender |-> sender, query |-> query, label |-> es[id[2]], index |-> id[2],
                   expired |-> FALSE, used |-> FALSE, fresh |-> now]
    BY <1>1 DEF Issued
  <2> HIDE DEF new, now
  <2> QED
    BY <2>1, <2>2, <2>3, <2>4, <2>5 DEF Results, Standing
<1> QED
  BY <1>1, <1>2

\* A search answered from entries of positions and TOTP tokens.
LEMMA AnswerCaps ==
  ASSUME Capabilities, NEW sender \in Senders, NEW query \in Queries, NEW es,
         DOMAIN es \subseteq Nat \ {0}, \A i \in DOMAIN es : es[i] \in Totp,
         Answer(sender, query, es), file' = file
  PROVE  Capabilities'
<1> DEFINE new == Issued(sender, query, es)
<1>1. searches \in Nat
  BY DEF Capabilities
<1>2. /\ DOMAIN new \subseteq {searches + 1} \X (Nat \ {0})
      /\ \A id \in DOMAIN new : new[id] \in Results /\ ~new[id].used /\ Standing(new[id], file)
  BY <1>1, IssuedType
<1>3. \/ DOMAIN new = {} /\ UNCHANGED <<results, searches, caps>>
      \/ /\ results' = [id \in DOMAIN results \cup DOMAIN new |->
                         IF id \in DOMAIN new THEN new[id] ELSE results[id]]
         /\ searches' = searches + 1 /\ caps' = Pruned \cup DOMAIN new
  BY DEF Answer
<1> HIDE DEF new
<1>5. CASE UNCHANGED <<results, searches, caps>>
  BY <1>5 DEF Capabilities
<1>6. CASE /\ results' = [id \in DOMAIN results \cup DOMAIN new |->
                           IF id \in DOMAIN new THEN new[id] ELSE results[id]]
           /\ searches' = searches + 1 /\ caps' = Pruned \cup DOMAIN new
  <2>1. /\ DOMAIN results' = DOMAIN new \cup DOMAIN results
        /\ \A id \in DOMAIN results' :
             results'[id] = IF id \in DOMAIN new THEN new[id] ELSE results[id]
    BY <1>6
  <2>2. DOMAIN results' \subseteq (1..searches') \X (Nat \ {0})
    <3>1. DOMAIN results \subseteq (1..searches) \X (Nat \ {0})
      BY DEF Capabilities
    <3>2. searches + 1 \in 1..searches' /\ \A n \in 1..searches : n \in 1..searches'
      BY <1>1, <1>6
    <3> QED
      BY <1>2, <2>1, <3>1, <3>2
  <2>3. caps' \subseteq DOMAIN results'
    BY <1>6, <2>1 DEF Pruned, Capabilities
  <2>4. \A id \in DOMAIN results' : results'[id] \in Results /\ Standing(results'[id], file)
    BY <1>2, <2>1 DEF Capabilities
  <2>5. \A id \in caps' : ~results'[id].used
    BY <1>2, <1>6, <2>1, <2>3 DEF Pruned, Capabilities
  <2>6. searches' \in Nat
    BY <1>1, <1>6
  <2> QED
    BY <2>2, <2>3, <2>4, <2>5, <2>6 DEF Capabilities
<1> QED
  BY <1>3, <1>5, <1>6

-----------------------------------------------------------------------------
(* The steps.                                                              *)

\* The daemon starts with nothing cached and nothing given out.
LEMMA InitInv == Init => Inv
<1> SUFFICES ASSUME Init PROVE Inv
  OBVIOUS
<1>1. DOMAIN results = {}
  BY DEF Init
<1>2. Values
  <2>1. Burst \in 0..Burst
    BY BurstAssumption
  <2> QED
    BY <2>1 DEF Init, Values
<1>3. Capabilities
  BY <1>1 DEF Init, Capabilities
<1>4. CacheFollowsFile
  BY DEF Init, CacheFollowsFile, Valid
<1> QED
  BY <1>2, <1>3, <1>4 DEF Inv

\* The values, whatever a handler does with the capabilities.
LEMMA ValuesStep == Values /\ [Next]_vars => Values'
<1> SUFFICES ASSUME Values, [Next]_vars PROVE Values'
  OBVIOUS
<1>1. bucket \in Nat /\ Burst \in Nat /\ bucket <= Burst
  BY BurstAssumption DEF Values
<1>2. ASSUME NEW sender \in Senders, NEW query \in Queries,
             Search(sender, query) \/ SearchReloads(sender, query)
      PROVE  Values'
  <2>1. event' => monitor'
    BY <1>2 DEF Search, SearchReloads, SyncMonitors, Values
  <2>2. monitor' \in BOOLEAN
    BY <1>2 DEF Search, SearchReloads, SyncMonitors, Values
  <2>3. handler' # NoSearch => handler'.sender \in Senders /\ handler'.query \in Queries
    BY <1>2 DEF Search, SearchReloads, Values
  <2>4. /\ active' = "set"
        /\ UNCHANGED <<file, password, listed, entries, derived, cachedAt, bucket>>
    BY <1>2 DEF Search, SearchReloads
  <2> QED
    BY <2>1, <2>2, <2>3, <2>4 DEF Values
<1>3. ASSUME Reload PROVE Values'
  <2>1. /\ entries' = Loaded /\ cachedAt' = "set" /\ handler' = NoSearch
        /\ derived' = (derived \/ (listed /\ password))
        /\ UNCHANGED <<file, password, listed, monitor, event, bucket, active>>
    BY <1>3 DEF Reload
  <2>2. derived' \in BOOLEAN
    BY <2>1, Zenon
  <2> QED
    BY <2>1, <2>2, LoadedType DEF Values
<1>4. ASSUME NEW sender \in Senders, NEW id, NEW query, Activate(sender, id, query) PROVE Values'
  <2>1. /\ active' = "set" /\ bucket > 0 /\ bucket' = bucket - 1
        /\ derived' = (derived \/ password)
        /\ UNCHANGED <<file, password, listed, monitor, event, entries, cachedAt, handler>>
    BY <1>4 DEF Activate
  <2>2. derived' \in BOOLEAN
    BY <2>1, Zenon
  <2>3. bucket' \in 0..Burst
    BY <1>1, <2>1
  <2> QED
    BY <2>1, <2>2, <2>3 DEF Values
<1>5. ASSUME NEW sender \in Senders, NEW id, NEW query, ActivateRefused(sender, id, query)
      PROVE  Values'
  <2>1. /\ active' = "set"
        /\ UNCHANGED <<file, password, listed, monitor, event, entries, derived, cachedAt, handler>>
    BY <1>5 DEF ActivateRefused
  <2>2. bucket' = bucket \/ (bucket > 0 /\ bucket' = bucket - 1)
    BY <1>5 DEF ActivateRefused
  <2>3. bucket' \in 0..Burst
    BY <1>1, <2>2
  <2> QED
    BY <2>1, <2>3 DEF Values
<1>6. ASSUME Describe \/ OtherCall PROVE Values'
  BY <1>6 DEF Describe, OtherCall, Values
<1>7. ASSUME FileChanged PROVE Values'
  BY <1>7 DEF FileChanged, Values
<1>8. ASSUME IdleWipe PROVE Values'
  <2>1. /\ entries' = NotLoaded /\ derived' = FALSE /\ bucket' = Burst /\ active' = "zero"
        /\ cachedAt' = (IF entries = NotLoaded THEN cachedAt ELSE "zero")
        /\ UNCHANGED <<file, password, listed, monitor, event, handler>>
    BY <1>8 DEF IdleWipe, Wipe
  <2>2. cachedAt' = "zero"
    BY <2>1 DEF Values
  <2>3. bucket' \in 0..Burst
    BY <1>1, <2>1
  <2> QED
    BY <2>1, <2>2, <2>3 DEF Values
<1>9. ASSUME TtlPasses PROVE Values'
  BY <1>9 DEF TtlPasses, Values
<1>10. ASSUME Refill PROVE Values'
  <2>1. bucket' \in 0..Burst
    BY <1>1, <1>10 DEF Refill
  <2> QED
    BY <1>10, <2>1 DEF Refill, Values
<1>11. ASSUME Idle PROVE Values'
  <2>1. bucket' \in 0..Burst
    BY <1>1, <1>11 DEF Idle
  <2>2. cachedAt' \in {"zero", "set", "old"} /\ (cachedAt' # "zero" => entries # NotLoaded)
    BY <1>11 DEF Idle, Values
  <2> QED
    BY <1>11, <2>1, <2>2 DEF Idle, Values
<1>12. ASSUME NEW id, Expires(id) PROVE Values'
  BY <1>12 DEF Expires, Values
<1>13. ASSUME NEW f \in Files, Edit(f) PROVE Values'
  <2>1. /\ file' = f /\ event' = (event \/ monitor)
        /\ UNCHANGED <<password, listed, monitor, entries, derived, cachedAt, bucket, active, handler>>
    BY <1>13 DEF Edit
  <2>2. event' => monitor
    BY <2>1 DEF Values
  <2> QED
    BY <2>1, <2>2 DEF Values
<1>14. ASSUME Configure PROVE Values'
  <2>1. password' \in BOOLEAN /\ listed' \in BOOLEAN
    BY <1>14 DEF Configure, Values
  <2> QED
    BY <1>14, <2>1 DEF Configure, daemon, Values
<1>15. ASSUME UNCHANGED vars PROVE Values'
  BY <1>15 DEF vars, daemon, Values
<1> QED
  BY <1>2, <1>3, <1>4, <1>5, <1>6, <1>7, <1>8, <1>9, <1>10, <1>11, <1>12, <1>13, <1>14, <1>15
  DEF Next, Call

\* The table loses capabilities, and the file stays.
LEMMA FewerCaps ==
  ASSUME Capabilities, UNCHANGED <<results, searches, file>>, caps' \subseteq caps
  PROVE  Capabilities'
  BY DEF Capabilities, Standing

\* Capabilities expire, and may come to stand for nothing.
LEMMA OlderCaps ==
  ASSUME Capabilities, UNCHANGED <<searches, caps>>,
         DOMAIN results' = DOMAIN results,
         \A id \in DOMAIN results : results'[id] \in Results /\ results'[id].used = results[id].used,
         \A id \in DOMAIN results : Standing(results'[id], file')
  PROVE  Capabilities'
  BY DEF Capabilities

\* The capabilities, whatever becomes of the entries.
LEMMA CapabilitiesStep == Values /\ Capabilities /\ [Next]_vars => Capabilities'
<1> SUFFICES ASSUME Values, Capabilities, [Next]_vars PROVE Capabilities'
  OBVIOUS
<1>1. ASSUME NEW sender \in Senders, NEW query \in Queries, Search(sender, query)
      PROVE  Capabilities'
  BY <1>1, AnswerCaps DEF Search, Valid, Values
<1>2. ASSUME Reload PROVE Capabilities'
  <2>1. /\ entries' = Loaded /\ file' = file /\ handler.sender \in Senders /\ handler.query \in Queries
        /\ Answer(handler.sender, handler.query, entries')
    BY <1>2 DEF Reload, Values
  <2>2. Answer(handler.sender, handler.query, Loaded)
    BY <2>1
  <2> QED
    BY <2>1, <2>2, LoadedType, AnswerCaps
<1>3. ASSUME NEW sender \in Senders, NEW id, NEW query, Activate(sender, id, query)
      PROVE  Capabilities'
  <2>1. /\ id \in caps /\ caps' = Pruned \ {id} /\ results' = [results EXCEPT ![id].used = TRUE]
        /\ UNCHANGED <<file, searches>>
    BY <1>3 DEF Activate, Consume, Pruned
  <2>2. id \in DOMAIN results /\ results[id] \in Results /\ Standing(results[id], file)
    BY <2>1 DEF Capabilities
  <2>3. /\ DOMAIN results' = DOMAIN results
        /\ \A other \in DOMAIN results \ {id} : results'[other] = results[other]
        /\ results'[id] = [results[id] EXCEPT !.used = TRUE]
    BY <2>1, <2>2
  <2>4. /\ results'[id] \in Results /\ results'[id].fresh = results[id].fresh
        /\ results'[id].index = results[id].index /\ results'[id].label = results[id].label
    BY <2>2, <2>3 DEF Results
  <2>5. \A other \in DOMAIN results' : results'[other] \in Results /\ Standing(results'[other], file)
    <3>1. \A other \in DOMAIN results \ {id} : results'[other] \in Results /\ Standing(results'[other], file)
      BY <2>3 DEF Capabilities
    <3>2. Standing(results'[id], file)
      BY <2>2, <2>4 DEF Standing
    <3> QED
      BY <2>3, <2>4, <3>1, <3>2
  <2>6. caps' \subseteq caps \ {id}
    BY <2>1 DEF Pruned
  <2>7. \A other \in caps' : ~results'[other].used
    BY <2>3, <2>6 DEF Capabilities
  <2> QED
    BY <2>1, <2>3, <2>5, <2>6, <2>7 DEF Capabilities, Standing
<1>4. ASSUME NEW sender \in Senders, NEW id, NEW query, ActivateRefused(sender, id, query)
      PROVE  Capabilities'
  <2>1. caps' \subseteq caps
    BY <1>4 DEF ActivateRefused, Pruned
  <2> QED
    BY <1>4, <2>1, FewerCaps DEF ActivateRefused
<1>5. ASSUME Describe \/ IdleWipe PROVE Capabilities'
  <2>1. caps' \subseteq caps
    BY <1>5 DEF Describe, IdleWipe, Wipe, Pruned
  <2> QED
    BY <1>5, <2>1, FewerCaps DEF Describe, IdleWipe
<1>6. ASSUME NEW id \in DOMAIN results, Expires(id) PROVE Capabilities'
  <2>1. results' = [results EXCEPT ![id].expired = TRUE] /\ UNCHANGED <<file, searches, caps>>
    BY <1>6 DEF Expires
  <2>2. results[id] \in Results /\ Standing(results[id], file)
    BY DEF Capabilities
  <2>3. /\ DOMAIN results' = DOMAIN results
        /\ \A other \in DOMAIN results \ {id} : results'[other] = results[other]
        /\ results'[id] = [results[id] EXCEPT !.expired = TRUE]
    BY <2>1
  <2>4. /\ results'[id] \in Results /\ results'[id].fresh = results[id].fresh
        /\ results'[id].index = results[id].index /\ results'[id].label = results[id].label
        /\ results'[id].used = results[id].used
    BY <2>2, <2>3 DEF Results
  <2>5. \A other \in DOMAIN results : results'[other] \in Results /\ Standing(results'[other], file')
    BY <2>1, <2>2, <2>3, <2>4 DEF Capabilities, Standing
  <2> QED
    BY <2>1, <2>3, <2>4, <2>5, OlderCaps
<1>7. ASSUME Idle PROVE Capabilities'
  <2>1. /\ results' = [id \in DOMAIN results |-> [results[id] EXCEPT !.expired = TRUE]]
        /\ UNCHANGED <<file, searches, caps>>
    BY <1>7 DEF Idle
  <2>2. ASSUME NEW id \in DOMAIN results
        PROVE  /\ results'[id] \in Results /\ results'[id].used = results[id].used
               /\ Standing(results'[id], file')
    <3>1. results'[id] = [results[id] EXCEPT !.expired = TRUE] /\ results[id] \in Results
          /\ Standing(results[id], file)
      BY <2>1 DEF Capabilities
    <3> QED
      BY <2>1, <3>1 DEF Results, Standing
  <2> QED
    BY <2>1, <2>2, OlderCaps
<1>8. ASSUME NEW f \in Files, Edit(f) PROVE Capabilities'
  <2>1. /\ results' = [id \in DOMAIN results |-> [results[id] EXCEPT !.fresh = FALSE]]
        /\ UNCHANGED <<searches, caps>>
    BY <1>8 DEF Edit
  <2>2. ASSUME NEW id \in DOMAIN results
        PROVE  /\ results'[id] \in Results /\ results'[id].used = results[id].used
               /\ Standing(results'[id], file')
    <3>1. results'[id] = [results[id] EXCEPT !.fresh = FALSE] /\ results[id] \in Results
      BY <2>1 DEF Capabilities
    <3> QED
      BY <2>1, <3>1 DEF Results, Standing
  <2> QED
    BY <2>1, <2>2, OlderCaps
<1>9. ASSUME NEW sender \in Senders, NEW query \in Queries, SearchReloads(sender, query)
      PROVE  Capabilities'
  BY <1>9, FewerCaps DEF SearchReloads
<1>10. ASSUME OtherCall \/ FileChanged \/ TtlPasses \/ Refill \/ Configure \/ UNCHANGED vars
       PROVE  Capabilities'
  BY <1>10, FewerCaps DEF OtherCall, FileChanged, TtlPasses, Refill, Configure, vars, daemon
<1> QED
  BY <1>1, <1>2, <1>3, <1>4, <1>5, <1>6, <1>7, <1>8, <1>9, <1>10 DEF Next, Call

\* Once the monitor has something to report, or a monitor is made, nothing is served
\* until the next reload.
LEMMA CacheStep == Values /\ CacheFollowsFile /\ [Next]_vars => CacheFollowsFile'
<1> SUFFICES ASSUME Values, CacheFollowsFile, [Next]_vars PROVE CacheFollowsFile'
  OBVIOUS
<1>1. ASSUME Reload PROVE CacheFollowsFile'
  <2>1. entries' = Loaded /\ file' = file
    BY <1>1 DEF Reload
  <2> QED
    BY <2>1, LoadedType DEF CacheFollowsFile, EntriesOf
<1>2. ASSUME NEW sender \in Senders, NEW query \in Queries, SearchReloads(sender, query)
      PROVE  CacheFollowsFile'
  <2>1. ~Valid'
    BY <1>2 DEF SearchReloads, Valid
  <2> QED
    BY <2>1 DEF CacheFollowsFile
<1>3. ASSUME IdleWipe \/ TtlPasses \/ FileChanged PROVE CacheFollowsFile'
  <2>1. ~Valid'
    BY <1>3 DEF IdleWipe, Wipe, TtlPasses, FileChanged, Valid
  <2> QED
    BY <2>1 DEF CacheFollowsFile
<1>4. ASSUME NEW f \in Files, Edit(f) PROVE CacheFollowsFile'
  BY <1>4 DEF Edit, CacheFollowsFile
<1>5. ASSUME Idle PROVE CacheFollowsFile'
  <2>1. ~Valid'
    BY <1>5 DEF Idle, Valid
  <2> QED
    BY <2>1 DEF CacheFollowsFile
<1>6. ASSUME UNCHANGED <<file, entries, cachedAt, monitor, event>> PROVE CacheFollowsFile'
  BY <1>6 DEF CacheFollowsFile, Valid, EntriesOf
<1>7. ASSUME NEW sender \in Senders, NEW query \in Queries, Search(sender, query)
      PROVE  CacheFollowsFile'
  BY <1>6, <1>7 DEF Search
<1>8. ASSUME NEW sender \in Senders, NEW id, NEW query,
             Activate(sender, id, query) \/ ActivateRefused(sender, id, query)
      PROVE  CacheFollowsFile'
  BY <1>6, <1>8 DEF Activate, ActivateRefused
<1>9. ASSUME NEW id, Expires(id) PROVE CacheFollowsFile'
  BY <1>6, <1>9 DEF Expires
<1>10. ASSUME Describe \/ OtherCall \/ Refill \/ Configure \/ UNCHANGED vars
       PROVE  CacheFollowsFile'
  BY <1>6, <1>10 DEF Describe, OtherCall, Refill, Configure, vars, daemon
<1> QED
  BY <1>1, <1>2, <1>3, <1>4, <1>5, <1>7, <1>8, <1>9, <1>10 DEF Next, Call

-----------------------------------------------------------------------------
(* The theorems.                                                           *)

\* Entries, monitor and capabilities keep their invariant in every run of the daemon.
THEOREM Invariant == Spec => []Inv
<1>1. Init => Inv
  BY InitInv
<1>2. Inv /\ [Next]_vars => Inv'
  BY ValuesStep, CapabilitiesStep, CacheStep DEF Inv
<1> QED
  BY <1>1, <1>2, PTL DEF Spec

\* The values the variables take, and the ids in the table of capabilities.
THEOREM Typing == Spec => []TypeOK
<1>1. Inv => TypeOK
  BY DEF Inv, Values, Capabilities, TypeOK
<1> QED
  BY <1>1, Invariant, PTL

\* Entries served from the cache are those of the file, unless the monitor has a change
\* to report or could not be made.
THEOREM Follows == Spec => []CacheFollowsFile
<1>1. Inv => CacheFollowsFile
  BY DEF Inv
<1> QED
  BY <1>1, Invariant, PTL

\* Only an activation delivers a code.
LEMMA Deliveries ==
  ASSUME [Next]_vars, delivered' # delivered
  PROVE  \E sender \in Senders, id \in DOMAIN results, query \in Queries \cup {None} :
           Activate(sender, id, query)
  BY DEF Next, Call, Search, SearchReloads, Reload, Describe, OtherCall, ActivateRefused,
         FileChanged, IdleWipe, TtlPasses, Expires, Refill, Idle, Edit, Configure, daemon, vars

\* What an activation delivers: the token where the capability says, to its sender.
LEMMA Delivery ==
  ASSUME NEW sender, NEW id, NEW query, Activate(sender, id, query), delivered' # delivered
  PROVE  /\ id \in caps /\ ~results[id].expired /\ results[id].sender = sender
         /\ delivered'.id = id /\ delivered'.to = sender
         /\ delivered'.label = results[id].label /\ delivered'.token = file[results[id].index]
<1> DEFINE code == CodeAt(results[id].index)
<1>1. id \in Pruned /\ results[id].sender = sender
  BY DEF Activate, Consume
<1>2. delivered' = IF code = None THEN delivered
                   ELSE [to |-> sender, id |-> id, label |-> results[id].label, token |-> code]
  BY DEF Activate
<1>3. code # None => code = file[results[id].index]
  BY DEF CodeAt
<1> HIDE DEF code
<1>4. delivered' = [to |-> sender, id |-> id, label |-> results[id].label, token |-> code]
      /\ code # None
  BY <1>2
<1> QED
  BY <1>1, <1>3, <1>4 DEF Pruned

\* A code answers one search of its receiver: its result was not used before, had not
\* expired and was issued to the one who gets the code.
THEOREM OneCode == Spec => OneCodePerResult
<1>1. Inv /\ [Next]_vars =>
        [delivered' # delivered =>
           LET r == results[delivered'.id] IN
           /\ ~r.used /\ ~r.expired /\ r.sender = delivered'.to
           /\ delivered'.id \in caps]_vars
  <2> SUFFICES ASSUME Inv, [Next]_vars, delivered' # delivered
               PROVE  /\ ~results[delivered'.id].used /\ ~results[delivered'.id].expired
                      /\ results[delivered'.id].sender = delivered'.to
                      /\ delivered'.id \in caps
    BY Zenon
  <2>1. PICK sender \in Senders, id \in DOMAIN results, query \in Queries \cup {None} :
               Activate(sender, id, query)
    BY Deliveries
  <2>2. /\ id \in caps /\ ~results[id].expired /\ results[id].sender = sender
        /\ delivered'.id = id /\ delivered'.to = sender
    BY <2>1, Delivery
  <2>3. ~results[id].used
    BY <2>2 DEF Inv, Capabilities
  <2> QED
    BY <2>2, <2>3
<1> QED
  BY <1>1, Invariant, PTL DEF Spec, OneCodePerResult

\* The code is that of the label it is shown with, as long as the file is the one the
\* result was made from.
THEOREM CodeOfLabel == Spec => CodeOfLabelUnlessEdited
<1>1. Inv /\ [Next]_vars =>
        [delivered' # delivered /\ results[delivered'.id].fresh =>
           delivered'.token = delivered'.label]_vars
  <2> SUFFICES ASSUME Inv, [Next]_vars, delivered' # delivered, results[delivered'.id].fresh
               PROVE  delivered'.token = delivered'.label
    BY Zenon
  <2>1. PICK sender \in Senders, id \in DOMAIN results, query \in Queries \cup {None} :
               Activate(sender, id, query)
    BY Deliveries
  <2>2. /\ delivered'.id = id /\ delivered'.label = results[id].label
        /\ delivered'.token = file[results[id].index]
    BY <2>1, Delivery
  <2>3. Standing(results[id], file)
    BY DEF Inv, Capabilities
  <2> QED
    BY <2>2, <2>3 DEF Standing
<1> QED
  BY <1>1, Invariant, PTL DEF Spec, CodeOfLabelUnlessEdited
=============================================================================
