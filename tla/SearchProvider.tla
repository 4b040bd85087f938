--------------------------- MODULE SearchProvider ---------------------------
(***************************************************************************)
(* The desktop search daemon (src/search-provider/search-provider.c): the  *)
(* cached entries and the file monitor that invalidates them, the results  *)
(* handed out as capabilities of one sender, their activation, the rate    *)
(* limit and the wipe after inactivity.                                    *)
(*                                                                         *)
(* One main loop runs every handler to its end; only other programs act    *)
(* in between.  A reload is therefore two steps, the monitors first, and   *)
(* the events a monitor has queued wait until the handler is done.  How a  *)
(* load derives its key is in DbKey.                                       *)
(***************************************************************************)
EXTENDS Naturals, Sequences, FiniteSets

CONSTANTS
  Tokens,      \* labels
  Totp,        \* the tokens of type TOTP
  Senders,     \* names on the session bus
  Queries,     \* what follows the keyword
  Matches,     \* [Queries -> SUBSET Tokens]: entry_matches_terms
  Files,       \* the contents the database goes through
  Burst,       \* RATE_BUCKET_MAX
  MaxResults   \* bound: capabilities issued

ASSUME TotpAssumption == Totp \subseteq Tokens
ASSUME MatchesAssumption == Matches \in [Queries -> SUBSET Tokens]
ASSUME FilesAssumption == Files \subseteq Seq(Tokens)
ASSUME BurstAssumption == Burst \in Nat \ {0}

None == "none"
ASSUME NoneAssumption == None \notin Senders \cup Tokens

NoSearch == [sender |-> None, query |-> None]
NotLoaded == [i \in {0} |-> None]
NoEntries == [i \in {} |-> None]

VARIABLES
  file,       \* the valid tokens of the database file, in order
  password,   \* does the keyring hold its password?
  listed,     \* is the database in the list of the settings?
  monitor,    \* is there a GFileMonitor for it?
  event,      \* has the monitor a change to report?
  entries,    \* cached_entries: the label at each position, or NotLoaded
  derived,    \* has g_kdf_cache the derived key?
  cachedAt,   \* cached_at: "zero", "set", or "old" once the TTL has passed
  caps,       \* g_activation_caps: some of the ids "results" has
  bucket,     \* tokens of g_global_rate_bucket
  active,     \* g_last_activity_us: "zero", "set", or "old" after IDLE_WIPE_SECONDS
  handler,    \* the search whose reload is under way, or NoSearch
  results,    \* the capabilities issued so far; an id is the search and the position
  searches,   \* how many searches have issued some
  delivered   \* the last notification

daemon == <<monitor, event, entries, derived, cachedAt, caps, bucket, active, handler, results,
            searches, delivered>>
vars == <<file, password, listed, daemon>>

NoDelivery == [to |-> None, id |-> <<0, 0>>, label |-> None, token |-> None]

\* Mutant: the position among the entries.
EntriesCounted(f) == SelectSeq(f, LAMBDA t : t \in Totp)

\* load_entries_from_db: entries keep their position in the array, the others are
\* skipped.
EntriesOf(f) == [i \in {i \in DOMAIN f : f[i] \in Totp} |-> f[i]]

Loaded == IF listed /\ password THEN EntriesOf(file) ELSE NoEntries

\* sync_file_monitors; creating one may fail.
SyncMonitors ==
  \/ listed /\ monitor /\ UNCHANGED <<monitor, event>>
  \/ listed /\ ~monitor /\ monitor' \in BOOLEAN /\ event' = FALSE
  \/ ~listed /\ monitor' = FALSE /\ event' = FALSE

\* activation_capabilities_prune.
Pruned == {id \in caps : ~results[id].expired}

\* issue_activation_capability for every entry that matches, under an id nobody has
\* seen.  "used" and "fresh" are history: is the file still the one the entry was read
\* from?
Issued(sender, query, es) ==
  [id \in {searches + 1} \X {i \in DOMAIN es : es[i] \in Matches[query]} |->
     [sender |-> sender, query |-> query, label |-> es[id[2]], index |-> id[2],
      expired |-> FALSE, used |-> FALSE, fresh |-> es = EntriesOf(file)]]

\* The bound on the capabilities issued.
Room(query) == Cardinality(DOMAIN results) + Cardinality(Matches[query] \cap Totp) <= MaxResults

Answer(sender, query, es) ==
  LET new == Issued(sender, query, es) IN
  IF DOMAIN new = {}
  THEN UNCHANGED <<results, searches, caps>>
  ELSE /\ results' = [id \in DOMAIN results \cup DOMAIN new |->
                        IF id \in DOMAIN new THEN new[id] ELSE results[id]]
       /\ searches' = searches + 1
       /\ caps' = Pruned \cup DOMAIN new

-----------------------------------------------------------------------------
(* The handlers.                                                           *)

Valid == entries # NotLoaded /\ cachedAt = "set"

\* GetInitialResultSet, GetSubsearchResultSet and Match with the keyword, answered
\* from the cache.
Search(sender, query) ==
  /\ handler = NoSearch /\ Valid /\ Room(query)
  /\ active' = "set"
  /\ Answer(sender, query, entries)
  /\ UNCHANGED <<file, password, listed, monitor, event, entries, derived, cachedAt, bucket, handler, delivered>>

\* get_entries when the cache is not valid: the monitors are brought up to date ...
SearchReloads(sender, query) ==
  /\ handler = NoSearch /\ ~Valid /\ Room(query)
  /\ active' = "set"
  /\ handler' = [sender |-> sender, query |-> query]
  /\ SyncMonitors
  /\ UNCHANGED <<file, password, listed, entries, derived, cachedAt, caps, bucket, results, searches, delivered>>

\* ... before the databases are read.
Reload ==
  /\ handler # NoSearch
  /\ entries' = Loaded
  /\ derived' = (derived \/ (listed /\ password))
  /\ cachedAt' = "set"
  /\ handler' = NoSearch
  /\ Answer(handler.sender, handler.query, entries')
  /\ UNCHANGED <<file, password, listed, monitor, event, bucket, active, delivered>>

\* GetResultMetas: looking results up prunes them.
Describe ==
  /\ handler = NoSearch
  /\ active' = "set"
  /\ caps' = Pruned
  /\ UNCHANGED <<file, password, listed, monitor, event, entries, derived, cachedAt, bucket, handler, results,
                 searches, delivered>>

\* A search without the keyword, Actions, LaunchSearch: nothing but activity.
OtherCall ==
  /\ handler = NoSearch
  /\ active' = "set"
  /\ UNCHANGED <<file, password, listed, monitor, event, entries, derived, cachedAt, caps, bucket, handler, results,
                 searches, delivered>>

\* Mutant: a capability is only looked up.
ConsumeKeeps(sender, id, query) ==
  /\ id \in Pruned
  /\ results[id].sender = sender
  /\ query \in {None, results[id].query}
  /\ caps' = Pruned

\* consume_activation_capability; KRunner's Run gives no query.
Consume(sender, id, query) ==
  /\ id \in Pruned
  /\ results[id].sender = sender
  /\ query \in {None, results[id].query}
  /\ caps' = Pruned \ {id}

\* compute_otp_for_entry: the token at the position, in the file as it is now.
CodeAt(index) ==
  IF password /\ index \in DOMAIN file /\ file[index] \in Totp THEN file[index] ELSE None

\* ActivateResult and Run.  Nothing is said if there is no code.
Activate(sender, id, query) ==
  /\ handler = NoSearch
  /\ active' = "set"
  /\ bucket > 0 /\ bucket' = bucket - 1
  /\ Consume(sender, id, query)
  /\ derived' = (derived \/ password)
  /\ results' = [results EXCEPT ![id].used = TRUE]
  /\ LET code == CodeAt(results[id].index) IN
       delivered' = IF code = None THEN delivered
                    ELSE [to |-> sender, id |-> id, label |-> results[id].label, token |-> code]
  /\ UNCHANGED <<file, password, listed, monitor, event, entries, cachedAt, handler, searches>>

\* No token in the bucket; terms without the keyword; no such capability, somebody
\* else's or another query's.
ActivateRefused(sender, id, query) ==
  /\ handler = NoSearch
  /\ active' = "set"
  /\ \/ bucket = 0 /\ UNCHANGED <<bucket, caps>>
     \/ bucket > 0 /\ bucket' = bucket - 1 /\ UNCHANGED caps
     \/ /\ bucket > 0 /\ bucket' = bucket - 1
        /\ \/ id \notin Pruned
           \/ results[id].sender # sender
           \/ query \notin {None, results[id].query}
        /\ caps' = Pruned
  /\ UNCHANGED <<file, password, listed, monitor, event, entries, derived, cachedAt, handler, results,
                 searches, delivered>>

\* Mutant: only the derived key is dropped.
FileChangedKeyOnly ==
  /\ handler = NoSearch /\ event
  /\ event' = FALSE
  /\ derived' = FALSE
  /\ UNCHANGED <<file, password, listed, monitor, entries, cachedAt, caps, bucket, active, handler, results,
                 searches, delivered>>

\* on_db_file_changed.
FileChanged ==
  /\ handler = NoSearch /\ event
  /\ event' = FALSE
  /\ cachedAt' = "zero" /\ derived' = FALSE
  /\ UNCHANGED <<file, password, listed, monitor, entries, caps, bucket, active, handler, results,
                 searches, delivered>>

\* Mutant: the capabilities outlive the wipe.
WipeEntries ==
  /\ entries' = NotLoaded /\ cachedAt' = "zero" /\ derived' = FALSE
  /\ UNCHANGED caps
  /\ bucket' = Burst
  /\ active' = "zero"

\* Mutant: the time of the load stays.
WipeKeepsTime ==
  /\ entries' = NotLoaded /\ derived' = FALSE
  /\ UNCHANGED cachedAt
  /\ caps' = {}
  /\ bucket' = Burst
  /\ active' = "zero"

Wipe ==
  /\ entries' = NotLoaded /\ derived' = FALSE
  /\ cachedAt' = IF entries = NotLoaded THEN cachedAt ELSE "zero"
  /\ caps' = {}
  /\ bucket' = Burst
  /\ active' = "zero"

\* idle_wipe_check, once a minute.
IdleWipe ==
  /\ handler = NoSearch /\ active = "old"
  /\ Wipe
  /\ UNCHANGED <<file, password, listed, monitor, event, handler, results,
                 searches, delivered>>

-----------------------------------------------------------------------------
(* Time, and other programs.                                               *)

TtlPasses ==
  /\ handler = NoSearch /\ cachedAt = "set"
  /\ cachedAt' = "old"
  /\ UNCHANGED <<file, password, listed, monitor, event, entries, derived, caps, bucket, active, handler, results,
                 searches, delivered>>

\* ACTIVATION_CAP_TTL_US: earlier results expire first.
Expires(id) ==
  /\ ~results[id].expired
  /\ \A other \in DOMAIN results :
       other[1] < id[1] \/ (other[1] = id[1] /\ other[2] < id[2]) => results[other].expired
  /\ results' = [results EXCEPT ![id].expired = TRUE]
  /\ UNCHANGED <<file, password, listed, monitor, event, entries, derived, cachedAt, caps, bucket, active, handler,
                 searches, delivered>>

Refill ==
  /\ bucket < Burst
  /\ bucket' = bucket + 1
  /\ UNCHANGED <<file, password, listed, monitor, event, entries, derived, cachedAt, caps, active, handler, results,
                 searches, delivered>>

\* IDLE_WIPE_SECONDS without a call are longer than the other two.
Idle ==
  /\ handler = NoSearch /\ active = "set"
  /\ active' = "old"
  /\ cachedAt' = IF cachedAt = "set" THEN "old" ELSE cachedAt
  /\ results' = [id \in DOMAIN results |-> [results[id] EXCEPT !.expired = TRUE]]
  /\ bucket' = Burst
  /\ UNCHANGED <<file, password, listed, monitor, event, entries, derived, caps, handler, searches, delivered>>

\* The window or the command line saves the database.
Edit(f) ==
  /\ f # file
  /\ file' = f
  /\ event' = (event \/ monitor)
  /\ results' = [id \in DOMAIN results |-> [results[id] EXCEPT !.fresh = FALSE]]
  /\ UNCHANGED <<password, listed, monitor, entries, derived, cachedAt, caps, bucket, active, handler,
                 searches, delivered>>

\* The keyring and the settings change.
Configure ==
  /\ \/ password' = ~password /\ UNCHANGED listed
     \/ listed' = ~listed /\ UNCHANGED password
  /\ UNCHANGED <<file, daemon>>

Init ==
  /\ file \in Files /\ password = TRUE /\ listed = TRUE
  /\ monitor = FALSE /\ event = FALSE /\ entries = NotLoaded /\ derived = FALSE /\ cachedAt = "zero"
  /\ caps = {} /\ bucket = Burst /\ active = "set"
  /\ handler = NoSearch /\ results = << >> /\ searches = 0 /\ delivered = NoDelivery

Call == \E sender \in Senders :
  \/ \E query \in Queries : Search(sender, query) \/ SearchReloads(sender, query)
  \/ \E id \in DOMAIN results, query \in Queries \cup {None} :
       Activate(sender, id, query) \/ ActivateRefused(sender, id, query)
  \/ Describe \/ OtherCall

Next ==
  \/ Call \/ Reload \/ FileChanged \/ IdleWipe \/ TtlPasses \/ Refill \/ Idle
  \/ \E id \in DOMAIN results : Expires(id)
  \/ \E f \in Files : Edit(f)
  \/ Configure

Spec == Init /\ [][Next]_vars

\* Handlers end, time passes, and the timer of idle_wipe_check keeps firing.
FairSpec == Spec /\ WF_vars(Reload) /\ WF_vars(Idle) /\ WF_vars(IdleWipe)

-----------------------------------------------------------------------------
(* Properties.                                                             *)

TypeOK ==
  /\ file \in Files
  /\ password \in BOOLEAN /\ listed \in BOOLEAN /\ monitor \in BOOLEAN
  /\ derived \in BOOLEAN /\ (event => monitor)
  /\ entries # NotLoaded =>
       DOMAIN entries \subseteq Nat \ {0} /\ \A i \in DOMAIN entries : entries[i] \in Totp
  /\ cachedAt \in {"zero", "set", "old"} /\ (cachedAt # "zero" => entries # NotLoaded)
  /\ caps \subseteq DOMAIN results /\ DOMAIN results \subseteq (1..searches) \X (Nat \ {0})
  /\ bucket \in 0..Burst
  /\ active \in {"zero", "set", "old"}

\* Entries served from the cache are those of the file, unless the monitor has a
\* change to report or could not be made: a change during a reload is reported
\* after it, and a reload never loses a monitor that exists.
CacheFollowsFile ==
  Valid /\ monitor /\ ~event => entries \in {EntriesOf(file), NoEntries}

\* Every code answers one search of its receiver: a result is used once, by the
\* sender it was issued to, before it expires and before a wipe.
OneCodePerResult ==
  [][delivered' # delivered =>
       LET r == results[delivered'.id] IN
       /\ ~r.used /\ ~r.expired /\ r.sender = delivered'.to
       /\ delivered'.id \in caps]_vars

\* The code is that of the label it is shown with, as long as the file is the one
\* the result was made from.
CodeOfLabelUnlessEdited ==
  [][delivered' # delivered /\ results[delivered'.id].fresh =>
       delivered'.token = delivered'.label]_vars

\* When the calls stop nothing stays in memory: the timer wipes entries,
\* capabilities and derived key.
WipedWhenIdle ==
  []<><<Call>>_vars \/ <>[](entries = NotLoaded /\ caps = {} /\ ~derived)
=============================================================================
