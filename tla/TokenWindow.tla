---------------------------- MODULE TokenWindow ----------------------------
(***************************************************************************)
(* The tokens of the open database in the window: the rows of otp_store    *)
(* against in_memory_json_data, the HOTP counters whose save is put off,   *)
(* deletion and its undo, drag and drop, the move to another database, and *)
(* the dialogs that hold a position while the window locks and opens again *)
(* (src/gui/otpclient-window.c, dialogs/edit-token-dialog.c).              *)
(*                                                                         *)
(* A save is one step that succeeds or fails; DbStore is about what is in  *)
(* between.  No other process writes here, so that the version a failed    *)
(* update_db restores is what the file holds.  A token is its identity and *)
(* its counter; a dialog is modal, and any row can be the selected one,    *)
(* for a search that narrows to one row selects it.                        *)
(***************************************************************************)
EXTENDS Naturals, Sequences, SequencesExt

CONSTANTS
  Tokens,     \* the identities of the tokens
  Hotp,       \* those that have a counter
  Dbs,        \* the two databases of the sidebar
  MaxCounter, \* bound: the counters
  MaxLen,     \* bound: tokens in one database
  MaxToasts   \* bound: "Token deleted" toasts at once

ASSUME TokenAssumption == Hotp \subseteq Tokens
ASSUME TwoDbs == \A d \in Dbs : \E e \in Dbs : e # d
ASSUME BoundAssumption == {MaxCounter, MaxLen, MaxToasts} \subseteq Nat

VARIABLES
  files,  \* what each database file holds
  cur,    \* the path of db_data
  open,   \* is in_memory_json_data there?
  json,   \* in_memory_json_data
  rows,   \* otp_store
  dirty,  \* hotp_counter_dirty
  timer,  \* is hotp_flush_timeout_id armed?
  undo,   \* deleted_token and deleted_token_pos
  toasts, \* how many toasts offer to undo
  dialog  \* the dialog that is up and the position it captured

\* History, read by no guard.
VARIABLES
  used,     \* the highest counter whose code was copied
  deleted,  \* the tokens whose row was confirmed for deletion
  excused,  \* counters were given up: by a failed save or by opening another database
  askew     \* a drop or a move could not save: memory follows neither file nor rows

history == <<used, deleted, excused, askew>>
vars == <<files, cur, open, json, rows, dirty, timer, undo, toasts, dialog, history>>

Token == [id : Tokens, ctr : 0..MaxCounter]
None == [kind |-> "none"]
NoUndo == [pos |-> 0]

Other == CHOOSE d \in Dbs : d # cur
Ids(s) == {s[i].id : i \in DOMAIN s}
SameIds(s, t) == Len(s) = Len(t) /\ \A i \in DOMAIN s : s[i].id = t[i].id

-----------------------------------------------------------------------------
(* Saving.                                                                 *)

\* update_db on what memory holds after an edit.
Saved(j) ==
  /\ json' = j
  /\ files' = [files EXCEPT ![cur] = j]
  /\ UNCHANGED excused

\* Mutant: the failed save leaves the edit in memory.
SaveFailsKeeps(j) ==
  /\ json' = j
  /\ excused' = (excused \/ dirty)
  /\ UNCHANGED files

\* restore_live_from_committed drops the edit, and the counters nobody saved yet.
SaveFails(j) ==
  /\ json' = files[cur]
  /\ excused' = (excused \/ dirty)
  /\ UNCHANGED files

\* Mutant: the flush takes a failed update_db for a success and saves nothing.
FlushOutcomesUnsaved ==
  {[files |-> files, json |-> json, dirty |-> FALSE, excused |-> excused]}

\* What otpclient_window_flush_pending_writes may leave.
FlushOutcomes ==
  IF dirty /\ open
  THEN {[files |-> [files EXCEPT ![cur] = json], json |-> json, dirty |-> FALSE,
         excused |-> excused],
        [files |-> files, json |-> files[cur], dirty |-> TRUE, excused |-> TRUE]}
  ELSE {[files |-> files, json |-> json, dirty |-> dirty, excused |-> excused]}

\* hotp_flush_debounce_cb.
FlushTimer ==
  /\ timer
  /\ timer' = FALSE
  /\ \E o \in FlushOutcomes :
       files' = o.files /\ json' = o.json /\ dirty' = o.dirty /\ excused' = o.excused
  /\ UNCHANGED <<cur, open, rows, undo, toasts, dialog, used, deleted, askew>>

-----------------------------------------------------------------------------
(* Rows.                                                                   *)

Idle == open /\ dialog = None

\* Mutant: the code that is copied is the one of the stored counter.
ActivateStored(i) ==
  /\ Idle /\ i \in DOMAIN rows /\ rows[i].id \in Hotp
  /\ dirty' = TRUE /\ timer' = TRUE
  /\ used' = [used EXCEPT ![rows[i].id] = rows[i].ctr]
  /\ UNCHANGED <<files, cur, open, json, rows, undo, toasts, dialog, deleted, excused, askew>>

\* trigger_otp_action_for_entry on a HOTP row: the counter of the row, and of the
\* token at the same position, advances; the save waits.
Activate(i) ==
  /\ Idle /\ i \in DOMAIN rows /\ rows[i].id \in Hotp /\ rows[i].ctr < MaxCounter
  /\ rows' = [rows EXCEPT ![i].ctr = @ + 1]
  /\ \/ /\ i \in DOMAIN json
        /\ json' = [json EXCEPT ![i].ctr = rows[i].ctr + 1]
        /\ dirty' = TRUE /\ timer' = TRUE
     \/ i \notin DOMAIN json /\ UNCHANGED <<json, dirty, timer>>
  /\ used' = [used EXCEPT ![rows[i].id] = IF @ > rows[i].ctr THEN @ ELSE rows[i].ctr + 1]
  /\ UNCHANGED <<files, cur, open, undo, toasts, dialog, deleted, excused, askew>>

\* The element at position i moved to position j of what is left.
Moved(s, i, j) == InsertAt(RemoveAt(s, i), j, s[i])

\* Mutant: the token is inserted and not removed.
DropCopies(i, j) ==
  /\ Idle /\ {i, j} \subseteq DOMAIN rows /\ i # j
  /\ rows' = Moved(rows, i, j)
  /\ Saved(InsertAt(json, j, json[i])) /\ UNCHANGED askew
  /\ UNCHANGED <<cur, open, dirty, timer, undo, toasts, dialog, used, deleted>>

\* json_array_remove, then json_array_insert, which refuses a position beyond the end:
\* rows that are askew lose a token so.
Reordered(i, j) ==
  IF i \notin DOMAIN json THEN json
  ELSE IF j \in DOMAIN json THEN Moved(json, i, j)
  ELSE RemoveAt(json, i)

\* on_drop: the rows move first and stay where they are when the save fails.
Drop(i, j) ==
  /\ Idle /\ {i, j} \subseteq DOMAIN rows /\ i # j
  /\ rows' = Moved(rows, i, j)
  /\ \/ Saved(Reordered(i, j)) /\ UNCHANGED askew
     \/ SaveFails(Reordered(i, j)) /\ askew' = TRUE
  /\ UNCHANGED <<cur, open, dirty, timer, undo, toasts, dialog, used, deleted>>

\* action_set_group and action_remove_from_group: the groups are left out, the save
\* of the whole array and the rebuilt rows are not.  The rows are rebuilt by an idle
\* callback, from the array as it is then, here at once: both list the same tokens.
SetGroup ==
  /\ Idle /\ rows # << >>
  /\ \/ Saved(json) /\ rows' = json
     \/ SaveFails(json) /\ UNCHANGED rows
  /\ UNCHANGED <<cur, open, dirty, timer, undo, toasts, dialog, used, deleted, askew>>

-----------------------------------------------------------------------------
(* Dialogs that captured a position.                                       *)

\* action_delete_token; the position is read when the answer comes, and a rebuilt list
\* has no selection.
AskDelete(i) ==
  /\ Idle /\ i \in DOMAIN rows
  /\ dialog' = [kind |-> "delete", pos |-> i]
  /\ UNCHANGED <<files, cur, open, json, rows, dirty, timer, undo, toasts, history>>

Deselected == IF dialog.kind = "delete" THEN [dialog EXCEPT !.pos = 0] ELSE dialog

\* Any dialog is cancelled, or its answer leads nowhere: a confirmed deletion without
\* a selection, a target that cannot be opened or saved, a window that is locked.
Cancel ==
  /\ dialog # None
  /\ dialog' = None
  /\ UNCHANGED <<files, cur, open, json, rows, dirty, timer, undo, toasts, history>>

\* Mutant: the rows are not rebuilt.
DeleteNoRebuild ==
  /\ open /\ dialog.kind = "delete" /\ dialog.pos \in DOMAIN json
  /\ toasts < MaxToasts
  /\ Saved(RemoveAt(json, dialog.pos))
  /\ undo' = [token |-> json[dialog.pos], pos |-> dialog.pos]
  /\ toasts' = toasts + 1
  /\ deleted' = deleted \cup {rows[dialog.pos].id}
  /\ dialog' = None
  /\ UNCHANGED <<cur, open, rows, dirty, timer, used, askew>>

\* on_delete_response, saved.
Delete ==
  /\ open /\ dialog.kind = "delete" /\ dialog.pos \in DOMAIN json
  /\ toasts < MaxToasts
  /\ Saved(RemoveAt(json, dialog.pos))
  /\ rows' = json'
  /\ undo' = [token |-> json[dialog.pos], pos |-> dialog.pos]
  /\ toasts' = toasts + 1
  /\ deleted' = deleted \cup {rows[dialog.pos].id}
  /\ dialog' = None
  /\ UNCHANGED <<cur, open, dirty, timer, used, askew>>

\* Mutant: the copy for undo stays when the deletion failed.
DeleteFailsKeepsUndo ==
  /\ open /\ dialog.kind = "delete" /\ dialog.pos \in DOMAIN json
  /\ SaveFails(RemoveAt(json, dialog.pos))
  /\ undo' = [token |-> json[dialog.pos], pos |-> dialog.pos]
  /\ dialog' = None
  /\ UNCHANGED <<cur, open, rows, dirty, timer, toasts, used, deleted, askew>>

\* on_delete_response, not saved: what an earlier toast could restore is gone too.
DeleteFails ==
  /\ open /\ dialog.kind = "delete" /\ dialog.pos \in DOMAIN json
  /\ SaveFails(RemoveAt(json, dialog.pos))
  /\ undo' = NoUndo
  /\ dialog' = None
  /\ UNCHANGED <<cur, open, rows, dirty, timer, toasts, used, deleted, askew>>

\* on_undo_delete, from whichever toast: the slot is emptied before the save.
Undo ==
  /\ toasts > 0 /\ dialog = None
  /\ toasts' = toasts - 1
  /\ \/ /\ undo # NoUndo /\ open /\ Len(json) < MaxLen
        /\ LET at == IF undo.pos <= Len(json) + 1 THEN undo.pos ELSE Len(json) + 1
               j == InsertAt(json, at, undo.token)
           IN (Saved(j) /\ rows' = j) \/ (SaveFails(j) /\ UNCHANGED rows)
        /\ undo' = NoUndo
     \/ (undo = NoUndo \/ ~open) /\ UNCHANGED <<json, files, excused, rows, undo>>
  /\ UNCHANGED <<cur, open, dirty, timer, dialog, used, deleted, askew>>

ToastGone ==
  /\ toasts > 0
  /\ toasts' = toasts - 1
  /\ UNCHANGED <<files, cur, open, json, rows, dirty, timer, undo, dialog, history>>

\* action_edit_token and action_move_token: the token is copied with its position.
AskEdit(i) ==
  /\ Idle /\ i \in DOMAIN rows /\ i \in DOMAIN json
  /\ dialog' = [kind |-> "edit", pos |-> i, token |-> json[i]]
  /\ UNCHANGED <<files, cur, open, json, rows, dirty, timer, undo, toasts, history>>

\* on_save_clicked: a db_transaction, which leaves memory alone when it fails; it is
\* refused when the token at the position is no longer the one copied.
Edit ==
  /\ open /\ dialog.kind = "edit"
  /\ dialog.pos \in DOMAIN json /\ json[dialog.pos] = dialog.token
  /\ Saved(json) /\ rows' = json
  /\ dialog' = None
  /\ UNCHANGED <<cur, open, dirty, timer, undo, toasts, used, deleted, askew>>

AskMove(i) ==
  /\ Idle /\ i \in DOMAIN rows /\ i \in DOMAIN json
  /\ Len(files[Other]) < MaxLen
  /\ dialog' = [kind |-> "move", pos |-> i, token |-> json[i]]
  /\ UNCHANGED <<files, cur, open, json, rows, dirty, timer, undo, toasts, history>>

\* What is left of the source: a position past the end removes nothing.
Without(pos) == IF pos \in DOMAIN json THEN RemoveAt(json, pos) ELSE json

\* Mutant: the source is written although the target could not be.
MoveRegardless ==
  /\ open /\ dialog.kind = "move"
  /\ files' = [files EXCEPT ![cur] = Without(dialog.pos)]
  /\ json' = Without(dialog.pos)
  /\ rows' = json'
  /\ dialog' = None
  /\ UNCHANGED <<cur, open, dirty, timer, undo, toasts, history>>

\* on_move_target_password: the target is saved, then the source.
Move ==
  /\ open /\ dialog.kind = "move"
  /\ files' = [files EXCEPT ![Other] = Append(@, dialog.token),
                            ![cur] = Without(dialog.pos)]
  /\ json' = Without(dialog.pos)
  /\ rows' = json'
  /\ dialog' = None
  /\ UNCHANGED <<cur, open, dirty, timer, undo, toasts, history>>

\* The source could not be saved: update_db has restored the array already when the
\* removed token is put back into it.
MoveHalf ==
  /\ open /\ dialog.kind = "move" /\ Len(files[cur]) < MaxLen
  /\ files' = [files EXCEPT ![Other] = Append(@, dialog.token)]
  /\ LET back == files[cur]
     IN json' = IF dialog.pos \in DOMAIN json /\ dialog.pos <= Len(back) + 1
                THEN InsertAt(back, dialog.pos, json[dialog.pos])
                ELSE back
  /\ rows' = json'
  /\ dialog' = None
  /\ excused' = (excused \/ dirty)
  /\ askew' = TRUE
  /\ UNCHANGED <<cur, open, dirty, timer, undo, toasts, used, deleted>>

-----------------------------------------------------------------------------
(* Opening and closing.                                                    *)

Forgotten == timer' = FALSE /\ undo' = NoUndo /\ rows' = << >> /\ json' = << >>

\* lock_app_enter_locked_state: a last flush, then otpclient_window_secure_lock_cleanup.
Lock ==
  /\ \E o \in FlushOutcomes : files' = o.files /\ excused' = o.excused
  /\ Forgotten
  /\ dirty' = FALSE
  /\ open' = FALSE
  /\ dialog' = Deselected
  /\ UNCHANGED <<cur, toasts, used, deleted, askew>>

\* load_db and populate_window_from_db after the password.
Unlock ==
  /\ ~open
  /\ open' = TRUE
  /\ json' = files[cur]
  /\ rows' = json'
  /\ UNCHANGED <<files, cur, dirty, timer, undo, toasts, dialog, history>>

\* otpclient_application_switch_to_db: it flushes and takes the rows down; the undo
\* slot and its toast stay.
Switch ==
  /\ dialog = None
  /\ \E o \in FlushOutcomes :
       files' = o.files /\ dirty' = o.dirty /\ excused' = o.excused
  /\ cur' = Other
  /\ open' = FALSE
  /\ timer' = FALSE /\ rows' = << >> /\ json' = << >>
  /\ UNCHANGED <<undo, toasts, dialog, used, deleted, askew>>

\* on_open_db_password_received: the other database replaces this one, nothing is
\* flushed; the list is cleared before load_db runs, which may fail.
OpenOther ==
  /\ Idle
  /\ \/ cur' = Other /\ json' = files[Other] /\ rows' = json'
        /\ excused' = (excused \/ dirty)
     \/ rows' = << >> /\ UNCHANGED <<cur, json, excused>>
  /\ UNCHANGED <<files, open, dirty, timer, undo, toasts, dialog, used, deleted, askew>>

-----------------------------------------------------------------------------
(* The specification.                                                      *)

Init ==
  /\ cur \in Dbs
  /\ \E s \in [Dbs -> UNION {[1..n -> [id : Tokens, ctr : {0}]] : n \in 0..MaxLen}] :
       /\ \A d \in Dbs : \A i, j \in DOMAIN s[d] : i # j => s[d][i].id # s[d][j].id
       /\ \A t \in Tokens : \E d \in Dbs : t \in Ids(s[d])
       /\ \A d, e \in Dbs : d # e => Ids(s[d]) \cap Ids(s[e]) = {}
       /\ files = s
  /\ open = FALSE /\ json = << >> /\ rows = << >>
  /\ dirty = FALSE /\ timer = FALSE
  /\ undo = NoUndo /\ toasts = 0 /\ dialog = None
  /\ used = [t \in Hotp |-> 0] /\ deleted = {}
  /\ excused = FALSE /\ askew = FALSE

Next ==
  \/ FlushTimer \/ SetGroup \/ Cancel \/ Delete \/ DeleteFails \/ Undo \/ ToastGone
  \/ Edit \/ Move \/ MoveHalf \/ Lock \/ Unlock \/ Switch \/ OpenOther
  \/ \E i \in 1..MaxLen :
       Activate(i) \/ AskDelete(i) \/ AskEdit(i) \/ AskMove(i)
  \/ \E i, j \in 1..MaxLen : Drop(i, j)

Spec == Init /\ [][Next]_vars

\* The main loop runs a timer that is due.
FairSpec == Spec /\ WF_vars(FlushTimer)

-----------------------------------------------------------------------------
(* Properties.                                                             *)

\* The values the variables take.
TypeOK ==
  /\ files \in [Dbs -> Seq(Token)] /\ cur \in Dbs
  /\ json \in Seq(Token) /\ rows \in Seq(Token)
  /\ Len(files[cur]) <= MaxLen
  /\ {open, dirty, timer, excused, askew} \subseteq BOOLEAN
  /\ undo \in {NoUndo} \cup [token : Token, pos : 1..MaxLen]
  /\ toasts \in 0..MaxToasts
  /\ dialog.kind \in {"none", "delete", "edit", "move"}
  /\ used \in [Hotp -> 0..MaxCounter] /\ deleted \subseteq Tokens

\* "The store position equals the JSON index": an action on a row reaches the token the
\* row shows.
RowsMirrorJson == open /\ rows # << >> /\ ~askew => SameIds(rows, json)

Stored(t) ==
  \A d \in Dbs : \A i \in DOMAIN files[d] :
    files[d][i].id = t => files[d][i].ctr >= used[t]

\* Once no flush is pending the file is not behind a code that was handed out, but for
\* the counters a failed save or "Open Database" gave up.
CountersReachFile == ~dirty /\ ~excused /\ ~askew => \A t \in Hotp : Stored(t)

\* No HOTP code is handed out twice, with the same exceptions.
NoCodeTwice ==
  [][\A i \in DOMAIN rows :
       Activate(i) /\ ~excused /\ ~askew => used'[rows[i].id] > used[rows[i].id]]_vars

\* Memory holds what the file holds, but for counters that wait for their flush: a
\* failed save undoes its edit.
MemoryMatchesFile == open /\ ~dirty /\ ~askew => json = files[cur]

\* Neither edits, moves nor failures lose a token whose deletion nobody confirmed.
TokensKept ==
  ~askew => \A t \in Tokens \ deleted : \E d \in Dbs : t \in Ids(files[d])

\* Nor do they make a second one of it.
TokensOnce ==
  ~askew => \A d, e \in Dbs : \A i \in DOMAIN files[d], j \in DOMAIN files[e] :
              files[d][i].id = files[e][j].id => d = e /\ i = j

\* What the comments say of the deferred save: a flush that succeeds has written the
\* counters behind every code that was handed out.
FlushPicksUpCounters == [][FlushTimer /\ dirty /\ ~dirty' => \A t \in Hotp : Stored(t)']_vars
=============================================================================
