------------------------- MODULE TokenWindowProofs -------------------------
(***************************************************************************)
(* What holds of the window for every number of tokens and databases.      *)
(*                                                                         *)
(* Order: as long as no drop and no move failed halfway, the rows, the     *)
(* array in memory and the file list the same tokens in the same order.    *)
(* The rows alone are not inductive: a failed save puts the array of the   *)
(* file back under rows nobody rebuilds, so that the file belongs to the   *)
(* invariant.                                                              *)
(*                                                                         *)
(* Places: the files and the undo slot hold each token once, and a dialog  *)
(* the token that the file has at its position.                            *)
(*                                                                         *)
(* Counters: wherever a token is, in a file, in memory, in a row, in the   *)
(* undo slot or in a dialog, its counter is not behind a code that was     *)
(* shown.                                                                  *)
(***************************************************************************)
EXTENDS TokenWindow, SequenceFacts

\* What the operators on sequences need to know of the values.
Shape ==
  /\ cur \in Dbs
  /\ files \in [Dbs -> Seq(Token)]
  /\ json \in Seq(Token)
  /\ rows \in Seq(Token)
  /\ undo # NoUndo => undo.token \in Token /\ undo.pos \in Nat \ {0}
  /\ dialog.kind = "delete" => dialog.pos \in Nat
  /\ dialog.kind \in {"edit", "move"} => dialog.pos \in Nat \ {0} /\ dialog.token \in Token

\* Even while counters wait for their flush, memory lists what the file lists.
FileOrder == open /\ ~askew => SameIds(json, files[cur])

Order == Shape /\ FileOrder /\ RowsMirrorJson /\ MemoryMatchesFile

-----------------------------------------------------------------------------
(* The operators.                                                          *)

\* The other database of the sidebar is another one.
LEMMA OtherDb == cur \in Dbs => Other \in Dbs /\ Other # cur
  BY TwoDbs DEF Other

\* r is s with e put before position i.
Inserted(r, s, i, e) ==
  /\ Len(r) = Len(s) + 1
  /\ \A k \in 1..(Len(s) + 1) :
       r[k] = IF k < i THEN s[k] ELSE IF k = i THEN e ELSE s[k - 1]

\* Inserting an element keeps a sequence.
LEMMA InsertAtSeq ==
  ASSUME NEW S, NEW s \in Seq(S), NEW e \in S, NEW i \in 1..(Len(s) + 1)
  PROVE  InsertAt(s, i, e) \in Seq(S) /\ Inserted(InsertAt(s, i, e), s, i, e)
<1> DEFINE front == SubSeq(s, 1, i - 1)
           back == SubSeq(s, i, Len(s))
           left == front \o <<e>>
<1>1. Len(s) \in Nat /\ i \in 1..(Len(s) + 1)
  BY LenProperties
<1>2. front \in Seq(S) /\ Len(front) = i - 1 /\ \A k \in 1..(i - 1) : front[k] = s[k]
  BY <1>1, SubSeqProperties
<1>3. /\ back \in Seq(S) /\ Len(back) = Len(s) - i + 1
      /\ \A k \in 1..(Len(s) - i + 1) : back[k] = s[i + k - 1]
  BY <1>1, SubSeqProperties
<1>4. <<e>> \in Seq(S) /\ Len(<<e>>) = 1 /\ <<e>>[1] = e
  OBVIOUS
<1> HIDE DEF front, back
<1>5. /\ left \in Seq(S) /\ Len(left) = i
      /\ \A k \in 1..(i - 1) : left[k] = s[k]
      /\ left[i] = e
  BY <1>1, <1>2, <1>4, ConcatProperties
<1> HIDE DEF left
<1>6. /\ left \o back \in Seq(S) /\ Len(left \o back) = Len(s) + 1
      /\ \A k \in 1..(Len(s) + 1) :
           (left \o back)[k] = IF k <= i THEN left[k] ELSE back[k - i]
  <2>1. /\ left \o back \in Seq(S) /\ Len(left \o back) = Len(left) + Len(back)
        /\ \A k \in 1..(Len(left) + Len(back)) :
             (left \o back)[k] = IF k <= Len(left) THEN left[k] ELSE back[k - Len(left)]
    BY <1>3, <1>5, ConcatProperties
  <2>2. Len(left) + Len(back) = Len(s) + 1
    BY <1>1, <1>3, <1>5
  <2> QED
    BY <1>5, <2>1, <2>2
<1>7. \A k \in 1..(Len(s) + 1) :
        (left \o back)[k] = IF k < i THEN s[k] ELSE IF k = i THEN e ELSE s[k - 1]
  <2> TAKE k \in 1..(Len(s) + 1)
  <2>1. CASE k < i
    BY <1>1, <1>5, <1>6, <2>1
  <2>2. CASE k = i
    BY <1>1, <1>5, <1>6, <2>2
  <2>3. CASE k > i
    <3>1. k - i \in 1..(Len(s) - i + 1) /\ i + (k - i) - 1 = k - 1 /\ ~(k <= i)
      BY <1>1, <2>3
    <3> QED
      BY <1>3, <1>6, <2>3, <3>1
  <2>4. k < i \/ k = i \/ k > i
    BY <1>1
  <2> QED
    BY ONLY <2>1, <2>2, <2>3, <2>4
<1> QED
  BY <1>6, <1>7 DEF InsertAt, Inserted, front, back, left

\* Moving an element keeps a sequence.
LEMMA MovedSeq ==
  ASSUME NEW S, NEW s \in Seq(S), NEW i \in DOMAIN s, NEW j \in DOMAIN s
  PROVE  Moved(s, i, j) \in Seq(S)
<1>1. RemoveAt(s, i) \in Seq(S) /\ Len(RemoveAt(s, i)) = Len(s) - 1
  BY RemoveAtSeq
<1>2. s[i] \in S /\ j \in 1..(Len(RemoveAt(s, i)) + 1)
  BY <1>1
<1> QED
  BY <1>1, <1>2, InsertAtSeq DEF Moved

\* What a drop makes of the array is a list of tokens, and no longer.
LEMMA ReorderedSeq ==
  ASSUME json \in Seq(Token), NEW i, NEW j
  PROVE  /\ Reordered(i, j) \in Seq(Token)
         /\ i \in DOMAIN json /\ j \in DOMAIN json => Reordered(i, j) = Moved(json, i, j)
<1>1. CASE i \notin DOMAIN json
  BY <1>1 DEF Reordered
<1>2. CASE i \in DOMAIN json /\ j \in DOMAIN json
  BY <1>2, MovedSeq DEF Reordered
<1>3. CASE i \in DOMAIN json /\ j \notin DOMAIN json
  BY <1>3, RemoveAtSeq DEF Reordered
<1> QED
  BY <1>1, <1>2, <1>3

\* The same move of two sequences that list the same tokens leaves them listing the same
\* tokens.
LEMMA MovedSameIds ==
  ASSUME NEW S, NEW s \in Seq(S), NEW t \in Seq(S), SameIds(s, t),
         NEW i \in DOMAIN s, NEW j \in DOMAIN s
  PROVE  SameIds(Moved(s, i, j), Moved(t, i, j))
<1> DEFINE u == RemoveAt(s, i)
           v == RemoveAt(t, i)
<1>1. Len(s) = Len(t) /\ DOMAIN s = 1..Len(s) /\ DOMAIN t = 1..Len(s) /\ Len(s) \in Nat
  BY DEF SameIds
<1>2. /\ u \in Seq(S) /\ Len(u) = Len(s) - 1
      /\ \A k \in 1..(Len(s) - 1) : u[k] = IF k < i THEN s[k] ELSE s[k + 1]
  BY RemoveAtSeq
<1>3. /\ v \in Seq(S) /\ Len(v) = Len(s) - 1
      /\ \A k \in 1..(Len(s) - 1) : v[k] = IF k < i THEN t[k] ELSE t[k + 1]
  BY <1>1, RemoveAtSeq
<1>4. s[i] \in S /\ t[i] \in S /\ s[i].id = t[i].id
  BY <1>1 DEF SameIds
<1> HIDE DEF u, v
<1>5. j \in 1..(Len(u) + 1) /\ j \in 1..(Len(v) + 1)
  BY <1>1, <1>2, <1>3
<1>6. InsertAt(u, j, s[i]) \in Seq(S) /\ Inserted(InsertAt(u, j, s[i]), u, j, s[i])
  BY <1>2, <1>4, <1>5, InsertAtSeq
<1>7. InsertAt(v, j, t[i]) \in Seq(S) /\ Inserted(InsertAt(v, j, t[i]), v, j, t[i])
  BY <1>3, <1>4, <1>5, InsertAtSeq
<1>8. \A k \in 1..(Len(s) - 1) : u[k].id = v[k].id
  <2> TAKE k \in 1..(Len(s) - 1)
  <2>1. k \in 1..Len(s) /\ k + 1 \in 1..Len(s)
    BY <1>1
  <2>2. s[k].id = t[k].id /\ s[k + 1].id = t[k + 1].id
    BY <1>1, <2>1 DEF SameIds
  <2>3. u[k] = IF k < i THEN s[k] ELSE s[k + 1]
    BY <1>2
  <2>4. v[k] = IF k < i THEN t[k] ELSE t[k + 1]
    BY <1>3
  <2> QED
    BY <2>2, <2>3, <2>4
<1>9. \A k \in 1..Len(s) : InsertAt(u, j, s[i])[k].id = InsertAt(v, j, t[i])[k].id
  <2> TAKE k \in 1..Len(s)
  <2> DEFINE x == InsertAt(u, j, s[i])
             y == InsertAt(v, j, t[i])
  <2>1. /\ x[k] = IF k < j THEN u[k] ELSE IF k = j THEN s[i] ELSE u[k - 1]
        /\ y[k] = IF k < j THEN v[k] ELSE IF k = j THEN t[i] ELSE v[k - 1]
    BY <1>1, <1>2, <1>3, <1>6, <1>7 DEF Inserted
  <2> HIDE DEF x, y
  <2>2. CASE k < j
    <3>1. k \in 1..(Len(s) - 1)
      BY <1>1, <1>5, <2>2
    <3>2. x[k] = u[k] /\ y[k] = v[k]
      BY <2>1, <2>2
    <3> QED
      BY <1>8, <3>1, <3>2 DEF x, y
  <2>3. CASE k = j
    <3>1. x[k] = s[i] /\ y[k] = t[i]
      BY <1>1, <2>1, <2>3
    <3> QED
      BY <1>4, <3>1 DEF x, y
  <2>4. CASE k > j
    <3>1. k - 1 \in 1..(Len(s) - 1) /\ ~(k < j) /\ k # j
      BY <1>1, <1>5, <2>4
    <3>2. x[k] = u[k - 1] /\ y[k] = v[k - 1]
      BY <2>1, <3>1
    <3> QED
      BY <1>8, <3>1, <3>2 DEF x, y
  <2>5. k < j \/ k = j \/ k > j
    BY <1>1
  <2> QED
    BY ONLY <2>2, <2>3, <2>4, <2>5
<1>10. /\ Len(InsertAt(u, j, s[i])) = Len(s) /\ Len(InsertAt(v, j, t[i])) = Len(s)
       /\ DOMAIN InsertAt(u, j, s[i]) = 1..Len(s)
  BY <1>1, <1>2, <1>3, <1>6, <1>7 DEF Inserted
<1> QED
  BY <1>9, <1>10 DEF SameIds, Moved, u, v

\* Listing the same tokens is reflexive.
LEMMA SameIdsRefl ==
  ASSUME NEW s
  PROVE  SameIds(s, s)
  BY DEF SameIds

\* It is transitive.
LEMMA SameIdsTrans ==
  ASSUME NEW S, NEW s \in Seq(S), NEW t \in Seq(S), NEW r \in Seq(S),
         SameIds(s, t), SameIds(t, r)
  PROVE  SameIds(s, r)
<1>1. DOMAIN s = DOMAIN t
  BY DEF SameIds
<1> QED
  BY <1>1 DEF SameIds

\* It is symmetric.
LEMMA SameIdsSym ==
  ASSUME NEW S, NEW s \in Seq(S), NEW t \in Seq(S), SameIds(s, t)
  PROVE  SameIds(t, s)
<1>1. DOMAIN s = DOMAIN t
  BY DEF SameIds
<1> QED
  BY <1>1 DEF SameIds

\* A new counter does not make another token.
LEMMA CounterSet ==
  ASSUME NEW s \in Seq(Token), NEW i \in DOMAIN s, NEW c \in 0..MaxCounter
  PROVE  /\ [s EXCEPT ![i].ctr = c] \in Seq(Token)
         /\ SameIds([s EXCEPT ![i].ctr = c], s)
<1> DEFINE r == [s EXCEPT ![i].ctr = c]
<1>1. s \in [1..Len(s) -> Token] /\ Len(s) \in Nat /\ DOMAIN s = 1..Len(s)
  OBVIOUS
<1>2. \A k \in 1..Len(s) : s[k] \in Token
  BY <1>1
<1>3. \A k \in 1..Len(s) : r[k] \in Token /\ r[k].id = s[k].id
  <2> TAKE k \in 1..Len(s)
  <2>1. CASE k = i
    <3>1. r[k] = [s[k] EXCEPT !.ctr = c]
      BY <1>1, <2>1
    <3> QED
      BY <1>2, <3>1 DEF Token
  <2>2. CASE k # i
    <3>1. r[k] = s[k]
      BY <1>1, <2>2
    <3> QED
      BY <1>2, <3>1
  <2> QED
    BY <2>1, <2>2
<1>4. DOMAIN r = 1..Len(s)
  BY <1>1
<1>5. r \in [1..Len(s) -> Token]
  BY <1>3, <1>4
<1>6. r \in Seq(Token)
  BY <1>1, <1>5
<1>7. Len(r) = Len(s)
  BY <1>1, <1>4, <1>6
<1> QED
  BY <1>3, <1>4, <1>6, <1>7 DEF SameIds

-----------------------------------------------------------------------------
(* Saving.                                                                 *)

\* The array of a saved edit is that of the file.
LEMMA SavedMatches ==
  ASSUME Shape, NEW j \in Seq(Token), Saved(j), cur' = cur
  PROVE  /\ json' = j /\ json' \in Seq(Token)
         /\ files' \in [Dbs -> Seq(Token)] /\ files'[cur'] = json'
  BY DEF Shape, Saved

\* So is the array after a save that failed.
LEMMA SaveFailsMatches ==
  ASSUME Shape, NEW j \in Seq(Token), SaveFails(j), cur' = cur
  PROVE  /\ json' = files[cur] /\ json' \in Seq(Token)
         /\ files' = files /\ files'[cur'] = json'
  BY DEF Shape, SaveFails

\* An array that is the one of its file is in its order and has its counters.
LEMMA Matching ==
  ASSUME files'[cur'] = json'
  PROVE  FileOrder' /\ MemoryMatchesFile'
  BY SameIdsRefl DEF FileOrder, MemoryMatchesFile

\* Rows built from the array mirror it.
LEMMA Rebuilt ==
  ASSUME rows' = json'
  PROVE  RowsMirrorJson'
  BY SameIdsRefl DEF RowsMirrorJson

\* Rows nobody rebuilt mirror the array of the file.
LEMMA RestoredMirrors ==
  ASSUME Order, UNCHANGED <<cur, open, rows, askew>>, json' = files[cur]
  PROVE  RowsMirrorJson'
<1> SUFFICES ASSUME open, rows # << >>, ~askew
             PROVE  SameIds(rows, files[cur])
  BY DEF RowsMirrorJson
<1>1. SameIds(rows, json) /\ SameIds(json, files[cur])
  BY DEF Order, RowsMirrorJson, FileOrder
<1>2. rows \in Seq(Token) /\ json \in Seq(Token) /\ files[cur] \in Seq(Token)
  BY DEF Order, Shape
<1> QED
  BY <1>1, <1>2, SameIdsTrans

\* Nothing is claimed of a window that is closed, nor after a save that left memory askew.
LEMMA NothingClaimed ==
  ASSUME ~open' \/ askew'
  PROVE  FileOrder' /\ RowsMirrorJson' /\ MemoryMatchesFile'
  BY DEF FileOrder, RowsMirrorJson, MemoryMatchesFile

-----------------------------------------------------------------------------
(* The invariant.                                                          *)

\* A window that has just started is closed.
LEMMA InitOrder == Init => Order
<1> SUFFICES ASSUME Init
             PROVE  Order
  OBVIOUS
<1>1. files \in [Dbs -> Seq(Token)]
  <2>1. PICK s \in [Dbs -> UNION {[1..n -> [id : Tokens, ctr : {0}]] : n \in 0..MaxLen}] :
          files = s
    BY DEF Init
  <2>2. MaxCounter \in Nat /\ MaxLen \in Nat
    BY BoundAssumption
  <2>3. [id : Tokens, ctr : {0}] \subseteq Token
    BY <2>2 DEF Token
  <2>4. UNION {[1..n -> [id : Tokens, ctr : {0}]] : n \in 0..MaxLen} \subseteq Seq(Token)
    <3> SUFFICES ASSUME NEW n \in 0..MaxLen, NEW f \in [1..n -> [id : Tokens, ctr : {0}]]
                 PROVE  f \in Seq(Token)
      OBVIOUS
    <3>1. n \in Nat
      BY <2>2
    <3>2. f \in [1..n -> Token]
      BY <2>3
    <3> QED
      BY <3>1, <3>2
  <2> QED
    BY <2>1, <2>4
<1>2. Shape
  BY <1>1 DEF Init, Shape, None
<1> QED
  BY <1>2 DEF Init, Order, FileOrder, RowsMirrorJson, MemoryMatchesFile

\* Whatever a flush leaves, the files stay files.
LEMMA FlushFiles ==
  ASSUME Shape, NEW o \in FlushOutcomes
  PROVE  o.files \in [Dbs -> Seq(Token)]
<1>1. [files EXCEPT ![cur] = json] \in [Dbs -> Seq(Token)]
  BY DEF Shape
<1>2. o.files \in {files, [files EXCEPT ![cur] = json]}
  BY DEF FlushOutcomes
<1> QED
  BY <1>1, <1>2 DEF Shape

\* The timer saves what memory holds or puts the array of the file back under the rows.
LEMMA FlushTimerOrder == Order /\ FlushTimer => Order'
<1> SUFFICES ASSUME Order, FlushTimer
             PROVE  Order'
  OBVIOUS
<1>1. PICK o \in FlushOutcomes :
        files' = o.files /\ json' = o.json /\ dirty' = o.dirty /\ excused' = o.excused
  BY DEF FlushTimer
<1>2. UNCHANGED <<cur, open, rows, undo, dialog, askew>>
  BY DEF FlushTimer
<1>3. CASE files' = [files EXCEPT ![cur] = json] /\ json' = json
  <2>1. Shape'
    BY <1>2, <1>3 DEF Order, Shape
  <2>2. files'[cur'] = json'
    BY <1>2, <1>3 DEF Order, Shape
  <2>3. RowsMirrorJson'
    BY <1>2, <1>3 DEF Order, RowsMirrorJson
  <2> QED
    BY <2>1, <2>2, <2>3, Matching DEF Order
<1>4. CASE files' = files /\ json' = files[cur]
  <2>1. Shape'
    BY <1>2, <1>4 DEF Order, Shape
  <2>2. files'[cur'] = json'
    BY <1>2, <1>4
  <2>3. RowsMirrorJson'
    BY <1>2, <1>4, RestoredMirrors
  <2> QED
    BY <2>1, <2>2, <2>3, Matching DEF Order
<1>5. CASE UNCHANGED <<files, json, dirty>>
  <2>1. Shape' /\ RowsMirrorJson'
    BY <1>2, <1>5 DEF Order, Shape, RowsMirrorJson
  <2>2. FileOrder' /\ MemoryMatchesFile'
    BY <1>2, <1>5 DEF Order, FileOrder, MemoryMatchesFile
  <2> QED
    BY <2>1, <2>2 DEF Order
<1> QED
  BY <1>1, <1>3, <1>4, <1>5 DEF FlushOutcomes

\* A counter advances on a row and on the token at its position.
LEMMA ActivateOrder == Order => \A i \in 1..MaxLen : Activate(i) => Order'
<1> SUFFICES ASSUME Order, NEW i \in 1..MaxLen, Activate(i)
             PROVE  Order'
  OBVIOUS
<1> DEFINE c == rows[i].ctr + 1
<1>1. /\ UNCHANGED <<cur, files, open, undo, dialog, askew>>
      /\ i \in DOMAIN rows /\ rows[i].ctr < MaxCounter /\ open
      /\ rows' = [rows EXCEPT ![i].ctr = @ + 1]
  BY DEF Activate, Idle
<1>2. rows \in Seq(Token) /\ json \in Seq(Token) /\ files[cur] \in Seq(Token)
  BY DEF Order, Shape
<1>3. rows[i] \in Token
  BY <1>1, <1>2
<1>4. c \in 0..MaxCounter
  BY <1>1, <1>3, BoundAssumption DEF Token
<1>5. rows' = [rows EXCEPT ![i].ctr = c]
  BY <1>1
<1> HIDE DEF c
<1>6. rows' \in Seq(Token) /\ SameIds(rows', rows)
  <2>1. /\ [rows EXCEPT ![i].ctr = c] \in Seq(Token)
        /\ SameIds([rows EXCEPT ![i].ctr = c], rows)
    BY <1>1, <1>2, <1>4, CounterSet
  <2> QED
    BY ONLY <1>5, <2>1
<1>7. json' \in Seq(Token) /\ SameIds(json', json) /\ (~dirty' => ~dirty /\ json' = json)
  <2>1. CASE i \in DOMAIN json /\ json' = [json EXCEPT ![i].ctr = c] /\ dirty' = TRUE
    BY <1>2, <1>4, <2>1, CounterSet
  <2>2. CASE UNCHANGED <<json, dirty>>
    BY <1>2, <2>2, SameIdsRefl
  <2> QED
    BY <2>1, <2>2 DEF Activate, c
<1>8. Shape'
  BY <1>1, <1>6, <1>7 DEF Order, Shape
<1>9. FileOrder'
  BY <1>1, <1>2, <1>7, SameIdsTrans DEF Order, FileOrder
<1>10. RowsMirrorJson'
  <2> SUFFICES ASSUME ~askew
               PROVE  SameIds(rows', json')
    BY <1>1 DEF RowsMirrorJson
  <2>1. rows # << >>
    BY <1>1
  <2>2. SameIds(rows, json)
    BY <1>1, <2>1 DEF Order, RowsMirrorJson
  <2>3. SameIds(rows', json)
    BY <1>2, <1>6, <2>2, SameIdsTrans
  <2>4. SameIds(json, json')
    BY <1>2, <1>7, SameIdsSym
  <2> QED
    BY <1>2, <1>6, <1>7, <2>3, <2>4, SameIdsTrans
<1>11. MemoryMatchesFile'
  BY <1>1, <1>7 DEF Order, MemoryMatchesFile
<1> QED
  BY <1>8, <1>9, <1>10, <1>11 DEF Order

\* A drop that is saved moves the row and the token alike.
LEMMA DropOrder == Order => \A i, j \in 1..MaxLen : Drop(i, j) => Order'
<1> SUFFICES ASSUME Order, NEW i \in 1..MaxLen, NEW j \in 1..MaxLen, Drop(i, j)
             PROVE  Order'
  OBVIOUS
<1> DEFINE new == Reordered(i, j)
<1>1. /\ UNCHANGED <<cur, open, undo, dialog, dirty>>
      /\ i \in DOMAIN rows /\ j \in DOMAIN rows /\ open
      /\ rows' = Moved(rows, i, j)
      /\ (Saved(new) /\ UNCHANGED askew) \/ (SaveFails(new) /\ askew' = TRUE)
  BY DEF Drop, Idle
<1>2. rows \in Seq(Token) /\ json \in Seq(Token) /\ Shape
  BY DEF Order, Shape
<1>3. new \in Seq(Token)
  BY <1>2, ReorderedSeq
<1>4. rows' \in Seq(Token)
  <2>1. Moved(rows, i, j) \in Seq(Token)
    BY <1>1, <1>2, MovedSeq
  <2> QED
    BY ONLY <1>1, <2>1
<1>5. ~askew => SameIds(rows', new)
  <2> SUFFICES ASSUME ~askew
               PROVE  SameIds(Moved(rows, i, j), new)
    BY <1>1
  <2>1. SameIds(rows, json)
    BY <1>1 DEF Order, RowsMirrorJson
  <2>2. DOMAIN rows = DOMAIN json
    BY <1>2, <2>1 DEF SameIds
  <2>3. SameIds(Moved(rows, i, j), Moved(json, i, j))
    BY <1>1, <1>2, <2>1, MovedSameIds
  <2>4. new = Moved(json, i, j)
    BY <1>1, <1>2, <2>2, ReorderedSeq
  <2> QED
    BY ONLY <2>3, <2>4
<1> HIDE DEF new
<1>6. CASE Saved(new) /\ UNCHANGED askew
  <2>1. /\ json' = new /\ json' \in Seq(Token)
        /\ files' \in [Dbs -> Seq(Token)] /\ files'[cur'] = json'
    BY <1>1, <1>2, <1>3, <1>6, SavedMatches
  <2>2. Shape'
    BY <1>1, <1>2, <1>4, <2>1 DEF Shape
  <2>3. RowsMirrorJson'
    BY <1>5, <1>6, <2>1 DEF RowsMirrorJson
  <2> QED
    BY <2>1, <2>2, <2>3, Matching DEF Order
<1>7. CASE SaveFails(new) /\ askew' = TRUE
  <2>1. json' \in Seq(Token) /\ files' = files
    BY <1>1, <1>2, <1>3, <1>7, SaveFailsMatches
  <2>2. Shape'
    BY <1>1, <1>2, <1>4, <2>1 DEF Shape
  <2> QED
    BY <1>7, <2>2, NothingClaimed DEF Order
<1> QED
  BY <1>1, <1>6, <1>7

\* The rows are rebuilt when the save succeeded, and stay when the array was restored.
LEMMA SetGroupOrder == Order /\ SetGroup => Order'
<1> SUFFICES ASSUME Order, SetGroup
             PROVE  Order'
  OBVIOUS
<1>1. /\ UNCHANGED <<cur, open, undo, dialog, dirty, askew>>
      /\ (Saved(json) /\ rows' = json) \/ (SaveFails(json) /\ UNCHANGED rows)
  BY DEF SetGroup
<1>2. rows \in Seq(Token) /\ json \in Seq(Token) /\ Shape
  BY DEF Order, Shape
<1>3. CASE Saved(json) /\ rows' = json
  <2>1. /\ json' = json /\ json' \in Seq(Token)
        /\ files' \in [Dbs -> Seq(Token)] /\ files'[cur'] = json'
    BY <1>1, <1>2, <1>3, SavedMatches
  <2>2. Shape'
    BY <1>1, <1>2, <1>3, <2>1 DEF Shape
  <2> QED
    BY <1>3, <2>1, <2>2, Matching, Rebuilt DEF Order
<1>4. CASE SaveFails(json) /\ UNCHANGED rows
  <2>1. /\ json' = files[cur] /\ json' \in Seq(Token)
        /\ files' = files /\ files'[cur'] = json'
    BY <1>1, <1>2, <1>4, SaveFailsMatches
  <2>2. Shape'
    BY <1>1, <1>2, <1>4, <2>1 DEF Shape
  <2>3. RowsMirrorJson'
    BY <1>1, <1>4, <2>1, RestoredMirrors DEF Order
  <2> QED
    BY <2>1, <2>2, <2>3, Matching DEF Order
<1> QED
  BY <1>1, <1>3, <1>4

\* A deletion that is saved rebuilds the rows.
LEMMA DeleteOrder == Order /\ Delete => Order'
<1> SUFFICES ASSUME Order, Delete
             PROVE  Order'
  OBVIOUS
<1> DEFINE p == dialog.pos
<1>1. /\ UNCHANGED <<cur, open, dirty, askew>>
      /\ p \in DOMAIN json /\ Saved(RemoveAt(json, p)) /\ rows' = json'
      /\ undo' = [token |-> json[p], pos |-> p]
      /\ dialog' = None
  BY DEF Delete
<1>2. json \in Seq(Token) /\ Shape
  BY DEF Order, Shape
<1>3. RemoveAt(json, p) \in Seq(Token)
  BY <1>1, <1>2, RemoveAtSeq
<1>4. json[p] \in Token /\ p \in Nat \ {0}
  BY <1>1, <1>2
<1>5. json' \in Seq(Token) /\ files' \in [Dbs -> Seq(Token)] /\ files'[cur'] = json'
  BY <1>1, <1>2, <1>3, SavedMatches
<1>6. Shape'
  BY <1>1, <1>2, <1>4, <1>5 DEF Shape, None
<1> QED
  BY <1>1, <1>5, <1>6, Matching, Rebuilt DEF Order

\* One that is not restores the array under them.
LEMMA DeleteFailsOrder == Order /\ DeleteFails => Order'
<1> SUFFICES ASSUME Order, DeleteFails
             PROVE  Order'
  OBVIOUS
<1> DEFINE p == dialog.pos
<1>1. /\ UNCHANGED <<cur, open, dirty, askew, rows>>
      /\ p \in DOMAIN json /\ SaveFails(RemoveAt(json, p))
      /\ undo' = NoUndo /\ dialog' = None
  BY DEF DeleteFails
<1>2. json \in Seq(Token) /\ Shape
  BY DEF Order, Shape
<1>3. RemoveAt(json, p) \in Seq(Token)
  BY <1>1, <1>2, RemoveAtSeq
<1>4. /\ json' = files[cur] /\ json' \in Seq(Token)
      /\ files' = files /\ files'[cur'] = json'
  BY <1>1, <1>2, <1>3, SaveFailsMatches
<1>5. Shape'
  BY <1>1, <1>2, <1>4 DEF Shape, None
<1>6. RowsMirrorJson'
  BY <1>1, <1>4, RestoredMirrors DEF Order
<1> QED
  BY <1>4, <1>5, <1>6, Matching DEF Order

\* An undo puts the token back at its position, or at the end when the list is shorter.
LEMMA UndoOrder == Order /\ Undo => Order'
<1> SUFFICES ASSUME Order, Undo
             PROVE  Order'
  OBVIOUS
<1>1. UNCHANGED <<cur, open, dirty, dialog, askew>> /\ dialog = None
  BY DEF Undo
<1>2. json \in Seq(Token) /\ Shape
  BY DEF Order, Shape
<1>3. CASE UNCHANGED <<json, files, rows, undo>>
  BY <1>1, <1>3 DEF Order, Shape, FileOrder, RowsMirrorJson, MemoryMatchesFile
<1>4. CASE undo # NoUndo /\ open /\ undo' = NoUndo
  <2> DEFINE at == IF undo.pos <= Len(json) + 1 THEN undo.pos ELSE Len(json) + 1
             j == InsertAt(json, at, undo.token)
  <2>1. CASE (Saved(j) /\ rows' = j) \/ (SaveFails(j) /\ UNCHANGED rows)
    <3>1. undo.token \in Token /\ undo.pos \in Nat \ {0} /\ Len(json) \in Nat
      BY <1>2, <1>4 DEF Shape
    <3>2. at \in 1..(Len(json) + 1)
      BY <3>1
    <3> HIDE DEF at
    <3>3. j \in Seq(Token)
      BY <1>2, <3>1, <3>2, InsertAtSeq
    <3> HIDE DEF j
    <3>4. CASE Saved(j) /\ rows' = j
      <4>1. /\ json' = j /\ json' \in Seq(Token)
            /\ files' \in [Dbs -> Seq(Token)] /\ files'[cur'] = json'
        BY <1>1, <1>2, <3>3, <3>4, SavedMatches
      <4>2. Shape'
        BY <1>1, <1>2, <1>4, <3>4, <4>1 DEF Shape
      <4> QED
        BY <3>4, <4>1, <4>2, Matching, Rebuilt DEF Order
    <3>5. CASE SaveFails(j) /\ UNCHANGED rows
      <4>1. /\ json' = files[cur] /\ json' \in Seq(Token)
            /\ files' = files /\ files'[cur'] = json'
        BY <1>1, <1>2, <3>3, <3>5, SaveFailsMatches
      <4>2. Shape'
        BY <1>1, <1>2, <1>4, <3>5, <4>1 DEF Shape
      <4>3. RowsMirrorJson'
        BY <1>1, <3>5, <4>1, RestoredMirrors DEF Order
      <4> QED
        BY <4>1, <4>2, <4>3, Matching DEF Order
    <3> QED
      BY <2>1, <3>4, <3>5
  <2> QED
    BY <1>4, <2>1 DEF Undo
<1> QED
  BY <1>3, <1>4 DEF Undo

\* The steps that touch neither array nor file.
LEMMA StillOrder ==
  ASSUME Order, UNCHANGED <<files, cur, open, json, rows, dirty, undo, askew>>, Shape'
  PROVE  Order'
  BY DEF Order, FileOrder, RowsMirrorJson, MemoryMatchesFile

\* A dialog captures a position and a token of the array.
LEMMA DialogOrder ==
  ASSUME Order, NEW i \in 1..MaxLen, AskDelete(i) \/ AskEdit(i) \/ AskMove(i)
  PROVE  Order'
<1>1. UNCHANGED <<files, cur, open, json, rows, dirty, undo, askew>>
  BY DEF AskDelete, AskEdit, AskMove, history
<1>2. Shape /\ i \in Nat \ {0}
  BY BoundAssumption DEF Order
<1>3. CASE dialog' = [kind |-> "delete", pos |-> i]
  <2>1. Shape'
    BY <1>1, <1>2, <1>3 DEF Shape
  <2> QED
    BY <1>1, <2>1, StillOrder
<1>4. CASE i \in DOMAIN json /\ \E k \in {"edit", "move"} :
             dialog' = [kind |-> k, pos |-> i, token |-> json[i]]
  <2>1. json[i] \in Token
    BY <1>2, <1>4 DEF Shape
  <2>2. Shape'
    BY <1>1, <1>2, <1>4, <2>1 DEF Shape
  <2> QED
    BY <1>1, <2>2, StillOrder
<1> QED
  BY <1>3, <1>4 DEF AskDelete, AskEdit, AskMove

\* An edit rebuilds the rows.
LEMMA EditOrder == Order /\ Edit => Order'
<1> SUFFICES ASSUME Order, Edit
             PROVE  Order'
  OBVIOUS
<1>1. UNCHANGED <<cur, open, dirty, undo, askew>> /\ dialog' = None
      /\ Saved(json) /\ rows' = json
  BY DEF Edit
<1>2. json \in Seq(Token) /\ Shape
  BY DEF Order, Shape
<1>3. /\ json' = json /\ json' \in Seq(Token)
      /\ files' \in [Dbs -> Seq(Token)] /\ files'[cur'] = json'
  BY <1>1, <1>2, SavedMatches
<1>4. Shape'
  BY <1>1, <1>2, <1>3 DEF Shape, None
<1> QED
  BY <1>1, <1>3, <1>4, Matching, Rebuilt DEF Order

\* A move writes both files and rebuilds the rows.
LEMMA MoveOrder == Order /\ Move => Order'
<1> SUFFICES ASSUME Order, Move
             PROVE  Order'
  OBVIOUS
<1> DEFINE rest == Without(dialog.pos)
<1>1. /\ UNCHANGED <<cur, open, dirty, undo, askew>> /\ dialog' = None
      /\ json' = rest /\ rows' = json' /\ dialog.kind = "move"
      /\ files' = [files EXCEPT ![Other] = Append(@, dialog.token), ![cur] = rest]
  BY DEF Move, history
<1>2. json \in Seq(Token) /\ Shape /\ cur \in Dbs /\ dialog.token \in Token
      /\ files \in [Dbs -> Seq(Token)]
  BY <1>1 DEF Order, Shape
<1>3. rest \in Seq(Token)
  BY <1>2, RemoveAtSeq DEF Without
<1> HIDE DEF rest
<1>4. Other \in Dbs /\ Other # cur
  BY <1>2, OtherDb
<1>5. Append(files[Other], dialog.token) \in Seq(Token)
  BY <1>2, <1>4
<1>6. files' \in [Dbs -> Seq(Token)] /\ files'[cur'] = json'
  BY <1>1, <1>2, <1>3, <1>4, <1>5
<1>7. Shape'
  BY <1>1, <1>2, <1>3, <1>6 DEF Shape, None
<1> QED
  BY <1>1, <1>6, <1>7, Matching, Rebuilt DEF Order

\* A move that wrote only the target leaves memory askew.
LEMMA MoveHalfOrder == Order /\ MoveHalf => Order'
<1> SUFFICES ASSUME Order, MoveHalf
             PROVE  Order'
  OBVIOUS
<1> DEFINE back == files[cur]
<1>1. /\ UNCHANGED <<cur, open, dirty, undo>> /\ dialog' = None /\ askew' = TRUE
      /\ rows' = json' /\ dialog.kind = "move"
      /\ files' = [files EXCEPT ![Other] = Append(@, dialog.token)]
      /\ json' = IF dialog.pos \in DOMAIN json /\ dialog.pos <= Len(back) + 1
                 THEN InsertAt(back, dialog.pos, json[dialog.pos])
                 ELSE back
  BY DEF MoveHalf
<1>2. /\ json \in Seq(Token) /\ Shape /\ cur \in Dbs /\ back \in Seq(Token)
      /\ dialog.token \in Token /\ dialog.pos \in Nat \ {0}
      /\ files \in [Dbs -> Seq(Token)]
  BY <1>1 DEF Order, Shape
<1>3. json' \in Seq(Token)
  <2>1. CASE dialog.pos \in DOMAIN json /\ dialog.pos <= Len(back) + 1
    <3>1. json[dialog.pos] \in Token /\ dialog.pos \in 1..(Len(back) + 1)
      BY <1>2, <2>1
    <3>2. InsertAt(back, dialog.pos, json[dialog.pos]) \in Seq(Token)
      BY <1>2, <3>1, InsertAtSeq
    <3> QED
      BY <1>1, <2>1, <3>2
  <2> QED
    BY <1>1, <1>2, <2>1
<1>4. Other \in Dbs
  BY <1>2, OtherDb
<1>5. Append(files[Other], dialog.token) \in Seq(Token)
  BY <1>2, <1>4
<1>6. files' \in [Dbs -> Seq(Token)]
  BY <1>1, <1>2, <1>4, <1>5
<1>7. Shape'
  BY <1>1, <1>2, <1>3, <1>6 DEF Shape, None
<1> QED
  BY <1>1, <1>7, NothingClaimed DEF Order

\* A lock closes the window.
LEMMA LockOrder == Order /\ Lock => Order'
<1> SUFFICES ASSUME Order, Lock
             PROVE  Order'
  OBVIOUS
<1>1. /\ cur' = cur /\ open' = FALSE /\ json' = << >> /\ rows' = << >> /\ undo' = NoUndo
      /\ dialog' = Deselected
  BY DEF Lock, Forgotten
<1>2. files' \in [Dbs -> Seq(Token)]
  BY FlushFiles DEF Lock, Order
<1>3. Shape
  BY DEF Order
<1>4. Shape'
  BY <1>1, <1>2, <1>3 DEF Shape, Deselected
<1> QED
  BY <1>1, <1>4, NothingClaimed DEF Order

\* Unlocking builds array and rows from the file.
LEMMA UnlockOrder == Order /\ Unlock => Order'
<1> SUFFICES ASSUME Order, Unlock
             PROVE  Order'
  OBVIOUS
<1>1. /\ UNCHANGED <<files, cur, dirty, undo, dialog, askew>>
      /\ json' = files[cur] /\ rows' = json'
  BY DEF Unlock, history
<1>2. Shape'
  BY <1>1 DEF Order, Shape
<1> QED
  BY <1>1, <1>2, Matching, Rebuilt DEF Order

\* A switch closes the window on the other database.
LEMMA SwitchOrder == Order /\ Switch => Order'
<1> SUFFICES ASSUME Order, Switch
             PROVE  Order'
  OBVIOUS
<1>1. /\ cur' = Other /\ open' = FALSE /\ json' = << >> /\ rows' = << >>
      /\ UNCHANGED <<undo, dialog>>
  BY DEF Switch
<1>2. files' \in [Dbs -> Seq(Token)]
  BY FlushFiles DEF Switch, Order
<1>3. Other \in Dbs
  BY OtherDb DEF Order, Shape
<1>4. Shape'
  BY <1>1, <1>2, <1>3 DEF Order, Shape
<1> QED
  BY <1>1, <1>4, NothingClaimed DEF Order

\* Opening replaces array and rows together, or only empties the rows.
LEMMA OpenOtherOrder == Order /\ OpenOther => Order'
<1> SUFFICES ASSUME Order, OpenOther
             PROVE  Order'
  OBVIOUS
<1>1. UNCHANGED <<files, open, dirty, undo, dialog, askew>>
  BY DEF OpenOther
<1>2. CASE cur' = Other /\ json' = files[Other] /\ rows' = json'
  <2>1. Other \in Dbs
    BY OtherDb DEF Order, Shape
  <2>2. Shape'
    BY <1>1, <1>2, <2>1 DEF Order, Shape
  <2> QED
    BY <1>1, <1>2, <2>2, Matching, Rebuilt DEF Order
<1>3. CASE rows' = << >> /\ UNCHANGED <<cur, json>>
  <2>1. Shape'
    BY <1>1, <1>3 DEF Order, Shape
  <2> QED
    BY <1>1, <1>3, <2>1 DEF Order, FileOrder, RowsMirrorJson, MemoryMatchesFile
<1> QED
  BY <1>2, <1>3 DEF OpenOther

\* Every step keeps the order.
LEMMA NextOrder == Order /\ [Next]_vars => Order'
<1> SUFFICES ASSUME Order, [Next]_vars
             PROVE  Order'
  OBVIOUS
<1>1. CASE FlushTimer \/ SetGroup \/ Delete \/ DeleteFails \/ Undo
  BY <1>1, FlushTimerOrder, SetGroupOrder, DeleteOrder, DeleteFailsOrder, UndoOrder
<1>2. CASE Edit \/ Move \/ MoveHalf \/ Lock \/ Unlock \/ Switch \/ OpenOther
  BY <1>2, EditOrder, MoveOrder, MoveHalfOrder, LockOrder, UnlockOrder, SwitchOrder,
     OpenOtherOrder
<1>3. ASSUME NEW i \in 1..MaxLen, Activate(i) PROVE Order'
  BY <1>3, ActivateOrder
<1>4. ASSUME NEW i \in 1..MaxLen, AskDelete(i) \/ AskEdit(i) \/ AskMove(i) PROVE Order'
  BY <1>4, DialogOrder
<1>5. ASSUME NEW i \in 1..MaxLen, NEW j \in 1..MaxLen, Drop(i, j) PROVE Order'
  BY <1>5, DropOrder
<1>6. CASE Cancel \/ ToastGone
  <2>1. Shape'
    BY <1>6 DEF Cancel, ToastGone, Order, Shape, None, history
  <2> QED
    BY <1>6, <2>1, StillOrder DEF Cancel, ToastGone, history
<1>7. CASE UNCHANGED vars
  BY <1>7 DEF vars, history, Order, Shape, FileOrder, RowsMirrorJson, MemoryMatchesFile
<1> QED
  BY <1>1, <1>2, <1>3, <1>4, <1>5, <1>6, <1>7 DEF Next

\* The order is an invariant of the window.
THEOREM Ordered == Spec => []Order
  BY InitOrder, NextOrder, PTL DEF Spec

-----------------------------------------------------------------------------
(* The properties of the runs.                                             *)

\* "The store position equals the JSON index", for every number of tokens, whatever
\* fails, but for a drop or a move that could not save.
THEOREM RowsOrder == Spec => []RowsMirrorJson
<1>1. Order => RowsMirrorJson
  BY DEF Order
<1> QED
  BY <1>1, Ordered, PTL

\* A failed save undoes its edit: memory that owes no counters is the file.
THEOREM Memory == Spec => []MemoryMatchesFile
<1>1. Order => MemoryMatchesFile
  BY DEF Order
<1> QED
  BY <1>1, Ordered, PTL

-----------------------------------------------------------------------------
(* The values the variables take.                                          *)

\* What a dialog holds; a deletion that lost its selection holds position 0.
Dialogs ==
  {None} \cup [kind : {"delete"}, pos : Nat]
         \cup [kind : {"edit", "move"}, pos : Nat, token : Token]

Flags ==
  /\ open \in BOOLEAN /\ dirty \in BOOLEAN /\ timer \in BOOLEAN
  /\ excused \in BOOLEAN /\ askew \in BOOLEAN

\* Files and memory respect the bound, a move waits only for a target with room, and a
\* deletion only for a row that is there.
Ranges ==
  /\ \A d \in Dbs : Len(files[d]) <= MaxLen
  /\ Len(json) <= MaxLen
  /\ undo \in {NoUndo} \cup [token : Token, pos : 1..MaxLen]
  /\ toasts \in 0..MaxToasts
  /\ dialog \in Dialogs
  /\ dialog.kind = "delete" /\ dialog.pos # 0 => open /\ dialog.pos \in DOMAIN rows
  /\ dialog.kind = "move" => Len(files[Other]) < MaxLen
  /\ used \in [Hotp -> 0..MaxCounter] /\ deleted \subseteq Tokens

\* Every bound is a number.
LEMMA Bounds == MaxLen \in Nat /\ MaxCounter \in Nat /\ MaxToasts \in Nat
  BY BoundAssumption

\* A flag is set, cleared, or kept.
LEMMA NextFlags == Flags /\ [Next]_vars => Flags'
<1> SUFFICES ASSUME Flags, [Next]_vars PROVE Flags'
  OBVIOUS
<1>s. ASSUME NEW j, Saved(j) \/ SaveFails(j) PROVE excused' \in BOOLEAN
  <2>1. excused' \in {excused, excused \/ dirty}
    BY <1>s, Zenon DEF Saved, SaveFails
  <2> QED
    BY <2>1, Zenon DEF Flags
<1>o. ASSUME NEW o \in FlushOutcomes PROVE o.dirty \in BOOLEAN /\ o.excused \in BOOLEAN
  <2>1. o.dirty = FALSE \/ o.dirty = TRUE \/ o.dirty = dirty
    BY <1>o DEF FlushOutcomes
  <2>2. o.excused = excused \/ o.excused = TRUE
    BY <1>o DEF FlushOutcomes
  <2> QED
    BY <2>1, <2>2 DEF Flags
<1>e. (excused \/ dirty) \in BOOLEAN
  BY Zenon DEF Flags
<1>1. CASE FlushTimer \/ Lock \/ Switch
  BY <1>1, <1>o DEF FlushTimer, Lock, Switch, Forgotten, Flags
<1>2. CASE SetGroup \/ Delete \/ DeleteFails \/ Edit
  BY <1>2, <1>s DEF SetGroup, Delete, DeleteFails, Edit, Flags
<1>3. CASE Undo
  <2>1. excused' \in BOOLEAN
    BY <1>3, <1>s DEF Undo, Flags
  <2> QED
    BY <1>3, <2>1 DEF Undo, Flags
<1>4. CASE Cancel \/ ToastGone \/ Move \/ Unlock
  BY <1>4 DEF Cancel, ToastGone, Move, Unlock, Flags, history
<1>5. CASE MoveHalf \/ OpenOther
  <2>1. excused' \in {excused, excused \/ dirty}
    BY <1>5, Zenon DEF MoveHalf, OpenOther
  <2>2. excused' \in BOOLEAN
    BY <1>e, <2>1 DEF Flags
  <2> QED
    BY <1>5, <2>2 DEF MoveHalf, OpenOther, Flags
<1>6. ASSUME NEW i \in 1..MaxLen, Activate(i) \/ AskDelete(i) \/ AskEdit(i) \/ AskMove(i)
      PROVE  Flags'
  BY <1>6 DEF Activate, AskDelete, AskEdit, AskMove, Flags, history
<1>7. ASSUME NEW i \in 1..MaxLen, NEW j \in 1..MaxLen, Drop(i, j) PROVE Flags'
  <2>1. excused' \in BOOLEAN
    BY <1>7, <1>s DEF Drop
  <2>2. askew' \in BOOLEAN
    BY <1>7 DEF Drop, Flags
  <2> QED
    BY <1>7, <2>1, <2>2 DEF Drop, Flags
<1>8. CASE UNCHANGED vars
  BY <1>8 DEF vars, history, Flags
<1> QED
  BY <1>1, <1>2, <1>3, <1>4, <1>5, <1>6, <1>7, <1>8 DEF Next

\* Moving an element keeps the length of a sequence.
LEMMA MovedLen ==
  ASSUME NEW S, NEW s \in Seq(S), NEW i \in DOMAIN s, NEW j \in DOMAIN s
  PROVE  Len(Moved(s, i, j)) = Len(s)
<1>1. RemoveAt(s, i) \in Seq(S) /\ Len(RemoveAt(s, i)) = Len(s) - 1
  BY RemoveAtSeq
<1>2. s[i] \in S /\ j \in 1..(Len(RemoveAt(s, i)) + 1) /\ Len(s) \in Nat
  BY <1>1
<1>3. Inserted(Moved(s, i, j), RemoveAt(s, i), j, s[i])
  BY <1>1, <1>2, InsertAtSeq DEF Moved
<1> QED
  BY <1>1, <1>2, <1>3 DEF Inserted

\* What fits: every array is one of a bounded length.
Fits(s) == s \in Seq(Token) /\ Len(s) <= MaxLen
AllFit == (\A d \in Dbs : Fits(files[d])) /\ Fits(json)

\* The three ways out of a flush.
LEMMA FlushWays ==
  ASSUME NEW o \in FlushOutcomes
  PROVE  \/ /\ dirty /\ open
            /\ o.files = [files EXCEPT ![cur] = json] /\ o.json = json
            /\ o.dirty = FALSE /\ o.excused = excused
         \/ /\ dirty /\ open
            /\ o.files = files /\ o.json = files[cur] /\ o.dirty = TRUE /\ o.excused = TRUE
         \/ /\ ~(dirty /\ open)
            /\ o.files = files /\ o.json = json /\ o.dirty = dirty /\ o.excused = excused
  BY DEF FlushOutcomes

\* A flush leaves arrays that fit, and the other files alone.
LEMMA FlushFits ==
  ASSUME Shape, AllFit, NEW o \in FlushOutcomes
  PROVE  /\ \A d \in Dbs : Fits(o.files[d])
         /\ Fits(o.json)
         /\ \A d \in Dbs \ {cur} : o.files[d] = files[d]
<1>1. \/ o.files = files
      \/ o.files = [files EXCEPT ![cur] = json]
  BY FlushWays
<1>2. o.json = json \/ o.json = files[cur]
  BY FlushWays
<1> QED
  BY <1>1, <1>2 DEF Shape, AllFit

\* So does a save of an array that fits.
LEMMA SaveFits ==
  ASSUME Shape, AllFit, NEW j, Fits(j), Saved(j) \/ SaveFails(j), cur' = cur
  PROVE  /\ AllFit' /\ \A d \in Dbs \ {cur} : files'[d] = files[d]
<1>1. files' = files \/ files' = [files EXCEPT ![cur] = j]
  BY DEF Saved, SaveFails
<1>2. json' = j \/ json' = files[cur]
  BY DEF Saved, SaveFails
<1> QED
  BY <1>1, <1>2 DEF Shape, AllFit, Fits

\* A step that ends with no dialog up, or with the one that was.
LEMMA RangesStep ==
  ASSUME Shape, Ranges, AllFit',
         undo' \in {undo, NoUndo} \cup [token : Token, pos : 1..MaxLen],
         toasts' \in 0..MaxToasts,
         \/ dialog' = None
         \/ /\ UNCHANGED <<cur, dialog, rows, open>>
            /\ \A d \in Dbs \ {cur} : files'[d] = files[d],
         used' \in [Hotp -> 0..MaxCounter], deleted' \subseteq Tokens
  PROVE  Ranges'
<1>1. dialog' \in Dialogs
  BY DEF Ranges, Dialogs
<1>2. dialog'.kind = "move" => Len(files'[Other']) < MaxLen
  <2> SUFFICES ASSUME dialog'.kind = "move" PROVE Len(files'[Other']) < MaxLen
    OBVIOUS
  <2>1. UNCHANGED <<cur, dialog, rows, open>> /\ \A d \in Dbs \ {cur} : files'[d] = files[d]
    BY DEF None
  <2>2. Other' = Other /\ Other \in Dbs /\ Other # cur
    BY <2>1, OtherDb DEF Other, Shape
  <2>3. Len(files[Other]) < MaxLen
    BY <2>1 DEF Ranges
  <2> QED
    BY <2>1, <2>2, <2>3
<1>3. dialog'.kind = "delete" /\ dialog'.pos # 0 => open' /\ dialog'.pos \in DOMAIN rows'
  BY DEF Ranges, None
<1>4. undo' \in {NoUndo} \cup [token : Token, pos : 1..MaxLen]
  BY DEF Ranges
<1> QED
  BY <1>1, <1>2, <1>3, <1>4 DEF Ranges, AllFit, Fits

\* Every step keeps the ranges.
LEMMA NextRanges == Order /\ Ranges /\ [Next]_vars => Ranges'
<1> SUFFICES ASSUME Order, Ranges, [Next]_vars PROVE Ranges'
  OBVIOUS
<1>a. /\ Shape /\ AllFit /\ MaxLen \in Nat /\ MaxToasts \in Nat /\ MaxCounter \in Nat
      /\ cur \in Dbs /\ Other \in Dbs /\ Other # cur
  BY Bounds, OtherDb DEF Order, Shape, Ranges, AllFit, Fits
<1>b. /\ undo \in {NoUndo} \cup [token : Token, pos : 1..MaxLen] /\ toasts \in 0..MaxToasts
      /\ used \in [Hotp -> 0..MaxCounter] /\ deleted \subseteq Tokens /\ dialog \in Dialogs
  BY DEF Ranges
<1>c. json \in Seq(Token) /\ Len(json) <= MaxLen /\ Len(json) \in Nat /\ DOMAIN json = 1..Len(json)
      /\ rows \in Seq(Token) /\ DOMAIN rows = 1..Len(rows)
  BY <1>a DEF Shape, AllFit, Fits
<1>1. CASE FlushTimer
  <2>1. PICK o \in FlushOutcomes : files' = o.files /\ json' = o.json
    BY <1>1 DEF FlushTimer
  <2>2. AllFit' /\ \A d \in Dbs \ {cur} : files'[d] = files[d]
    BY <1>a, <2>1, FlushFits DEF AllFit
  <2> QED
    BY <1>1, <1>a, <1>b, <2>2, RangesStep DEF FlushTimer
<1>2. CASE SetGroup
  <2>1. AllFit' /\ \A d \in Dbs \ {cur} : files'[d] = files[d]
    BY <1>2, <1>a, SaveFits DEF SetGroup, AllFit
  <2> QED
    BY <1>2, <1>a, <1>b, <2>1, RangesStep DEF SetGroup, Idle
<1>3. CASE Cancel \/ ToastGone
  <2>1. AllFit' /\ toasts' \in 0..MaxToasts
    BY <1>3, <1>a, <1>b DEF Cancel, ToastGone, AllFit
  <2> QED
    BY <1>3, <1>a, <1>b, <2>1, RangesStep DEF Cancel, ToastGone, history
<1>4. CASE Delete
  <2> DEFINE p == dialog.pos
  <2>1. p \in DOMAIN json /\ dialog.kind = "delete"
    BY <1>4 DEF Delete
  <2>2. p \in 1..MaxLen /\ json[p] \in Token
    BY <1>a, <1>c, <2>1
  <2>3. rows[p].id \in Tokens
    <3>1. p # 0
      BY <1>c, <2>1
    <3>2. p \in DOMAIN rows
      BY <2>1, <3>1 DEF Ranges
    <3>3. rows[p] \in Token
      BY <1>c, <3>2
    <3> QED
      BY <3>3 DEF Token
  <2>4. Fits(RemoveAt(json, p))
    BY <1>a, <1>c, <2>1, RemoveAtSeq DEF Fits
  <2>5. AllFit'
    BY <1>4, <1>a, <2>4, SaveFits DEF Delete
  <2>6. undo' \in [token : Token, pos : 1..MaxLen]
    BY <1>4, <2>2 DEF Delete
  <2>7. toasts' \in 0..MaxToasts /\ deleted' \subseteq Tokens
    BY <1>4, <1>a, <1>b, <2>3 DEF Delete
  <2> QED
    BY <1>4, <1>a, <1>b, <2>5, <2>6, <2>7, RangesStep DEF Delete
<1>5. CASE DeleteFails
  <2>1. Fits(RemoveAt(json, dialog.pos))
    BY <1>5, <1>a, <1>c, RemoveAtSeq DEF Fits, DeleteFails
  <2>2. AllFit'
    BY <1>5, <1>a, <2>1, SaveFits DEF DeleteFails
  <2> QED
    BY <1>5, <1>a, <1>b, <2>2, RangesStep DEF DeleteFails
<1>6. CASE Undo
  <2>1. toasts' \in 0..MaxToasts /\ dialog' = None
    <3>1. toasts > 0 /\ toasts' = toasts - 1 /\ dialog' = dialog /\ dialog = None
      BY <1>6 DEF Undo
    <3> QED
      BY <1>a, <1>b, <3>1
  <2>2. undo' \in {undo, NoUndo}
    BY <1>6 DEF Undo
  <2>3. AllFit'
    <3>1. CASE UNCHANGED <<json, files>>
      BY <1>a, <3>1 DEF AllFit
    <3>2. CASE undo # NoUndo /\ Len(json) < MaxLen
      <4> DEFINE at == IF undo.pos <= Len(json) + 1 THEN undo.pos ELSE Len(json) + 1
                 j == InsertAt(json, at, undo.token)
      <4>1. undo.token \in Token /\ undo.pos \in 1..MaxLen
        BY <1>b, <3>2
      <4>2. at \in 1..(Len(json) + 1)
        BY <1>c, <4>1
      <4> HIDE DEF at
      <4>3. j \in Seq(Token) /\ Len(j) = Len(json) + 1
        BY <1>c, <4>1, <4>2, InsertAtSeq DEF Inserted
      <4>4. Fits(j)
        BY <1>a, <1>c, <3>2, <4>3 DEF Fits
      <4>5. Saved(j) \/ SaveFails(j) \/ UNCHANGED <<json, files>>
        BY <1>6 DEF Undo, at
      <4> HIDE DEF j
      <4> QED
        BY <1>6, <1>a, <3>1, <4>4, <4>5, SaveFits DEF Undo
    <3> QED
      BY <1>6, <3>1, <3>2 DEF Undo
  <2> QED
    BY <1>6, <1>a, <1>b, <2>1, <2>2, <2>3, RangesStep DEF Undo
<1>7. CASE Edit
  <2>1. AllFit'
    BY <1>7, <1>a, SaveFits DEF Edit, AllFit
  <2> QED
    BY <1>7, <1>a, <1>b, <2>1, RangesStep DEF Edit
\* The target of a move has room for one token.
<1>t. ASSUME dialog.kind = "move"
      PROVE  Fits(Append(files[Other], dialog.token))
  <2>1. dialog.token \in Token /\ Len(files[Other]) < MaxLen /\ files[Other] \in Seq(Token)
    BY <1>a, <1>t DEF Shape, Ranges
  <2> QED
    BY <1>a, <2>1 DEF Fits
<1>8. CASE Move
  <2>1. Fits(Without(dialog.pos))
    <3>1. CASE dialog.pos \in DOMAIN json
      <4>1. /\ RemoveAt(json, dialog.pos) \in Seq(Token)
            /\ Len(RemoveAt(json, dialog.pos)) = Len(json) - 1
        BY <1>c, <3>1, RemoveAtSeq
      <4> QED
        BY <1>a, <1>c, <3>1, <4>1 DEF Without, Fits
    <3> QED
      BY <1>c, <3>1 DEF Without, Fits
  <2>2. Fits(Append(files[Other], dialog.token))
    BY <1>8, <1>t DEF Move
  <2>3. /\ files' = [files EXCEPT ![Other] = Append(files[Other], dialog.token), ![cur] = Without(dialog.pos)]
        /\ json' = Without(dialog.pos)
    BY <1>8 DEF Move
  <2>4. AllFit'
    BY <1>a, <2>1, <2>2, <2>3 DEF AllFit, Shape
  <2> QED
    BY <1>8, <1>a, <1>b, <2>4, RangesStep DEF Move, history
<1>9. CASE MoveHalf
  <2> DEFINE back == files[cur]
             new == Append(files[Other], dialog.token)
  <2>1. Fits(new)
    BY <1>9, <1>t DEF MoveHalf
  <2>2. back \in Seq(Token) /\ Len(back) < MaxLen /\ Len(back) \in Nat
    BY <1>9, <1>a DEF MoveHalf, Shape
  <2>3. /\ files' = [files EXCEPT ![Other] = new]
        /\ json' = IF dialog.pos \in DOMAIN json /\ dialog.pos <= Len(back) + 1
                   THEN InsertAt(back, dialog.pos, json[dialog.pos])
                   ELSE back
    BY <1>9 DEF MoveHalf
  <2> HIDE DEF back, new
  <2>4. Fits(json')
    <3>1. CASE dialog.pos \in DOMAIN json /\ dialog.pos <= Len(back) + 1
      <4>1. json[dialog.pos] \in Token /\ dialog.pos \in 1..(Len(back) + 1)
        BY <1>c, <2>2, <3>1
      <4>2. /\ InsertAt(back, dialog.pos, json[dialog.pos]) \in Seq(Token)
            /\ Len(InsertAt(back, dialog.pos, json[dialog.pos])) = Len(back) + 1
        BY <2>2, <4>1, InsertAtSeq DEF Inserted
      <4> QED
        BY <1>a, <2>2, <2>3, <3>1, <4>2 DEF Fits
    <3>2. CASE ~(dialog.pos \in DOMAIN json /\ dialog.pos <= Len(back) + 1)
      BY <1>a, <2>2, <2>3, <3>2 DEF Fits
    <3> QED
      BY <3>1, <3>2
  <2>5. AllFit'
    BY <1>a, <2>1, <2>3, <2>4 DEF AllFit, Shape
  <2> QED
    BY <1>9, <1>a, <1>b, <2>5, RangesStep DEF MoveHalf
<1>e. Fits(<< >>)
  BY <1>a DEF Fits
<1>10. CASE Lock
  <2>1. PICK o \in FlushOutcomes : files' = o.files
    BY <1>10 DEF Lock
  <2>2. AllFit' /\ \A d \in Dbs \ {cur} : files'[d] = files[d]
    BY <1>10, <1>a, <1>e, <2>1, FlushFits DEF AllFit, Lock, Forgotten
  <2>3. /\ cur' = cur /\ Other' = Other /\ undo' = NoUndo
        /\ UNCHANGED <<toasts, used, deleted>> /\ dialog' = Deselected
    BY <1>10 DEF Lock, Forgotten, Other
  <2>4. CASE dialog.kind = "delete"
    <3>1. dialog \in [kind : {"delete"}, pos : Nat]
      BY <1>b, <2>4 DEF Dialogs, None
    <3>2. dialog' = [dialog EXCEPT !.pos = 0]
      BY <2>3, <2>4 DEF Deselected
    <3>3. dialog' \in Dialogs /\ dialog'.kind = "delete" /\ dialog'.pos = 0
      BY <3>1, <3>2 DEF Dialogs
    <3> QED
      BY <1>b, <2>2, <2>3, <3>3 DEF Ranges, AllFit, Fits
  <2>5. CASE dialog.kind # "delete"
    <3>1. dialog' = dialog
      BY <2>3, <2>5 DEF Deselected
    <3>2. dialog.kind = "move" => Len(files'[Other']) < MaxLen
      BY <1>a, <2>2, <2>3 DEF Ranges
    <3> QED
      BY <1>b, <2>2, <2>3, <2>5, <3>1, <3>2 DEF Ranges, AllFit, Fits
  <2> QED
    BY <2>4, <2>5
<1>11. CASE Unlock
  <2>1. UNCHANGED <<files, cur, undo, toasts, dialog, used, deleted>> /\ json' = files[cur] /\ ~open
    BY <1>11 DEF Unlock, history
  <2>2. AllFit' /\ Other' = Other
    BY <1>a, <2>1 DEF AllFit, Other
  <2>3. ~(dialog.kind = "delete" /\ dialog.pos # 0)
    BY <2>1 DEF Ranges
  <2> QED
    BY <2>1, <2>2, <2>3 DEF Ranges, AllFit, Fits
<1>12. CASE Switch
  <2>1. PICK o \in FlushOutcomes : files' = o.files
    BY <1>12 DEF Switch
  <2>2. AllFit'
    BY <1>12, <1>a, <1>e, <2>1, FlushFits DEF AllFit, Switch
  <2> QED
    BY <1>12, <1>a, <1>b, <2>2, RangesStep DEF Switch
<1>13. CASE OpenOther
  <2>1. AllFit'
    BY <1>13, <1>a DEF AllFit, OpenOther
  <2> QED
    BY <1>13, <1>a, <1>b, <2>1, RangesStep DEF OpenOther, Idle
<1>14. ASSUME NEW i \in 1..MaxLen, Activate(i) PROVE Ranges'
  <2>1. /\ i \in DOMAIN rows /\ rows[i].ctr < MaxCounter /\ rows[i].id \in Hotp
        /\ json' = json \/ (i \in DOMAIN json /\ json' = [json EXCEPT ![i].ctr = rows[i].ctr + 1])
        /\ used' = [used EXCEPT ![rows[i].id] = IF @ > rows[i].ctr THEN @ ELSE rows[i].ctr + 1]
        /\ UNCHANGED <<files, cur, open, undo, toasts, dialog, deleted>> /\ dialog = None
    BY <1>14 DEF Activate, Idle
  <2>2. rows[i] \in Token
    BY <1>c, <2>1
  <2>3. rows[i].ctr + 1 \in 0..MaxCounter
    BY <1>a, <2>1, <2>2 DEF Token
  <2>4. Fits(json')
    <3>1. CASE i \in DOMAIN json /\ json' = [json EXCEPT ![i].ctr = rows[i].ctr + 1]
      <4>1. json' \in Seq(Token) /\ Len(json') = Len(json)
        BY <1>c, <2>3, <3>1, CounterSet DEF SameIds
      <4> QED
        BY <1>c, <4>1 DEF Fits
    <3> QED
      BY <1>c, <2>1, <3>1 DEF Fits
  <2>5. AllFit'
    BY <1>a, <2>1, <2>4 DEF AllFit
  <2>6. used' \in [Hotp -> 0..MaxCounter]
    BY <1>b, <2>1, <2>3
  <2> QED
    BY <1>a, <1>b, <2>1, <2>5, <2>6, RangesStep
<1>15. ASSUME NEW i \in 1..MaxLen, AskDelete(i) \/ AskEdit(i) \/ AskMove(i) PROVE Ranges'
  <2>1. UNCHANGED <<files, cur, open, json, rows, undo, toasts, used, deleted>> /\ open /\ i \in DOMAIN rows
    BY <1>15 DEF AskDelete, AskEdit, AskMove, Idle, history
  <2>2. /\ dialog' \in Dialogs
        /\ dialog'.kind = "delete" => dialog'.pos = i
        /\ dialog'.kind = "move" => Len(files[Other]) < MaxLen
    <3>1. i \in Nat
      BY <1>a
    <3>2. CASE AskDelete(i)
      BY <3>1, <3>2 DEF AskDelete, Dialogs
    <3>3. CASE AskEdit(i) \/ AskMove(i)
      <4>1. json[i] \in Token
        BY <1>c, <3>3 DEF AskEdit, AskMove
      <4> QED
        BY <3>1, <3>3, <4>1 DEF AskEdit, AskMove, Dialogs
    <3> QED
      BY <1>15, <3>2, <3>3
  <2>3. Other' = Other
    BY <2>1 DEF Other
  <2> QED
    BY <2>1, <2>2, <2>3 DEF Ranges
<1>16. ASSUME NEW i \in 1..MaxLen, NEW j \in 1..MaxLen, Drop(i, j) PROVE Ranges'
  <2> DEFINE new == Reordered(i, j)
  <2>1. Fits(new)
    <3>1. new \in Seq(Token)
      BY <1>c, ReorderedSeq
    <3>2. CASE i \notin DOMAIN json
      BY <1>c, <3>2 DEF Fits, Reordered
    <3>3. CASE i \in DOMAIN json /\ j \in DOMAIN json
      BY <1>c, <3>1, <3>3, MovedLen DEF Fits, Reordered
    <3>4. CASE i \in DOMAIN json /\ j \notin DOMAIN json
      <4>1. Len(RemoveAt(json, i)) = Len(json) - 1
        BY <1>c, <3>4, RemoveAtSeq
      <4>2. new = RemoveAt(json, i)
        BY <3>4 DEF Reordered
      <4> QED
        BY <1>a, <1>c, <3>1, <4>1, <4>2 DEF Fits
    <3> QED
      BY <3>2, <3>3, <3>4
  <2>2. /\ Saved(new) \/ SaveFails(new)
        /\ UNCHANGED <<cur, undo, toasts, dialog, used, deleted>> /\ dialog = None
    BY <1>16 DEF Drop, Idle
  <2> HIDE DEF new
  <2>3. AllFit'
    BY <1>a, <2>1, <2>2, SaveFits
  <2> QED
    BY <1>a, <1>b, <2>2, <2>3, RangesStep
<1>17. CASE UNCHANGED vars
  BY <1>17 DEF vars, history, Ranges, Other
<1> QED
  BY <1>1, <1>2, <1>3, <1>4, <1>5, <1>6, <1>7, <1>8, <1>9, <1>10, <1>11, <1>12, <1>13, <1>14,
     <1>15, <1>16, <1>17 DEF Next

\* The ranges are an invariant of the window, also after a drop or a move that could not
\* save.
LEMMA Ranged == Spec => [](Ranges /\ Flags)
<1>1. Init => Ranges /\ Flags
  <2> SUFFICES ASSUME Init PROVE Ranges /\ Flags
    OBVIOUS
  <2>1. \A d \in Dbs : Len(files[d]) <= MaxLen
    <3>1. PICK s \in [Dbs -> UNION {[1..n -> [id : Tokens, ctr : {0}]] : n \in 0..MaxLen}] :
            files = s
      BY DEF Init
    <3> TAKE d \in Dbs
    <3>2. PICK n \in 0..MaxLen : files[d] \in [1..n -> [id : Tokens, ctr : {0}]]
      BY <3>1
    <3>3. Len(files[d]) = n
      BY <3>2, Bounds
    <3> QED
      BY <3>3, Bounds
  <2>2. Len(json) = 0
    BY DEF Init
  <2>3. \A t \in Hotp : 0 \in 0..MaxCounter
    BY Bounds
  <2>4. Flags
    BY DEF Init, Flags
  <2>5. /\ undo = NoUndo /\ toasts = 0 /\ dialog = None /\ deleted = {}
        /\ used = [t \in Hotp |-> 0]
    BY DEF Init
  <2>6. used \in [Hotp -> 0..MaxCounter]
    BY <2>3, <2>5
  <2>7. dialog \in Dialogs /\ dialog.kind = "none" /\ toasts \in 0..MaxToasts
    BY <2>5, Bounds DEF Dialogs, None
  <2>8. Ranges
    BY <2>1, <2>2, <2>5, <2>6, <2>7, Bounds DEF Ranges
  <2> QED
    BY <2>4, <2>8
<1> QED
  BY <1>1, Ordered, NextRanges, NextFlags, PTL DEF Spec

\* The values the variables take.
THEOREM Typing == Spec => []TypeOK
<1>1. Order /\ Ranges /\ Flags => TypeOK
  BY DEF Order, Shape, Ranges, Flags, Dialogs, None, TypeOK
<1> QED
  BY <1>1, Ordered, Ranged, PTL

-----------------------------------------------------------------------------
(* Where the tokens are.                                                   *)

\* No token is listed twice in s.
OwnIds(s) == \A i, j \in DOMAIN s : s[i].id = s[j].id => i = j

\* The tokens are apart: no file lists a token twice or one of another file, nor the one
\* that an undo would bring back.
Apart ==
  /\ \A d \in Dbs : OwnIds(files[d])
  /\ \A d, e \in Dbs : d # e => Ids(files[d]) \cap Ids(files[e]) = {}
  /\ undo # NoUndo => \A d \in Dbs : undo.token.id \notin Ids(files[d])

\* A dialog holds the token that the file has at its position.
Captured ==
  dialog.kind \in {"edit", "move"} =>
    dialog.pos \in DOMAIN files[cur] /\ files[cur][dialog.pos].id = dialog.token.id

Kept == \A t \in Tokens \ deleted : \E d \in Dbs : t \in Ids(files[d])

Places == ~askew => Apart /\ Captured /\ Kept

\* The same tokens in the same order.
LEMMA IdsSame ==
  ASSUME NEW S, NEW s \in Seq(S), NEW t \in Seq(S), SameIds(s, t)
  PROVE  Ids(s) = Ids(t) /\ (OwnIds(t) => OwnIds(s)) /\ DOMAIN s = DOMAIN t
<1>1. DOMAIN s = DOMAIN t
  BY DEF SameIds
<1> QED
  BY <1>1 DEF SameIds, Ids, OwnIds

\* Removing a token that is listed once.
LEMMA IdsRemoved ==
  ASSUME NEW S, NEW s \in Seq(S), NEW i \in DOMAIN s, OwnIds(s)
  PROVE  OwnIds(RemoveAt(s, i)) /\ Ids(RemoveAt(s, i)) = Ids(s) \ {s[i].id}
<1> DEFINE r == RemoveAt(s, i)
<1>1. /\ r \in Seq(S) /\ Len(r) = Len(s) - 1
      /\ \A k \in 1..(Len(s) - 1) : r[k] = IF k < i THEN s[k] ELSE s[k + 1]
  BY RemoveAtSeq
<1>2. /\ \A j \in DOMAIN s \ {i} : \E k \in DOMAIN r : r[k] = s[j]
      /\ \A k \in DOMAIN r : \E j \in DOMAIN s \ {i} : r[k] = s[j]
  BY RemoveAtKeeps
<1> HIDE DEF r
<1>3. DOMAIN s = 1..Len(s) /\ Len(s) \in Nat /\ DOMAIN r = 1..(Len(s) - 1) /\ i \in 1..Len(s)
  BY <1>1
<1>4. OwnIds(r)
  <2> SUFFICES ASSUME NEW k \in DOMAIN r, NEW l \in DOMAIN r, r[k].id = r[l].id PROVE k = l
    BY DEF OwnIds
  <2> DEFINE at(n) == IF n < i THEN n ELSE n + 1
  <2>1. r[k] = s[at(k)] /\ r[l] = s[at(l)]
    BY <1>1, <1>3
  <2>2. at(k) \in DOMAIN s /\ at(l) \in DOMAIN s
    BY <1>3
  <2>3. at(k) = at(l)
    BY <2>1, <2>2 DEF OwnIds
  <2> QED
    BY <1>3, <2>3
<1>5. Ids(r) = Ids(s) \ {s[i].id}
  <2>1. \A k \in DOMAIN r : r[k].id \in Ids(s) \ {s[i].id}
    BY <1>2 DEF Ids, OwnIds
  <2>2. \A j \in DOMAIN s : s[j].id # s[i].id => s[j].id \in Ids(r)
    BY <1>2 DEF Ids
  <2> QED
    BY <2>1, <2>2 DEF Ids
<1> QED
  BY <1>4, <1>5 DEF r

\* Inserting one that is not listed.
LEMMA IdsInserted ==
  ASSUME NEW S, NEW s \in Seq(S), NEW e \in S, NEW i \in 1..(Len(s) + 1),
         NEW r \in Seq(S), Inserted(r, s, i, e)
  PROVE  /\ Ids(r) = Ids(s) \cup {e.id}
         /\ OwnIds(s) /\ e.id \notin Ids(s) => OwnIds(r)
<1>1. /\ Len(r) = Len(s) + 1
      /\ \A k \in 1..(Len(s) + 1) :
           r[k] = IF k < i THEN s[k] ELSE IF k = i THEN e ELSE s[k - 1]
  BY DEF Inserted
<1>2. DOMAIN s = 1..Len(s) /\ Len(s) \in Nat /\ DOMAIN r = 1..(Len(s) + 1) /\ i \in DOMAIN r
  BY <1>1
<1> DEFINE at(k) == IF k < i THEN k ELSE k - 1
<1>3. \A k \in DOMAIN r \ {i} : at(k) \in DOMAIN s /\ r[k] = s[at(k)]
  BY <1>1, <1>2
<1>4. r[i] = e
  BY <1>1, <1>2
<1>5. \A j \in DOMAIN s : \E k \in DOMAIN r : r[k] = s[j]
  <2> TAKE j \in DOMAIN s
  <2>1. CASE j < i
    BY <1>1, <1>2, <2>1
  <2>2. CASE ~(j < i)
    <3>1. j + 1 \in 1..(Len(s) + 1) /\ ~(j + 1 < i) /\ j + 1 # i /\ (j + 1) - 1 = j
      BY <1>2, <2>2
    <3>2. r[j + 1] = s[j]
      BY <1>1, <3>1
    <3> QED
      BY <1>2, <3>1, <3>2
  <2> QED
    BY <2>1, <2>2
<1>6. Ids(r) = Ids(s) \cup {e.id}
  <2>1. \A k \in DOMAIN r : r[k].id \in Ids(s) \cup {e.id}
    BY <1>3, <1>4 DEF Ids
  <2>2. \A j \in DOMAIN s : s[j].id \in Ids(r)
    BY <1>5 DEF Ids
  <2>3. e.id \in Ids(r)
    BY <1>2, <1>4 DEF Ids
  <2> QED
    BY <2>1, <2>2, <2>3 DEF Ids
<1>7. ASSUME OwnIds(s), e.id \notin Ids(s), NEW k \in DOMAIN r, NEW l \in DOMAIN r, r[k].id = r[l].id
      PROVE  k = l
  <2>1. \A j \in DOMAIN s : s[j].id # e.id
    BY <1>7 DEF Ids
  <2>2. k = i <=> l = i
    BY <1>3, <1>4, <1>7, <2>1
  <2>3. ASSUME k # i, l # i PROVE k = l
    <3>1. at(k) = at(l)
      BY <1>3, <1>7, <2>3 DEF OwnIds
    <3> QED
      BY <1>2, <2>3, <3>1
  <2> QED
    BY <2>2, <2>3
<1> QED
  BY <1>6, <1>7 DEF OwnIds

\* A move inside a sequence.
LEMMA IdsMoved ==
  ASSUME NEW S, NEW s \in Seq(S), NEW i \in DOMAIN s, NEW j \in DOMAIN s, OwnIds(s)
  PROVE  OwnIds(Moved(s, i, j)) /\ Ids(Moved(s, i, j)) = Ids(s)
<1> DEFINE r == RemoveAt(s, i)
<1>1. r \in Seq(S) /\ Len(r) = Len(s) - 1 /\ OwnIds(r) /\ Ids(r) = Ids(s) \ {s[i].id}
  BY RemoveAtSeq, IdsRemoved
<1>2. s[i] \in S /\ j \in 1..(Len(r) + 1) /\ s[i].id \in Ids(s)
  BY <1>1 DEF Ids
<1> HIDE DEF r
<1>3. InsertAt(r, j, s[i]) \in Seq(S) /\ Inserted(InsertAt(r, j, s[i]), r, j, s[i])
  BY <1>1, <1>2, InsertAtSeq
<1>4. /\ Ids(InsertAt(r, j, s[i])) = Ids(r) \cup {s[i].id}
      /\ OwnIds(InsertAt(r, j, s[i]))
  BY <1>1, <1>2, <1>3, IdsInserted
<1> QED
  BY <1>1, <1>2, <1>4 DEF Moved, r

\* Appending is inserting at the end.
LEMMA AppendInserts ==
  ASSUME NEW S, NEW s \in Seq(S), NEW e \in S
  PROVE  Append(s, e) \in Seq(S) /\ Inserted(Append(s, e), s, Len(s) + 1, e)
                                /\ Len(s) + 1 \in 1..(Len(s) + 1)
  BY DEF Inserted

\* While nothing is askew, the open array lists the file's tokens, each once.
LEMMA MemoryIds ==
  ASSUME Order, Apart, open, ~askew
  PROVE  /\ SameIds(json, files[cur]) /\ json \in Seq(Token) /\ files[cur] \in Seq(Token)
         /\ OwnIds(json) /\ Ids(json) = Ids(files[cur]) /\ DOMAIN json = DOMAIN files[cur]
<1>1. /\ SameIds(json, files[cur]) /\ json \in Seq(Token) /\ files[cur] \in Seq(Token)
      /\ OwnIds(files[cur])
  BY DEF Order, Shape, FileOrder, Apart
<1> QED
  BY <1>1, IdsSame

\* Files that list what they listed.
LEMMA SameApart ==
  ASSUME Shape, Shape', Apart, \A d \in Dbs : SameIds(files'[d], files[d])
  PROVE  \A d \in Dbs : OwnIds(files'[d]) /\ Ids(files'[d]) = Ids(files[d])
<1> TAKE d \in Dbs
<1>1. files[d] \in Seq(Token) /\ files'[d] \in Seq(Token) /\ OwnIds(files[d])
  BY DEF Shape, Apart
<1> QED
  BY <1>1, IdsSame

\* A dialog that stays up over such a file.
LEMMA SameCaptured ==
  ASSUME Shape, Shape', Captured, UNCHANGED <<dialog, cur>>, SameIds(files'[cur], files[cur])
  PROVE  Captured'
<1>1. cur \in Dbs /\ files[cur] \in Seq(Token) /\ files'[cur] \in Seq(Token)
  BY DEF Shape
<1>2. DOMAIN files'[cur] = DOMAIN files[cur]
  BY <1>1, IdsSame
<1> QED
  BY <1>2 DEF Captured, SameIds

\* No token changes its place.
LEMMA Stay ==
  ASSUME Apart, Kept, Captured',
         \A d \in Dbs : OwnIds(files'[d]) /\ Ids(files'[d]) = Ids(files[d]),
         undo' \in {undo, NoUndo}, deleted' = deleted
  PROVE  Places'
<1>1. Apart'
  BY DEF Apart
<1>2. Kept'
  BY DEF Kept
<1> QED
  BY <1>1, <1>2 DEF Places

\* A dialog that is not up has captured nothing.
LEMMA NoDialog ==
  ASSUME dialog' = None
  PROVE  Captured'
  BY DEF Captured, None

\* A flush writes the order the file has.
LEMMA FlushSame ==
  ASSUME Order, ~askew, NEW o \in FlushOutcomes
  PROVE  \A d \in Dbs : SameIds(o.files[d], files[d])
<1>1. \/ o.files = files
      \/ open /\ o.files = [files EXCEPT ![cur] = json]
  BY FlushWays
<1>2. open => SameIds(json, files[cur])
  BY DEF Order, FileOrder
<1> QED
  BY <1>1, <1>2, SameIdsRefl DEF Order, Shape

\* A save of an array with the tokens of the file, or its failure.
LEMMA SaveSame ==
  ASSUME Shape, Apart, NEW j, OwnIds(j), Ids(j) = Ids(files[cur]), Saved(j) \/ SaveFails(j)
  PROVE  \A d \in Dbs : OwnIds(files'[d]) /\ Ids(files'[d]) = Ids(files[d])
<1>1. files' = files \/ files' = [files EXCEPT ![cur] = j]
  BY DEF Saved, SaveFails
<1> QED
  BY <1>1 DEF Shape, Apart

\* What is askew stays so.
LEMMA StaysAskew == [Next]_vars => askew' = askew \/ askew' = TRUE
  BY DEF Next, FlushTimer, SetGroup, Cancel, Delete, DeleteFails, Undo, ToastGone, Edit, Move,
         MoveHalf, Lock, Unlock, Switch, OpenOther, Activate, AskDelete, AskEdit, AskMove, Drop,
         vars, history

\* A deletion takes the token out of its file and into the slot of the undo.
LEMMA DeletePlaces ==
  ASSUME Order, Ranges, Places, ~askew, Delete
  PROVE  Places'
<1> DEFINE p == dialog.pos
           j == RemoveAt(json, p)
<1>1. /\ open /\ dialog.kind = "delete" /\ p \in DOMAIN json
      /\ json' = j /\ files' = [files EXCEPT ![cur] = j]
      /\ undo' = [token |-> json[p], pos |-> p]
      /\ deleted' = deleted \cup {rows[p].id} /\ dialog' = None /\ askew' = askew
  BY DEF Delete, Saved
<1>2. Shape /\ Apart /\ Kept /\ RowsMirrorJson
  BY DEF Order, Places
<1>3. /\ json \in Seq(Token) /\ OwnIds(json) /\ Ids(json) = Ids(files[cur])
  BY <1>1, <1>2, MemoryIds
<1>4. OwnIds(j) /\ Ids(j) = Ids(files[cur]) \ {json[p].id}
  BY <1>1, <1>3, IdsRemoved
<1>5. rows[p].id = json[p].id
  <2>1. p # 0
    BY <1>1, <1>3
  <2>2. p \in DOMAIN rows
    BY <1>1, <2>1 DEF Ranges
  <2>3. rows # << >>
    BY <2>2
  <2>4. SameIds(rows, json)
    BY <1>1, <1>2, <2>3 DEF RowsMirrorJson
  <2> QED
    BY <2>2, <2>4 DEF SameIds
<1>6. json[p].id \in Ids(files[cur])
  BY <1>1, <1>3 DEF Ids
<1> HIDE DEF j, p
<1>7. cur \in Dbs /\ files'[cur] = j /\ \A d \in Dbs : d # cur => files'[d] = files[d]
  BY <1>1, <1>2 DEF Shape
<1>8. Apart'
  <2>1. \A d \in Dbs : OwnIds(files'[d]) /\ Ids(files'[d]) \subseteq Ids(files[d])
    BY <1>2, <1>4, <1>7 DEF Apart
  <2>2. \A d \in Dbs : json[p].id \notin Ids(files'[d])
    <3> TAKE d \in Dbs
    <3>1. CASE d = cur
      BY <1>4, <1>7, <3>1
    <3>2. CASE d # cur
      BY <1>2, <1>6, <1>7, <3>2 DEF Apart
    <3> QED
      BY <3>1, <3>2
  <2>3. \A d, e \in Dbs : d # e => Ids(files'[d]) \cap Ids(files'[e]) = {}
    BY <1>2, <2>1 DEF Apart
  <2>4. undo'.token = json[p]
    BY <1>1
  <2> QED
    BY <2>1, <2>2, <2>3, <2>4 DEF Apart
<1>9. Kept'
  <2> SUFFICES ASSUME NEW t \in Tokens \ deleted' PROVE \E d \in Dbs : t \in Ids(files'[d])
    BY DEF Kept
  <2>1. t \notin deleted /\ t # json[p].id
    BY <1>1, <1>5
  <2>2. PICK d \in Dbs : t \in Ids(files[d])
    BY <1>2, <2>1 DEF Kept
  <2>3. t \in Ids(files'[d])
    BY <1>4, <1>7, <2>1, <2>2
  <2> QED
    BY <2>3
<1> QED
  BY <1>1, <1>8, <1>9, NoDialog DEF Places

\* An undo that is saved puts it back into the file that is open.
LEMMA UndoPlaces ==
  ASSUME Order, Ranges, Places, ~askew, Undo
  PROVE  Places'
<1>1. /\ Shape /\ Apart /\ Kept /\ cur \in Dbs
      /\ deleted' = deleted /\ dialog' = None /\ dialog = None
  BY DEF Undo, Order, Shape, Places
<1>2. CASE files' = files
  <2>1. \A d \in Dbs : OwnIds(files'[d]) /\ Ids(files'[d]) = Ids(files[d])
    BY <1>1, <1>2 DEF Apart
  <2>2. undo' \in {undo, NoUndo}
    BY DEF Undo
  <2> QED
    BY <1>1, <2>1, <2>2, Stay, NoDialog
<1>3. CASE files' # files
  <2> DEFINE at == IF undo.pos <= Len(json) + 1 THEN undo.pos ELSE Len(json) + 1
             j == InsertAt(json, at, undo.token)
  <2>1. undo # NoUndo /\ open /\ Saved(j) /\ undo' = NoUndo
    BY <1>3 DEF Undo, SaveFails
  <2>2. /\ json \in Seq(Token) /\ OwnIds(json) /\ Ids(json) = Ids(files[cur])
    BY <1>1, <2>1, MemoryIds
  <2>3. undo.token \in Token /\ undo.pos \in Nat \ {0} /\ Len(json) \in Nat
    BY <1>1, <2>1, <2>2 DEF Shape
  <2>4. at \in 1..(Len(json) + 1)
    BY <2>3
  <2> HIDE DEF at
  <2>5. j \in Seq(Token) /\ Inserted(j, json, at, undo.token)
    BY <2>2, <2>3, <2>4, InsertAtSeq
  <2> HIDE DEF j
  <2>6. undo.token.id \notin Ids(json)
    BY <1>1, <2>1, <2>2 DEF Apart
  <2>7. OwnIds(j) /\ Ids(j) = Ids(files[cur]) \cup {undo.token.id}
    BY <2>2, <2>3, <2>4, <2>5, <2>6, IdsInserted
  <2>8. files'[cur] = j /\ \A d \in Dbs : d # cur => files'[d] = files[d]
    BY <1>1, <2>1 DEF Saved, Shape
  <2>9. Apart'
    <3>1. \A d \in Dbs : OwnIds(files'[d])
      BY <1>1, <2>7, <2>8 DEF Apart
    <3>2. \A d \in Dbs : undo.token.id \notin Ids(files[d])
      BY <1>1, <2>1 DEF Apart
    <3>3. \A d, e \in Dbs : d # e => Ids(files'[d]) \cap Ids(files'[e]) = {}
      <4> SUFFICES ASSUME NEW d \in Dbs, NEW e \in Dbs, d # e
                   PROVE  Ids(files'[d]) \cap Ids(files'[e]) = {}
        OBVIOUS
      <4>1. Ids(files[d]) \cap Ids(files[e]) = {}
        BY <1>1 DEF Apart
      <4>2. Ids(files'[d]) \subseteq Ids(files[d]) \cup {undo.token.id} /\ (d # cur => Ids(files'[d]) = Ids(files[d]))
        BY <2>7, <2>8
      <4>3. Ids(files'[e]) \subseteq Ids(files[e]) \cup {undo.token.id} /\ (e # cur => Ids(files'[e]) = Ids(files[e]))
        BY <2>7, <2>8
      <4> QED
        BY <3>2, <4>1, <4>2, <4>3
    <3> QED
      BY <2>1, <3>1, <3>3 DEF Apart
  <2>10. Kept'
    <3>1. \A d \in Dbs : Ids(files[d]) \subseteq Ids(files'[d])
      BY <2>7, <2>8
    <3> QED
      BY <1>1, <3>1 DEF Kept
  <2> QED
    BY <1>1, <2>9, <2>10, NoDialog DEF Places
<1> QED
  BY <1>2, <1>3

\* A move takes the token out of one file and into the other.
LEMMA MovePlaces ==
  ASSUME Order, Ranges, Places, ~askew, Move
  PROVE  Places'
<1> DEFINE p == dialog.pos
           e == dialog.token
           rest == Without(p)
           more == Append(files[Other], e)
<1>1. /\ open /\ dialog.kind = "move" /\ dialog' = None /\ UNCHANGED <<undo, deleted, askew>>
      /\ files' = [files EXCEPT ![Other] = more, ![cur] = rest]
  BY DEF Move, history
<1>2. Shape /\ Apart /\ Captured /\ Kept /\ cur \in Dbs /\ Other \in Dbs /\ Other # cur
  BY OtherDb DEF Order, Shape, Places
<1>3. /\ json \in Seq(Token) /\ OwnIds(json) /\ Ids(json) = Ids(files[cur])
      /\ SameIds(json, files[cur]) /\ DOMAIN json = DOMAIN files[cur]
  BY <1>1, <1>2, MemoryIds
<1>4. p \in DOMAIN json /\ json[p].id = e.id /\ e \in Token
  BY <1>1, <1>2, <1>3 DEF Captured, SameIds, Shape
<1>5. rest = RemoveAt(json, p)
  BY <1>4 DEF Without
<1>6. OwnIds(rest) /\ Ids(rest) = Ids(files[cur]) \ {e.id}
  BY <1>3, <1>4, <1>5, IdsRemoved
<1>7. e.id \in Ids(files[cur])
  BY <1>3, <1>4 DEF Ids
<1>8. files[Other] \in Seq(Token) /\ OwnIds(files[Other]) /\ e.id \notin Ids(files[Other])
  BY <1>2, <1>7 DEF Shape, Apart
<1>9. OwnIds(more) /\ Ids(more) = Ids(files[Other]) \cup {e.id}
  <2>1. more \in Seq(Token) /\ Inserted(more, files[Other], Len(files[Other]) + 1, e)
        /\ Len(files[Other]) + 1 \in 1..(Len(files[Other]) + 1)
    BY <1>4, <1>8, AppendInserts
  <2> HIDE DEF more, e
  <2> QED
    BY <1>4, <1>8, <2>1, IdsInserted
<1> HIDE DEF rest, more, p, e
<1>10. /\ files'[cur] = rest /\ files'[Other] = more
       /\ \A d \in Dbs : d # cur /\ d # Other => files'[d] = files[d]
  BY <1>1, <1>2 DEF Shape
<1>11. Apart'
  <2>1. \A d \in Dbs : OwnIds(files'[d])
    BY <1>2, <1>6, <1>9, <1>10 DEF Apart
  <2>2. \A d \in Dbs \ {cur} : e.id \notin Ids(files[d])
    BY <1>2, <1>7 DEF Apart
  <2>3. \A d \in Dbs : /\ d # Other => Ids(files'[d]) = Ids(files[d]) \ {e.id}
                       /\ d = Other => Ids(files'[d]) = Ids(files[d]) \cup {e.id}
    BY <1>2, <1>6, <1>9, <1>10, <2>2
  <2>4. \A d, c \in Dbs : d # c => Ids(files'[d]) \cap Ids(files'[c]) = {}
    <3> SUFFICES ASSUME NEW d \in Dbs, NEW c \in Dbs, d # c
                 PROVE  Ids(files'[d]) \cap Ids(files'[c]) = {}
      OBVIOUS
    <3>1. Ids(files[d]) \cap Ids(files[c]) = {}
      BY <1>2 DEF Apart
    <3> QED
      BY <2>3, <3>1
  <2>5. undo' # NoUndo => \A d \in Dbs : undo'.token.id \notin Ids(files'[d])
    <3> SUFFICES ASSUME undo # NoUndo, NEW d \in Dbs PROVE undo.token.id \notin Ids(files'[d])
      BY <1>1
    <3>1. \A c \in Dbs : undo.token.id \notin Ids(files[c])
      BY <1>2 DEF Apart
    <3>2. undo.token.id # e.id
      BY <1>2, <1>7, <3>1
    <3> QED
      BY <2>3, <3>1, <3>2
  <2> QED
    BY <2>1, <2>4, <2>5 DEF Apart
<1>12. Kept'
  <2> SUFFICES ASSUME NEW t \in Tokens \ deleted PROVE \E d \in Dbs : t \in Ids(files'[d])
    BY <1>1 DEF Kept
  <2>1. PICK d \in Dbs : t \in Ids(files[d])
    BY <1>2 DEF Kept
  <2>2. CASE t = e.id
    BY <1>2, <1>9, <1>10, <2>2
  <2>3. CASE t # e.id
    <3>1. t \in Ids(files'[d])
      BY <1>6, <1>9, <1>10, <2>1, <2>3
    <3> QED
      BY <3>1
  <2> QED
    BY <2>2, <2>3
<1> QED
  BY <1>1, <1>11, <1>12, NoDialog DEF Places

\* Every step leaves each token where it was, or takes it to another place.
LEMMA NextPlaces == Order /\ Ranges /\ Places /\ [Next]_vars => Places'
<1> SUFFICES ASSUME Order, Ranges, Places, [Next]_vars, ~askew' PROVE Places'
  BY DEF Places
<1>a. /\ ~askew /\ Order' /\ Shape /\ Shape' /\ Apart /\ Kept /\ Captured
      /\ cur \in Dbs /\ RowsMirrorJson
  BY StaysAskew, NextOrder DEF Order, Shape, Places
<1>b. \A d \in Dbs : OwnIds(files[d]) /\ Ids(files[d]) = Ids(files[d])
  BY <1>a DEF Apart
<1>c. ASSUME NEW o \in FlushOutcomes, files' = o.files
      PROVE  /\ \A d \in Dbs : SameIds(files'[d], files[d])
             /\ \A d \in Dbs : OwnIds(files'[d]) /\ Ids(files'[d]) = Ids(files[d])
  <2>1. \A d \in Dbs : SameIds(files'[d], files[d])
    BY <1>a, <1>c, FlushSame
  <2> QED
    BY <1>a, <2>1, SameApart
<1>1. CASE FlushTimer
  <2>1. PICK o \in FlushOutcomes : files' = o.files
    BY <1>1 DEF FlushTimer
  <2>2. UNCHANGED <<dialog, cur, undo, deleted>>
    BY <1>1 DEF FlushTimer
  <2> QED
    BY <1>a, <1>c, <2>1, <2>2, SameCaptured, Stay
<1>2. CASE Lock
  <2>1. PICK o \in FlushOutcomes : files' = o.files
    BY <1>2 DEF Lock
  <2>2. UNCHANGED <<cur, deleted>> /\ undo' = NoUndo /\ dialog' = Deselected
    BY <1>2 DEF Lock, Forgotten
  <2>3. Captured'
    <3>1. CASE dialog.kind = "delete"
      <4>1. dialog \in [kind : {"delete"}, pos : Nat]
        BY <3>1 DEF Ranges, Dialogs, None
      <4>2. dialog' = [dialog EXCEPT !.pos = 0]
        BY <2>2, <3>1 DEF Deselected
      <4> QED
        BY <4>1, <4>2 DEF Captured
    <3>2. CASE dialog.kind # "delete"
      BY <1>a, <1>c, <2>1, <2>2, <3>2, SameCaptured DEF Deselected
    <3> QED
      BY <3>1, <3>2
  <2> QED
    BY <1>a, <1>c, <2>1, <2>2, <2>3, Stay
<1>3. CASE Switch
  <2>1. PICK o \in FlushOutcomes : files' = o.files
    BY <1>3 DEF Switch
  <2>2. UNCHANGED <<undo, deleted>> /\ dialog' = None
    BY <1>3 DEF Switch
  <2> QED
    BY <1>a, <1>c, <2>1, <2>2, NoDialog, Stay
<1>4. CASE SetGroup \/ Edit \/ DeleteFails
  <2>1. /\ undo' \in {undo, NoUndo} /\ deleted' = deleted /\ dialog' = None /\ open
        /\ Saved(json) \/ \E j : SaveFails(j)
    BY <1>4 DEF SetGroup, Edit, DeleteFails, Idle
  <2>2. OwnIds(json) /\ Ids(json) = Ids(files[cur])
    BY <1>a, <2>1, MemoryIds
  <2>3. \A d \in Dbs : OwnIds(files'[d]) /\ Ids(files'[d]) = Ids(files[d])
    <3>1. CASE Saved(json)
      BY <1>a, <2>2, <3>1, SaveSame
    <3>2. CASE \E j : SaveFails(j)
      BY <1>b, <3>2 DEF SaveFails
    <3> QED
      BY <2>1, <3>1, <3>2
  <2> QED
    BY <1>a, <2>1, <2>3, NoDialog, Stay
<1>5. CASE Cancel \/ OpenOther
  <2>1. UNCHANGED <<files, undo, deleted>> /\ dialog' = None
    BY <1>5 DEF Cancel, OpenOther, Idle, history
  <2> QED
    BY <1>a, <1>b, <2>1, NoDialog, Stay
<1>6. CASE ToastGone \/ Unlock \/ UNCHANGED vars
  <2>1. UNCHANGED <<files, undo, deleted, dialog, cur>>
    BY <1>6 DEF ToastGone, Unlock, history, vars
  <2>2. Captured'
    BY <1>a, <2>1 DEF Captured
  <2> QED
    BY <1>a, <1>b, <2>1, <2>2, Stay
<1>7. CASE Delete \/ Undo \/ Move
  BY <1>7, <1>a, DeletePlaces, UndoPlaces, MovePlaces
<1>8. CASE MoveHalf
  BY <1>8 DEF MoveHalf
<1>9. ASSUME NEW i \in 1..MaxLen, Activate(i) \/ AskDelete(i) PROVE Places'
  <2>1. UNCHANGED <<files, undo, deleted, cur>> /\ Captured'
    BY <1>9 DEF Activate, AskDelete, Idle, Captured, None, history
  <2> QED
    BY <1>a, <1>b, <2>1, Stay
<1>10. ASSUME NEW i \in 1..MaxLen, AskEdit(i) \/ AskMove(i) PROVE Places'
  <2>1. /\ UNCHANGED <<files, undo, deleted, cur>> /\ i \in DOMAIN json /\ open
        /\ dialog'.pos = i /\ dialog'.token = json[i]
    BY <1>10 DEF AskEdit, AskMove, Idle, history
  <2>2. SameIds(json, files[cur]) /\ DOMAIN json = DOMAIN files[cur]
    BY <1>a, <2>1, MemoryIds
  <2>3. Captured'
    BY <2>1, <2>2 DEF Captured, SameIds
  <2> QED
    BY <1>a, <1>b, <2>1, <2>3, Stay
<1>11. ASSUME NEW i \in 1..MaxLen, NEW j \in 1..MaxLen, Drop(i, j) PROVE Places'
  <2> DEFINE new == Reordered(i, j)
  <2>1. /\ UNCHANGED <<undo, deleted>> /\ dialog' = None /\ open
        /\ i \in DOMAIN rows /\ j \in DOMAIN rows
        /\ Saved(new) \/ SaveFails(new)
    BY <1>11 DEF Drop, Idle
  <2>2. json \in Seq(Token) /\ OwnIds(json) /\ Ids(json) = Ids(files[cur])
    BY <1>a, <2>1, MemoryIds
  <2>4. DOMAIN rows = DOMAIN json
    BY <1>a, <2>1, <2>2 DEF RowsMirrorJson, SameIds, Shape
  <2>3. OwnIds(new) /\ Ids(new) = Ids(files[cur])
    BY <2>1, <2>2, <2>4, ReorderedSeq, IdsMoved
  <2> HIDE DEF new
  <2> QED
    BY <1>a, <2>1, <2>3, SaveSame, NoDialog, Stay
<1> QED
  BY <1>1, <1>2, <1>3, <1>4, <1>5, <1>6, <1>7, <1>8, <1>9, <1>10, <1>11 DEF Next

\* At the start every token is in one place.
LEMMA InitPlaces == Init => Places
<1> SUFFICES ASSUME Init PROVE Places
  OBVIOUS
<1>1. PICK s \in [Dbs -> UNION {[1..n -> [id : Tokens, ctr : {0}]] : n \in 0..MaxLen}] :
       /\ \A d \in Dbs : \A i, j \in DOMAIN s[d] : i # j => s[d][i].id # s[d][j].id
       /\ \A t \in Tokens : \E d \in Dbs : t \in Ids(s[d])
       /\ \A d, e \in Dbs : d # e => Ids(s[d]) \cap Ids(s[e]) = {}
       /\ files = s
  BY DEF Init
<1>2. undo = NoUndo /\ dialog = None /\ deleted = {}
  BY DEF Init
<1>3. Apart
  BY <1>1, <1>2 DEF Apart, OwnIds
<1>4. Kept /\ Captured
  BY <1>1, <1>2 DEF Kept, Captured, None
<1> QED
  BY <1>3, <1>4 DEF Places

\* The places are an invariant of the window.
LEMMA Placed == Spec => []Places
  BY InitPlaces, NextPlaces, Ordered, Ranged, PTL DEF Spec

\* No sequence of drops, deletions, undos, moves, locks and switches loses a token whose
\* deletion nobody confirmed, as long as no drop and no move failed halfway.
THEOREM NoneLost == Spec => []TokensKept
<1>1. Places => TokensKept
  BY DEF Places, Kept, TokensKept
<1> QED
  BY <1>1, Placed, PTL

\* Nor does one make a second token of it, in the same file or in another.
THEOREM NoneTwice == Spec => []TokensOnce
<1>1. Places => TokensOnce
  <2> SUFFICES ASSUME Apart, NEW d \in Dbs, NEW e \in Dbs,
                      NEW i \in DOMAIN files[d], NEW j \in DOMAIN files[e],
                      files[d][i].id = files[e][j].id
               PROVE  d = e /\ i = j
    BY DEF Places, TokensOnce
  <2>1. files[d][i].id \in Ids(files[d]) \cap Ids(files[e])
    BY DEF Ids
  <2>2. d = e
    BY <2>1 DEF Apart
  <2> QED
    BY <2>2 DEF Apart, OwnIds
<1> QED
  BY <1>1, Placed, PTL

-----------------------------------------------------------------------------
(* The counters.                                                           *)

\* The counter of a token is not behind the codes of u.
Ahead(t, u) == t.id \in Hotp => t.ctr >= u[t.id]
AllAhead(s, u) == \A i \in DOMAIN s : Ahead(s[i], u)

\* Wherever a token is, its counter is not behind a code that was shown, but in the file
\* while the counters of memory wait to be saved.
FilesAhead == \A d \in Dbs : ~(d = cur /\ dirty) => AllAhead(files[d], used)
MemoryAhead == open => AllAhead(json, used) /\ AllAhead(rows, used)
HeldAhead ==
  /\ undo # NoUndo => Ahead(undo.token, used)
  /\ dialog.kind \in {"edit", "move"} => Ahead(dialog.token, used)

Counters == ~excused /\ ~askew => (dirty => open) /\ FilesAhead /\ MemoryAhead /\ HeldAhead

\* What is left of such tokens.
LEMMA AheadRemoved ==
  ASSUME NEW S, NEW s \in Seq(S), NEW i \in DOMAIN s, NEW u, AllAhead(s, u)
  PROVE  AllAhead(RemoveAt(s, i), u)
<1>1. \A k \in DOMAIN RemoveAt(s, i) : \E j \in DOMAIN s \ {i} : RemoveAt(s, i)[k] = s[j]
  BY RemoveAtKeeps
<1> QED
  BY <1>1 DEF AllAhead

\* One more of them.
LEMMA AheadInserted ==
  ASSUME NEW S, NEW s \in Seq(S), NEW e, NEW i \in 1..(Len(s) + 1),
         NEW r \in Seq(S), Inserted(r, s, i, e), NEW u, AllAhead(s, u), Ahead(e, u)
  PROVE  AllAhead(r, u)
<1>1. /\ Len(r) = Len(s) + 1
      /\ \A k \in 1..(Len(s) + 1) :
           r[k] = IF k < i THEN s[k] ELSE IF k = i THEN e ELSE s[k - 1]
  BY DEF Inserted
<1>2. DOMAIN s = 1..Len(s) /\ Len(s) \in Nat /\ DOMAIN r = 1..(Len(s) + 1)
  BY <1>1
<1>3. \A k \in DOMAIN r : r[k] = e \/ \E j \in DOMAIN s : r[k] = s[j]
  <2> TAKE k \in DOMAIN r
  <2>1. CASE k < i
    BY <1>1, <1>2, <2>1
  <2>2. CASE k = i
    BY <1>1, <1>2, <2>2
  <2>3. CASE k > i
    <3>1. k - 1 \in DOMAIN s /\ ~(k < i) /\ k # i
      BY <1>2, <2>3
    <3> QED
      BY <1>1, <1>2, <3>1
  <2> QED
    BY <1>2, <2>1, <2>2, <2>3
<1> QED
  BY <1>3 DEF AllAhead

\* The same tokens in another order.
LEMMA AheadMoved ==
  ASSUME NEW S, NEW s \in Seq(S), NEW i \in DOMAIN s, NEW j \in DOMAIN s,
         NEW u, AllAhead(s, u)
  PROVE  AllAhead(Moved(s, i, j), u)
<1> DEFINE r == RemoveAt(s, i)
<1>1. r \in Seq(S) /\ Len(r) = Len(s) - 1 /\ AllAhead(r, u)
  BY RemoveAtSeq, AheadRemoved
<1>2. s[i] \in S /\ j \in 1..(Len(r) + 1) /\ Ahead(s[i], u)
  BY <1>1 DEF AllAhead
<1> HIDE DEF r
<1>3. InsertAt(r, j, s[i]) \in Seq(S) /\ Inserted(InsertAt(r, j, s[i]), r, j, s[i])
  BY <1>1, <1>2, InsertAtSeq
<1>4. AllAhead(InsertAt(r, j, s[i]), u)
  BY <1>1, <1>2, <1>3, AheadInserted
<1> QED
  BY <1>4 DEF Moved, r

\* What was given up once stays so.
LEMMA StaysExcused == [Next]_vars /\ ~excused' => ~excused
<1>1. [Next]_vars => excused' = excused \/ excused' = TRUE \/ excused' = (excused \/ dirty)
  <2>1. \A j : Saved(j) \/ SaveFails(j) => excused' = excused \/ excused' = (excused \/ dirty)
    BY Zenon DEF Saved, SaveFails
  <2>2. \A o \in FlushOutcomes : o.excused = excused \/ o.excused = TRUE
    BY FlushWays
  <2>3. CASE FlushTimer \/ Lock \/ Switch
    BY <2>2, <2>3 DEF FlushTimer, Lock, Switch
  <2>4. CASE SetGroup \/ Delete \/ DeleteFails \/ Undo \/ Edit \/ \E i, j \in 1..MaxLen : Drop(i, j)
    BY <2>1, <2>4, Zenon DEF SetGroup, Delete, DeleteFails, Undo, Edit, Drop
  <2>5. CASE MoveHalf \/ OpenOther
    BY <2>5, Zenon DEF MoveHalf, OpenOther
  <2>6. CASE \/ Cancel \/ ToastGone \/ Move \/ Unlock \/ UNCHANGED vars
             \/ \E i \in 1..MaxLen : Activate(i) \/ AskDelete(i) \/ AskEdit(i) \/ AskMove(i)
    BY <2>6 DEF Cancel, ToastGone, Move, Unlock, Activate, AskDelete, AskEdit, AskMove, vars, history
  <2> QED
    BY <2>3, <2>4, <2>5, <2>6 DEF Next
<1> QED
  BY <1>1, Zenon

\* A save of such an array, or a failure that gives no counter up.
LEMMA SaveAhead ==
  ASSUME Shape, FilesAhead, NEW j, AllAhead(j, used), Saved(j) \/ SaveFails(j),
         UNCHANGED <<cur, dirty, used>>, ~excused'
  PROVE  FilesAhead' /\ AllAhead(json', used)
<1>1. CASE Saved(j)
  <2>1. /\ files'[cur] = j /\ json' = j
        /\ \A d \in Dbs : d # cur => files'[d] = files[d]
    BY <1>1 DEF Saved, Shape
  <2> QED
    BY <2>1 DEF FilesAhead
<1>2. CASE SaveFails(j)
  <2>1. files' = files /\ json' = files[cur] /\ ~dirty
    BY <1>2, Zenon DEF SaveFails
  <2> QED
    BY <2>1 DEF FilesAhead, Shape
<1> QED
  BY <1>1, <1>2

\* A flush that gives no counter up leaves both files ahead.
LEMMA FlushAhead ==
  ASSUME Shape, FilesAhead, MemoryAhead, dirty => open, NEW o \in FlushOutcomes, ~o.excused
  PROVE  /\ \A d \in Dbs : AllAhead(o.files[d], used)
         /\ o.json = json /\ ~o.dirty
<1>1. CASE dirty /\ open
  <2>1. o.files = [files EXCEPT ![cur] = json] /\ o.json = json /\ o.dirty = FALSE
    BY <1>1, FlushWays
  <2>2. \A d \in Dbs : o.files[d] = IF d = cur THEN json ELSE files[d]
    BY <2>1 DEF Shape
  <2>3. AllAhead(json, used) /\ \A d \in Dbs : d # cur => AllAhead(files[d], used)
    BY <1>1 DEF MemoryAhead, FilesAhead
  <2> QED
    BY <2>1, <2>2, <2>3
<1>2. CASE ~(dirty /\ open)
  <2>1. o.files = files /\ o.json = json /\ o.dirty = dirty /\ ~dirty
    BY <1>2, FlushWays
  <2> QED
    BY <2>1 DEF FilesAhead
<1> QED
  BY <1>1, <1>2

\* The codes of one token go ahead, and its counter with them, in a list that has it once.
LEMMA AheadCounted ==
  ASSUME NEW s \in Seq(Token), NEW i \in DOMAIN s, OwnIds(s), NEW u, AllAhead(s, u),
         NEW c \in Nat, NEW v, \A x : x # s[i].id => v[x] = u[x], v[s[i].id] = c
  PROVE  AllAhead([s EXCEPT ![i].ctr = c], v)
<1> DEFINE r == [s EXCEPT ![i].ctr = c]
<1>1. DOMAIN r = DOMAIN s /\ s[i] \in Token
  OBVIOUS
<1>2. r[i].id = s[i].id /\ r[i].ctr = c
  BY <1>1 DEF Token
<1>3. \A k \in DOMAIN s \ {i} : r[k] = s[k] /\ s[k].id # s[i].id
  BY DEF OwnIds
<1> HIDE DEF r
<1>4. Ahead(r[i], v)
  BY <1>2 DEF Ahead
<1>5. \A k \in DOMAIN s \ {i} : Ahead(r[k], v)
  BY <1>3 DEF Ahead, AllAhead
<1>6. AllAhead(r, v)
  BY <1>1, <1>4, <1>5 DEF AllAhead
<1> QED
  BY <1>6 DEF r

\* The code of a row that is shown: its counter is not behind the last one, so that the
\* next is a new one.
LEMMA ActivateCodes ==
  ASSUME Order, Ranges, Counters, ~excused, ~askew, NEW i \in DOMAIN rows, Activate(i)
  PROVE  LET t == rows[i].id IN
         /\ t \in Hotp /\ rows[i] \in Token /\ rows[i].ctr + 1 \in Nat
         /\ used[t] \in Nat /\ used[t] < rows[i].ctr + 1
         /\ used' = [used EXCEPT ![t] = rows[i].ctr + 1]
<1> DEFINE t == rows[i].id
<1>1. /\ open /\ t \in Hotp
      /\ used' = [used EXCEPT ![t] = IF used[t] > rows[i].ctr THEN used[t] ELSE rows[i].ctr + 1]
  BY DEF Activate, Idle
<1>2. rows[i] \in Token /\ MaxCounter \in Nat
  BY Bounds DEF Order, Shape
<1>3. rows[i].ctr \in Nat
  BY <1>2 DEF Token
<1>4. used[t] <= rows[i].ctr
  BY <1>1 DEF Counters, MemoryAhead, AllAhead, Ahead
<1>5. used[t] \in Nat
  BY <1>1, <1>2 DEF Ranges
<1>6. used' = [used EXCEPT ![t] = rows[i].ctr + 1]
  <2>1. ~(used[t] > rows[i].ctr)
    BY <1>3, <1>4, <1>5
  <2> QED
    BY <1>1, <2>1
<1>7. rows[i].ctr + 1 \in Nat /\ used[t] < rows[i].ctr + 1
  BY <1>3, <1>4, <1>5
<1> QED
  BY <1>1, <1>2, <1>5, <1>6, <1>7

\* Nowhere else is the token whose code is shown.
LEMMA ActivateCounters ==
  ASSUME Order, Ranges, Places, Counters, ~excused, ~askew,
         NEW i \in 1..MaxLen, Activate(i)
  PROVE  Counters'
<1> DEFINE t == rows[i].id
           c == rows[i].ctr + 1
<1>1. /\ open /\ i \in DOMAIN rows /\ dialog = None
      /\ rows' = [rows EXCEPT ![i].ctr = c]
      /\ i \in DOMAIN json => json' = [json EXCEPT ![i].ctr = c] /\ dirty' = TRUE
      /\ UNCHANGED <<files, cur, open, undo, dialog, excused, askew>>
  BY DEF Activate, Idle
<1>2. /\ t \in Hotp /\ c \in Nat /\ used[t] \in Nat /\ used[t] < c
      /\ used' = [used EXCEPT ![t] = c]
  BY <1>1, ActivateCodes
<1>3. /\ Shape /\ Apart /\ RowsMirrorJson /\ FilesAhead /\ MemoryAhead /\ HeldAhead
  BY DEF Order, Places, Counters
<1>4. /\ json \in Seq(Token) /\ rows \in Seq(Token) /\ OwnIds(json)
      /\ Ids(json) = Ids(files[cur]) /\ cur \in Dbs
  BY <1>1, <1>3, MemoryIds DEF Shape
<1>5. SameIds(rows, json)
  <2>1. rows # << >>
    BY <1>1
  <2> QED
    BY <1>1, <1>3, <2>1 DEF RowsMirrorJson
<1>6. OwnIds(rows) /\ Ids(rows) = Ids(json) /\ DOMAIN rows = DOMAIN json
  BY <1>4, <1>5, IdsSame
<1>7. i \in DOMAIN json /\ json[i].id = t
  BY <1>1, <1>5, <1>6 DEF SameIds
<1>8. t \in Ids(files[cur])
  BY <1>4, <1>7 DEF Ids
<1>9. /\ \A x : x # t => used'[x] = used[x]
      /\ used'[t] = c
  BY <1>2 DEF Ranges
<1>10. AllAhead(json, used) /\ AllAhead(rows, used)
  BY <1>1, <1>3 DEF MemoryAhead
<1>t. rows[i].id = t
  OBVIOUS
<1> HIDE DEF c, t
<1>11. AllAhead(rows', used')
  <2>1. ASSUME NEW u, \A x : x # rows[i].id => u[x] = used[x], u[rows[i].id] = c
        PROVE  AllAhead([rows EXCEPT ![i].ctr = c], u)
    <3>1. rows \in Seq(Token) /\ i \in DOMAIN rows /\ c \in Nat
      BY <1>1, <1>2, <1>4
    <3>2. OwnIds(rows) /\ AllAhead(rows, used)
      BY <1>6, <1>10
    <3> QED
      BY <3>1, <3>2, <2>1, AheadCounted
  <2>2. (\A x : x # rows[i].id => used'[x] = used[x]) /\ used'[rows[i].id] = c
    BY <1>9, <1>t
  <2>3. AllAhead([rows EXCEPT ![i].ctr = c], used')
    BY <2>1, <2>2
  <2> QED
    BY <1>1, <2>3
<1>12. AllAhead(json', used')
  <2>1. ASSUME NEW u, \A x : x # json[i].id => u[x] = used[x], u[json[i].id] = c
        PROVE  AllAhead([json EXCEPT ![i].ctr = c], u)
    BY <1>2, <1>4, <1>7, <1>10, <2>1, AheadCounted
  <2>2. (\A x : x # json[i].id => used'[x] = used[x]) /\ used'[json[i].id] = c
    BY <1>7, <1>9
  <2>3. AllAhead([json EXCEPT ![i].ctr = c], used')
    BY <2>1, <2>2
  <2> QED
    BY <1>1, <1>7, <2>3
<1>13. FilesAhead'
  <2> SUFFICES ASSUME NEW d \in Dbs, d # cur PROVE AllAhead(files[d], used')
    BY <1>1, <1>7 DEF FilesAhead
  <2>1. t \notin Ids(files[d])
    BY <1>3, <1>4, <1>8 DEF Apart
  <2>2. AllAhead(files[d], used)
    BY <1>3 DEF FilesAhead
  <2> QED
    BY <1>9, <2>1, <2>2 DEF AllAhead, Ahead, Ids
<1>14. HeldAhead'
  <2> SUFFICES ASSUME undo # NoUndo PROVE Ahead(undo.token, used')
    BY <1>1 DEF HeldAhead, None
  <2>1. undo.token.id # t
    BY <1>3, <1>4, <1>8 DEF Apart
  <2> QED
    BY <1>3, <1>9, <2>1 DEF HeldAhead, Ahead
<1> QED
  BY <1>1, <1>7, <1>11, <1>12, <1>13, <1>14 DEF Counters, MemoryAhead

\* A step that shows no code and puts nothing new into the undo slot or a dialog.
LEMMA HeldStays ==
  ASSUME HeldAhead, UNCHANGED used, undo' \in {undo, NoUndo}, dialog' \in {dialog, None}
  PROVE  HeldAhead'
  BY DEF HeldAhead, None

\* A save of such an array with the rows rebuilt, or a failure that gives no counter up.
LEMMA SaveCounters ==
  ASSUME Shape, FilesAhead, MemoryAhead, open, NEW j, AllAhead(j, used),
         (Saved(j) /\ rows' = j) \/ (SaveFails(j) /\ UNCHANGED rows),
         UNCHANGED <<cur, open, dirty, used>>, ~excused', HeldAhead'
  PROVE  Counters'
<1>1. FilesAhead' /\ AllAhead(json', used)
  BY SaveAhead
<1>2. AllAhead(rows', used)
  BY DEF MemoryAhead
<1> QED
  BY <1>1, <1>2 DEF Counters, MemoryAhead

\* The restored token is not behind: what the slot held was not.
LEMMA UndoCounters ==
  ASSUME Order, Ranges, Counters, ~excused, ~askew, Undo, ~excused'
  PROVE  Counters'
<1>1. /\ Shape /\ FilesAhead /\ MemoryAhead /\ HeldAhead /\ (dirty => open)
      /\ UNCHANGED <<cur, open, dirty, dialog, used>>
  BY DEF Undo, Order, Counters
<1>2. CASE undo' = undo
  <2>1. UNCHANGED <<json, files, rows>>
    BY <1>2 DEF Undo
  <2> QED
    BY <1>1, <1>2, <2>1 DEF Counters, FilesAhead, MemoryAhead, HeldAhead
<1>3. CASE undo' # undo
  <2> DEFINE at == IF undo.pos <= Len(json) + 1 THEN undo.pos ELSE Len(json) + 1
             j == InsertAt(json, at, undo.token)
  <2>1. /\ undo # NoUndo /\ open /\ undo' = NoUndo
        /\ (Saved(j) /\ rows' = j) \/ (SaveFails(j) /\ UNCHANGED rows)
    BY <1>3 DEF Undo
  <2>2. json \in Seq(Token) /\ undo.token \in Token /\ undo.pos \in Nat \ {0}
    BY <1>1, <2>1 DEF Shape
  <2>3. at \in 1..(Len(json) + 1)
    BY <2>2
  <2> HIDE DEF at
  <2>4. j \in Seq(Token) /\ Inserted(j, json, at, undo.token)
    BY <2>2, <2>3, InsertAtSeq
  <2>5. AllAhead(json, used) /\ Ahead(undo.token, used)
    BY <1>1, <2>1 DEF MemoryAhead, HeldAhead
  <2>6. AllAhead(j, used)
    BY <2>2, <2>3, <2>4, <2>5, AheadInserted
  <2>7. HeldAhead'
    BY <1>1, <2>1, HeldStays
  <2> HIDE DEF j
  <2> QED
    BY <1>1, <2>1, <2>6, <2>7, SaveCounters
<1> QED
  BY <1>2, <1>3

\* A move writes both files, and with the source the counters that waited.
LEMMA MoveCounters ==
  ASSUME Order, Counters, ~excused, ~askew, Move
  PROVE  Counters'
<1> DEFINE rest == Without(dialog.pos)
           more == Append(files[Other], dialog.token)
<1>1. /\ Shape /\ FilesAhead /\ MemoryAhead /\ HeldAhead
      /\ open /\ dialog.kind = "move" /\ dialog' = None
      /\ files' = [files EXCEPT ![Other] = more, ![cur] = rest]
      /\ json' = rest /\ rows' = json'
      /\ UNCHANGED <<cur, open, dirty, undo, used>>
  BY DEF Move, Order, Counters, history
<1>2. /\ files \in [Dbs -> Seq(Token)] /\ json \in Seq(Token) /\ dialog.token \in Token
      /\ cur \in Dbs /\ Other \in Dbs /\ Other # cur
  BY <1>1, OtherDb DEF Shape
<1>3. AllAhead(json, used) /\ AllAhead(files[Other], used) /\ Ahead(dialog.token, used)
  BY <1>1, <1>2 DEF MemoryAhead, FilesAhead, HeldAhead
<1>4. AllAhead(rest, used)
  BY <1>2, <1>3, AheadRemoved DEF Without
<1>5. AllAhead(more, used)
  <2>1. files[Other] \in Seq(Token)
    BY <1>2
  <2> QED
    <3>1. /\ more \in Seq(Token)
          /\ Inserted(more, files[Other], Len(files[Other]) + 1, dialog.token)
          /\ Len(files[Other]) + 1 \in 1..(Len(files[Other]) + 1)
      BY <1>2, <2>1, AppendInserts
    <3> HIDE DEF more
    <3> QED
      BY <1>3, <2>1, <3>1, AheadInserted
<1> HIDE DEF rest, more
<1>6. \A d \in Dbs : files'[d] = IF d = cur THEN rest ELSE IF d = Other THEN more ELSE files[d]
  BY <1>1, <1>2
<1>7. FilesAhead'
  <2> SUFFICES ASSUME NEW d \in Dbs PROVE AllAhead(files'[d], used) \/ (d = cur /\ dirty)
    BY <1>1 DEF FilesAhead
  <2> QED
    BY <1>1, <1>4, <1>5, <1>6 DEF FilesAhead
<1>8. MemoryAhead'
  BY <1>1, <1>4 DEF MemoryAhead
<1>9. HeldAhead'
  BY <1>1, HeldStays
<1> QED
  BY <1>1, <1>7, <1>8, <1>9 DEF Counters

\* No step takes a counter behind a code that was shown, unless it gives counters up.
LEMMA NextCounters == Order /\ Ranges /\ Places /\ Counters /\ [Next]_vars => Counters'
<1> SUFFICES ASSUME Order, Ranges, Places, Counters, [Next]_vars, ~excused', ~askew'
             PROVE  Counters'
  BY DEF Counters
<1>a. /\ ~askew /\ ~excused /\ Shape /\ FilesAhead /\ MemoryAhead /\ HeldAhead
      /\ (dirty => open) /\ cur \in Dbs
  BY StaysAskew, StaysExcused DEF Order, Shape, Counters
<1>e. AllAhead(<< >>, used)
  BY DEF AllAhead
<1>f. ASSUME NEW o \in FlushOutcomes, files' = o.files, UNCHANGED used, ~o.excused
      PROVE  FilesAhead' /\ o.json = json /\ ~o.dirty
  <2>1. (\A d \in Dbs : AllAhead(o.files[d], used)) /\ o.json = json /\ ~o.dirty
    BY <1>a, <1>f, FlushAhead
  <2> QED
    BY <1>f, <2>1 DEF FilesAhead
<1>1. CASE FlushTimer
  <2>1. PICK o \in FlushOutcomes : /\ files' = o.files /\ json' = o.json
                                   /\ dirty' = o.dirty /\ excused' = o.excused
    BY <1>1 DEF FlushTimer
  <2>2. UNCHANGED <<open, rows, undo, dialog, used>>
    BY <1>1 DEF FlushTimer
  <2>3. ~o.excused
    BY <2>1, Zenon
  <2>4. FilesAhead' /\ json' = json /\ ~dirty'
    BY <1>f, <2>1, <2>2, <2>3
  <2> QED
    BY <1>a, <2>2, <2>4, HeldStays DEF Counters, MemoryAhead
<1>2. CASE Lock
  <2>1. PICK o \in FlushOutcomes : files' = o.files /\ excused' = o.excused
    BY <1>2 DEF Lock
  <2>2. UNCHANGED used /\ ~open' /\ ~dirty' /\ undo' = NoUndo /\ dialog' = Deselected
    BY <1>2 DEF Lock, Forgotten
  <2>3. ~o.excused
    BY <2>1, Zenon
  <2>4. HeldAhead'
    <3>1. CASE dialog.kind = "delete"
      <4>1. dialog \in [kind : {"delete"}, pos : Nat]
        BY <3>1 DEF Ranges, Dialogs, None
      <4>2. dialog' = [dialog EXCEPT !.pos = 0]
        BY <2>2, <3>1 DEF Deselected
      <4> QED
        BY <2>2, <4>1, <4>2 DEF HeldAhead
    <3>2. CASE dialog.kind # "delete"
      BY <1>a, <2>2, <3>2, HeldStays DEF Deselected
    <3> QED
      BY <3>1, <3>2
  <2> QED
    BY <1>f, <2>1, <2>2, <2>3, <2>4 DEF Counters, MemoryAhead
<1>3. CASE Switch
  <2>1. PICK o \in FlushOutcomes : /\ files' = o.files /\ dirty' = o.dirty
                                   /\ excused' = o.excused
    BY <1>3 DEF Switch
  <2>2. UNCHANGED <<undo, dialog, used>> /\ ~open'
    BY <1>3 DEF Switch
  <2>3. ~o.excused
    BY <2>1, Zenon
  <2> QED
    BY <1>a, <1>f, <2>1, <2>2, <2>3, HeldStays DEF Counters, MemoryAhead
<1>4. CASE SetGroup
  <2>1. /\ open /\ UNCHANGED <<cur, open, dirty, undo, dialog, used>>
        /\ (Saved(json) /\ rows' = json) \/ (SaveFails(json) /\ UNCHANGED rows)
    BY <1>4 DEF SetGroup, Idle
  <2>2. AllAhead(json, used) /\ HeldAhead'
    BY <1>a, <2>1, HeldStays DEF MemoryAhead
  <2> QED
    BY <1>a, <2>1, <2>2, SaveCounters
<1>5. CASE Edit
  <2>1. /\ open /\ UNCHANGED <<cur, open, dirty, undo, used>> /\ dialog' = None
        /\ Saved(json) /\ rows' = json
    BY <1>5 DEF Edit
  <2>2. AllAhead(json, used) /\ HeldAhead'
    BY <1>a, <2>1, HeldStays DEF MemoryAhead
  <2> QED
    BY <1>a, <2>1, <2>2, SaveCounters
<1>6. CASE Delete
  <2> DEFINE p == dialog.pos
             j == RemoveAt(json, p)
  <2>1. /\ open /\ p \in DOMAIN json /\ UNCHANGED <<cur, open, dirty, used>>
        /\ dialog' = None /\ undo' = [token |-> json[p], pos |-> p]
        /\ Saved(j) /\ rows' = j
    BY <1>6 DEF Delete, Saved
  <2>2. json \in Seq(Token) /\ AllAhead(json, used)
    BY <1>a, <2>1 DEF Shape, MemoryAhead
  <2>3. AllAhead(j, used)
    BY <2>1, <2>2, AheadRemoved
  <2>4. Ahead(json[p], used)
    BY <2>1, <2>2 DEF AllAhead
  <2>5. HeldAhead'
    BY <2>1, <2>4 DEF HeldAhead, None
  <2> HIDE DEF j
  <2> QED
    BY <1>a, <2>1, <2>3, <2>5, SaveCounters
<1>7. CASE DeleteFails
  <2> DEFINE p == dialog.pos
             j == RemoveAt(json, p)
  <2>1. /\ open /\ p \in DOMAIN json /\ UNCHANGED <<cur, open, dirty, used, rows>>
        /\ dialog' = None /\ undo' = NoUndo /\ SaveFails(j)
    BY <1>7 DEF DeleteFails
  <2>2. json \in Seq(Token) /\ AllAhead(json, used)
    BY <1>a, <2>1 DEF Shape, MemoryAhead
  <2>3. AllAhead(j, used)
    BY <2>1, <2>2, AheadRemoved
  <2>4. HeldAhead'
    BY <1>a, <2>1, HeldStays
  <2> HIDE DEF j
  <2> QED
    BY <1>a, <2>1, <2>3, <2>4, SaveCounters
<1>8. CASE Undo
  BY <1>8, <1>a, UndoCounters
<1>9. CASE Move
  BY <1>9, <1>a, MoveCounters
<1>10. CASE MoveHalf
  BY <1>10 DEF MoveHalf
<1>11. CASE Unlock
  <2>1. /\ ~open /\ json' = files[cur] /\ rows' = json'
        /\ UNCHANGED <<files, cur, dirty, undo, dialog, used>>
        /\ open' /\ ~dirty
    BY <1>11, <1>a DEF Unlock, history
  <2>2. AllAhead(files[cur], used)
    BY <1>a, <2>1 DEF FilesAhead
  <2>3. FilesAhead' /\ HeldAhead'
    BY <1>a, <2>1, HeldStays DEF FilesAhead
  <2> QED
    BY <2>1, <2>2, <2>3 DEF Counters, MemoryAhead
<1>12. CASE OpenOther
  <2>1. /\ open /\ UNCHANGED <<files, open, dirty, undo, dialog, used>>
    BY <1>12 DEF OpenOther, Idle
  <2>2. HeldAhead'
    BY <1>a, <2>1, HeldStays
  <2>3. CASE cur' = Other /\ json' = files[Other] /\ rows' = json' /\ excused' = (excused \/ dirty)
    <3>1. ~dirty
      BY <2>3, Zenon
    <3>2. \A d \in Dbs : AllAhead(files[d], used)
      BY <1>a, <3>1 DEF FilesAhead
    <3>3. Other \in Dbs
      BY <1>a, OtherDb
    <3> QED
      BY <2>1, <2>2, <2>3, <3>1, <3>2, <3>3 DEF Counters, FilesAhead, MemoryAhead
  <2>4. CASE rows' = << >> /\ UNCHANGED <<cur, json>>
    BY <1>a, <1>e, <2>1, <2>2, <2>4 DEF Counters, FilesAhead, MemoryAhead
  <2> QED
    BY <1>12, <2>3, <2>4 DEF OpenOther
<1>13. CASE Cancel \/ ToastGone \/ UNCHANGED vars
  <2>1. UNCHANGED <<files, cur, open, json, rows, dirty, undo, used>> /\ dialog' \in {dialog, None}
    BY <1>13 DEF Cancel, ToastGone, history, vars
  <2> QED
    BY <1>a, <2>1, HeldStays DEF Counters, FilesAhead, MemoryAhead
<1>14. ASSUME NEW i \in 1..MaxLen, Activate(i) PROVE Counters'
  BY <1>14, <1>a, ActivateCounters
<1>15. ASSUME NEW i \in 1..MaxLen, AskDelete(i) \/ AskEdit(i) \/ AskMove(i) PROVE Counters'
  <2>1. open /\ UNCHANGED <<files, cur, open, json, rows, dirty, undo, used>>
    BY <1>15 DEF AskDelete, AskEdit, AskMove, Idle, history
  <2>2. /\ dialog'.kind \in {"edit", "move"} => i \in DOMAIN json /\ dialog'.token = json[i]
    BY <1>15 DEF AskDelete, AskEdit, AskMove
  <2>3. HeldAhead'
    BY <1>a, <2>1, <2>2 DEF HeldAhead, MemoryAhead, AllAhead
  <2> QED
    BY <1>a, <2>1, <2>3 DEF Counters, FilesAhead, MemoryAhead
<1>16. ASSUME NEW i \in 1..MaxLen, NEW k \in 1..MaxLen, Drop(i, k) PROVE Counters'
  <2> DEFINE j == Reordered(i, k)
  <2>1. /\ open /\ {i, k} \subseteq DOMAIN rows /\ rows' = Moved(rows, i, k)
        /\ UNCHANGED <<cur, open, dirty, undo, dialog, used>> /\ Saved(j)
    BY <1>16 DEF Drop, Idle
  <2>2. /\ json \in Seq(Token) /\ AllAhead(json, used)
        /\ rows \in Seq(Token) /\ AllAhead(rows, used)
    BY <1>a, <2>1 DEF Shape, MemoryAhead
  <2>3. AllAhead(j, used)
    BY <2>2, AheadMoved, AheadRemoved DEF Reordered
  <2>4. AllAhead(rows', used)
    BY <2>1, <2>2, AheadMoved
  <2> HIDE DEF j
  <2>5. FilesAhead' /\ AllAhead(json', used)
    BY <1>a, <2>1, <2>3, SaveAhead
  <2> QED
    BY <1>a, <2>1, <2>4, <2>5, HeldStays DEF Counters, MemoryAhead
<1> QED
  BY <1>1, <1>2, <1>3, <1>4, <1>5, <1>6, <1>7, <1>8, <1>9, <1>10, <1>11, <1>12, <1>13,
     <1>14, <1>15, <1>16 DEF Next

\* In the beginning no code was shown.
LEMMA InitCounters == Init => Counters
<1> SUFFICES ASSUME Init PROVE Counters
  OBVIOUS
<1>1. /\ ~dirty /\ ~open /\ undo = NoUndo /\ dialog = None
      /\ used = [t \in Hotp |-> 0]
  BY DEF Init
<1>2. PICK s \in [Dbs -> UNION {[1..n -> [id : Tokens, ctr : {0}]] : n \in 0..MaxLen}] :
        files = s
  BY DEF Init
<1>3. ASSUME NEW d \in Dbs, NEW i \in DOMAIN files[d] PROVE Ahead(files[d][i], used)
  <2>1. PICK n \in 0..MaxLen : files[d] \in [1..n -> [id : Tokens, ctr : {0}]]
    BY <1>2
  <2>2. files[d][i] \in [id : Tokens, ctr : {0}]
    BY <1>3, <2>1
  <2>3. files[d][i].ctr = 0
    BY <2>2
  <2> QED
    BY <1>1, <2>3 DEF Ahead
<1>4. FilesAhead
  BY <1>3 DEF FilesAhead, AllAhead
<1> QED
  BY <1>1, <1>4 DEF Counters, MemoryAhead, HeldAhead, None

\* Wherever a token is, its counter is not behind its codes.
LEMMA Counted == Spec => []Counters
  BY InitCounters, NextCounters, Ordered, Ranged, Placed, PTL DEF Spec

\* Once no flush is pending the file is not behind a code that was handed out, whatever
\* edits, moves, undos, locks and switches came in between, but for the counters that a
\* failed save or "Open Database" gave up.
THEOREM Reaching == Spec => []CountersReachFile
<1>1. Counters => CountersReachFile
  <2> SUFFICES ASSUME Counters, ~dirty, ~excused, ~askew, NEW t \in Hotp,
                      NEW d \in Dbs, NEW i \in DOMAIN files[d], files[d][i].id = t
               PROVE  files[d][i].ctr >= used[t]
    BY DEF CountersReachFile, Stored
  <2> QED
    BY DEF Counters, FilesAhead, AllAhead, Ahead
<1> QED
  BY <1>1, Counted, PTL

\* No HOTP code is handed out twice, with the same exceptions: the row that shows a code
\* is never behind an earlier one, so that its next counter is a new one.
THEOREM NoneAgain == Spec => NoCodeTwice
<1>1. Order /\ Ranges /\ Counters /\ [Next]_vars
      => [\A i \in DOMAIN rows :
            Activate(i) /\ ~excused /\ ~askew => used'[rows[i].id] > used[rows[i].id]]_vars
  <2> SUFFICES ASSUME Order, Ranges, Counters, NEW i \in DOMAIN rows,
                      Activate(i), ~excused, ~askew
               PROVE  used'[rows[i].id] > used[rows[i].id]
    OBVIOUS
  <2> DEFINE t == rows[i].id
  <2>1. /\ t \in Hotp /\ rows[i].ctr + 1 \in Nat /\ used[t] \in Nat
        /\ used[t] < rows[i].ctr + 1
        /\ used' = [used EXCEPT ![t] = rows[i].ctr + 1]
    BY ActivateCodes
  <2>2. used \in [Hotp -> 0..MaxCounter]
    BY DEF Ranges
  <2>3. used'[t] = rows[i].ctr + 1
    BY <2>1, <2>2
  <2> QED
    BY <2>1, <2>3
<1> QED
  BY <1>1, Ordered, Ranged, Counted, PTL DEF Spec, NoCodeTwice
=============================================================================
