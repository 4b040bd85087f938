--------------------------- MODULE VersionedStore ---------------------------
(***************************************************************************)
(* What the database file promises its handles, without its mechanism: one *)
(* linear history of versions and optimistic concurrency.  A commit is     *)
(* made from the latest version, by a client that read it; the exceptions  *)
(* are named.  DbStore implements this: see DbStore!Store.                 *)
(***************************************************************************)
EXTENDS Naturals, Sequences

CONSTANTS
  Clients,   \* the handles
  Tokens,    \* what a version is a set of
  Opaque     \* the tokens a client can hold but never look into

VARIABLES
  guarded,   \* are commits serialised?  (the filesystem has locks)
  hist,      \* the versions, in order
  snap,      \* the version each client's data comes from, 0 for none
  settling,  \* clients that committed and have not yet looked at the file again
  blind      \* clients a later commit came in on while they were settling

vars == <<guarded, hist, snap, settling, blind>>

Latest == Len(hist)

Init ==
  /\ guarded \in BOOLEAN
  /\ \E start \in {<< >>} \cup {<<T>> : T \in SUBSET Tokens} : hist = start
  /\ snap = [c \in Clients |-> 0]
  /\ settling = {}
  /\ blind = {}

\* A client reads the latest version whole.
Read(c) ==
  /\ Latest > 0
  /\ snap' = [snap EXCEPT ![c] = Latest]
  /\ settling' = settling \ {c}
  /\ blind' = blind \ {c}
  /\ UNCHANGED <<guarded, hist>>

\* A client may write over the latest version if it holds it, if it holds no
\* version at all, or if it is blind.
May(c) == snap[c] = Latest \/ snap[c] = 0 \/ c \in blind \/ ~guarded

\* A commit changes what it can look into and carries the rest along.
Commit(c, T) ==
  /\ May(c)
  /\ T \cap Opaque = IF snap[c] = 0 THEN {} ELSE hist[snap[c]] \cap Opaque
  /\ hist' = Append(hist, T)
  /\ snap' = [snap EXCEPT ![c] = Latest + 1]
  /\ settling' = settling \cup {c}
  /\ blind' = (blind \cup settling) \ {c}
  /\ UNCHANGED guarded

Settle(c) ==
  /\ c \in settling
  /\ settling' = settling \ {c}
  /\ UNCHANGED <<guarded, hist, snap, blind>>

\* The client locks, ends or crashes.
Forget(c) ==
  /\ snap' = [snap EXCEPT ![c] = 0]
  /\ settling' = settling \ {c}
  /\ blind' = blind \ {c}
  /\ UNCHANGED <<guarded, hist>>

Next ==
  \E c \in Clients :
    Read(c) \/ Settle(c) \/ Forget(c) \/ \E T \in SUBSET Tokens : Commit(c, T)

Spec == Init /\ [][Next]_vars
=============================================================================
