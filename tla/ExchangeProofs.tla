--------------------------- MODULE ExchangeProofs ---------------------------
(***************************************************************************)
(* What imports, counters and saves do to the tokens of the database file, *)
(* for any number of runs, any files and any bounds.  The first part is    *)
(* about the operators: what Pick takes out of a sequence, what a backup   *)
(* file reads as, what Imported makes of it, and that each format gives    *)
(* back the tokens that were written in it.  The second part is the        *)
(* invariant, and the theorems.                                            *)
(***************************************************************************)
EXTENDS Exchange, SequenceTheorems, FiniteSetTheorems, TLAPS

\* A sequence, said without naming a set that its elements are from.
Listed(s) == \E n \in Nat : s = [i \in 1..n |-> s[i]]

\* A listed sequence has a length and stands in Seq.
LEMMA ListedSeq ==
  ASSUME NEW s, Listed(s)
  PROVE  /\ Len(s) \in Nat /\ DOMAIN s = 1..Len(s)
         /\ s \in Seq(ToSet(s)) /\ s = [i \in 1..Len(s) |-> s[i]]
<1>1. PICK n \in Nat : s = [i \in 1..n |-> s[i]]
  BY DEF Listed
<1>2. DOMAIN s = 1..n
  BY <1>1
<1>3. s \in [1..n -> ToSet(s)]
  BY <1>1, <1>2 DEF ToSet
<1>4. s \in Seq(ToSet(s))
  BY <1>3
<1> QED
  BY <1>1, <1>2, <1>4, LenProperties

\* What stands in Seq is listed.
LEMMA SeqListed ==
  ASSUME NEW S, NEW s \in Seq(S)
  PROVE  Listed(s)
<1>1. Len(s) \in Nat /\ s \in [1..Len(s) -> S]
  BY LenProperties
<1> QED
  BY <1>1 DEF Listed

\* A function over 1..n is listed.
LEMMA FunctionListed ==
  ASSUME NEW n \in Nat, NEW s, s = [i \in 1..n |-> s[i]]
  PROVE  Listed(s) /\ Len(s) = n /\ DOMAIN s = 1..n
<1>1. Listed(s)
  BY DEF Listed
<1>2. DOMAIN s = 1..n /\ DOMAIN s = 1..Len(s) /\ Len(s) \in Nat
  BY <1>1, ListedSeq
<1>3. s \in [1..n -> ToSet(s)]
  BY <1>2 DEF ToSet
<1>4. Len(s) = n
  BY <1>3, LenProperties
<1> QED
  BY <1>1, <1>2, <1>4

\* One sequence behind another.
LEMMA Joined ==
  ASSUME NEW s, NEW t, Listed(s), Listed(t)
  PROVE  /\ Listed(s \o t) /\ Len(s \o t) = Len(s) + Len(t)
         /\ \A i \in 1..Len(s) : (s \o t)[i] = s[i]
         /\ \A i \in 1..Len(t) : (s \o t)[Len(s) + i] = t[i]
<1> DEFINE S == ToSet(s) \cup ToSet(t)
<1>1. s \in Seq(ToSet(s)) /\ t \in Seq(ToSet(t)) /\ Len(s) \in Nat /\ Len(t) \in Nat
  BY ListedSeq
<1>2. s \in Seq(S) /\ t \in Seq(S)
  <2>1. ToSet(s) \subseteq S /\ ToSet(t) \subseteq S
    OBVIOUS
  <2> QED
    BY <1>1, <2>1
<1> HIDE DEF S
<1>3. /\ s \o t \in Seq(S) /\ Len(s \o t) = Len(s) + Len(t)
      /\ \A i \in 1..(Len(s) + Len(t)) :
           (s \o t)[i] = IF i <= Len(s) THEN s[i] ELSE t[i - Len(s)]
  BY <1>2, ConcatProperties
<1>4. \A i \in 1..Len(s) : (s \o t)[i] = s[i]
  BY <1>1, <1>3
<1>5. \A i \in 1..Len(t) : (s \o t)[Len(s) + i] = t[i]
  <2> TAKE i \in 1..Len(t)
  <2>1. Len(s) + i \in 1..(Len(s) + Len(t)) /\ ~(Len(s) + i <= Len(s)) /\ (Len(s) + i) - Len(s) = i
    BY <1>1
  <2> QED
    BY <1>3, <2>1
<1> QED
  BY <1>3, <1>4, <1>5, SeqListed

-----------------------------------------------------------------------------
(* Pick.                                                                    *)

\* How many of the positions in I come no later than i.
Rank(I, i) == Cardinality({j \in I : j <= i})

\* Every number up to the size of a set of positions is the rank of one: ranks are
\* distinct, and there are as many as positions.
LEMMA Ranks ==
  ASSUME NEW n \in Nat, NEW I \in SUBSET (1..n)
  PROVE  /\ Cardinality(I) \in Nat
         /\ \A k \in 1..Cardinality(I) : \E i \in I : Rank(I, i) = k
         /\ \A i \in I : Rank(I, i) \in 1..Cardinality(I)
         /\ \A i, j \in I : i < j => Rank(I, i) < Rank(I, j)
<1> DEFINE upTo(i) == {j \in I : j <= i}
           rank == [i \in I |-> Rank(I, i)]
           card == Cardinality(I)
<1>1. IsFiniteSet(I) /\ card \in Nat
  <2>1. IsFiniteSet(1..n)
    BY FS_Interval
  <2> QED
    BY <2>1, FS_Subset, FS_CardinalityType
<1>2. \A i \in I : IsFiniteSet(upTo(i)) /\ Cardinality(upTo(i)) \in Nat /\ Cardinality(upTo(i)) <= card
  <2> TAKE i \in I
  <2>1. upTo(i) \in SUBSET I
    OBVIOUS
  <2> HIDE DEF upTo
  <2> QED
    BY <1>1, <2>1, FS_Subset, FS_CardinalityType
<1>3. \A i \in I : Cardinality(upTo(i)) >= 1
  <2> TAKE i \in I
  <2>1. i \in upTo(i)
    OBVIOUS
  <2> HIDE DEF upTo
  <2>2. Cardinality(upTo(i)) # 0
    BY <1>2, <2>1, FS_EmptySet
  <2> QED
    BY <1>2, <2>2
<1>4. rank \in [I -> 1..card]
  BY <1>1, <1>2, <1>3 DEF Rank
<1>5. \A i, j \in I : i < j => rank[i] < rank[j]
  <2> SUFFICES ASSUME NEW i \in I, NEW j \in I, i < j PROVE Cardinality(upTo(i)) < Cardinality(upTo(j))
    BY DEF Rank
  <2>1. upTo(i) \in SUBSET upTo(j) /\ upTo(i) # upTo(j)
    <3>1. i \in Int /\ j \in Int /\ \A l \in I : l \in Int
      OBVIOUS
    <3>2. \A l \in I : l <= i => l <= j
      BY <3>1
    <3>3. j \in upTo(j) /\ j \notin upTo(i)
      BY <3>1
    <3> QED
      BY <3>2, <3>3
  <2>2. IsFiniteSet(upTo(j)) /\ Cardinality(upTo(i)) \in Nat /\ Cardinality(upTo(j)) \in Nat
    BY <1>2
  <2> HIDE DEF upTo
  <2>3. Cardinality(upTo(i)) <= Cardinality(upTo(j)) /\ Cardinality(upTo(i)) # Cardinality(upTo(j))
    BY <2>1, <2>2, FS_Subset
  <2> QED
    BY <2>2, <2>3
<1>6. rank \in Injection(I, 1..card)
  <2>1. \A i, j \in I : rank[i] = rank[j] => i = j
    <3> SUFFICES ASSUME NEW i \in I, NEW j \in I, rank[i] = rank[j], i # j PROVE FALSE
      OBVIOUS
    <3> HIDE DEF rank
    <3>1. i < j \/ j < i
      OBVIOUS
    <3> QED
      BY <1>4, <1>5, <3>1
  <2> HIDE DEF rank
  <2> QED
    BY <1>4, <2>1 DEF Injection, IsInjective
<1>7. rank \in Surjection(I, 1..card)
  <2>1. IsFiniteSet(1..card) /\ Cardinality(1..card) = card
    BY <1>1, FS_Interval
  <2> HIDE DEF rank, card
  <2> QED
    BY <1>6, <2>1, FS_Injection DEF card
<1>8. \A i \in I : rank[i] = Rank(I, i)
  OBVIOUS
<1> HIDE DEF rank
<1> QED
  BY <1>1, <1>4, <1>5, <1>7, <1>8 DEF Surjection

\* Pick takes elements of s at distinct positions, all in I, and makes a sequence of
\* them.
LEMMA PickFacts ==
  ASSUME NEW s, Listed(s), NEW I \in SUBSET (DOMAIN s)
  PROVE  /\ Listed(Pick(s, I))
         /\ \E at \in [DOMAIN Pick(s, I) -> I] :
              /\ \A k \in DOMAIN Pick(s, I) : Pick(s, I)[k] = s[at[k]]
              /\ \A k, l \in DOMAIN Pick(s, I) : at[k] = at[l] => k = l
<1> DEFINE nth(k) == CHOOSE i \in I : Rank(I, i) = k
           at == [k \in 1..Cardinality(I) |-> nth(k)]
<1>1. Len(s) \in Nat /\ I \in SUBSET (1..Len(s))
  BY ListedSeq
<1>2. Cardinality(I) \in Nat /\ \A k \in 1..Cardinality(I) : \E i \in I : Rank(I, i) = k
  BY <1>1, Ranks
<1>3. \A k \in 1..Cardinality(I) : nth(k) \in I /\ Rank(I, nth(k)) = k
  BY <1>2
<1>4. Pick(s, I) = [k \in 1..Cardinality(I) |-> s[nth(k)]]
  BY DEF Pick, Rank
<1> HIDE DEF nth
<1>5. Listed(Pick(s, I)) /\ DOMAIN Pick(s, I) = 1..Cardinality(I)
  BY <1>2, <1>4, FunctionListed
<1>6. at \in [DOMAIN Pick(s, I) -> I]
  BY <1>3, <1>5
<1>7. \A k \in DOMAIN Pick(s, I) : Pick(s, I)[k] = s[at[k]]
  BY <1>4, <1>5
<1>8. \A k, l \in DOMAIN Pick(s, I) : at[k] = at[l] => k = l
  BY <1>3, <1>5
<1> QED
  BY <1>5, <1>6, <1>7, <1>8

\* Pick takes every element at a position in I.
LEMMA PickOnto ==
  ASSUME NEW s, Listed(s), NEW I \in SUBSET (DOMAIN s), NEW i \in I
  PROVE  \E k \in DOMAIN Pick(s, I) : Pick(s, I)[k] = s[i]
<1> DEFINE nth(k) == CHOOSE j \in I : Rank(I, j) = k
           k == Rank(I, i)
<1>1. Len(s) \in Nat /\ I \in SUBSET (1..Len(s)) /\ \A j \in I : j \in Int
  BY ListedSeq
<1>a. /\ Cardinality(I) \in Nat
      /\ \A j \in I : Rank(I, j) \in 1..Cardinality(I)
      /\ \A j, l \in I : j < l => Rank(I, j) < Rank(I, l)
  BY <1>1, Ranks
<1>2. Cardinality(I) \in Nat /\ k \in 1..Cardinality(I)
  BY <1>a
<1>3. nth(k) \in I /\ Rank(I, nth(k)) = k
  OBVIOUS
<1>4. Pick(s, I) = [l \in 1..Cardinality(I) |-> s[nth(l)]]
  BY DEF Pick, Rank
<1>5. nth(k) = i
  <2> DEFINE j == nth(k)
  <2>1. j \in I /\ Rank(I, j) = Rank(I, i)
    BY <1>3
  <2> HIDE DEF j
  <2>2. Rank(I, j) \in Int /\ Rank(I, i) \in Int
    BY <1>a, <2>1
  <2>3. ~(j < i) /\ ~(i < j)
    BY <1>a, <2>1, <2>2
  <2>4. j = i
    BY <1>1, <2>1, <2>3
  <2> QED
    BY <2>4 DEF j
<1> HIDE DEF nth, k
<1>6. k \in DOMAIN Pick(s, I) /\ Pick(s, I)[k] = s[nth(k)]
  BY <1>2, <1>4
<1> QED
  BY <1>5, <1>6

\* Pick leaves a sequence as it is when it takes all of it.
LEMMA PickAll ==
  ASSUME NEW s, Listed(s)
  PROVE  Pick(s, DOMAIN s) = s
<1> DEFINE n == Len(s)
           I == 1..n
           nth(k) == CHOOSE i \in I : Rank(I, i) = k
<1>1. n \in Nat /\ DOMAIN s = I /\ s = [i \in I |-> s[i]]
  BY ListedSeq
<1> HIDE DEF n
<1>2. Cardinality(I) = n
  BY <1>1, FS_Interval
<1>3. \A i \in I : Rank(I, i) = i
  <2> TAKE i \in I
  <2>1. {j \in I : j <= i} = 1..i /\ i \in Nat
    BY <1>1
  <2>2. Cardinality(1..i) = i
    BY <2>1, FS_Interval
  <2> QED
    BY <2>1, <2>2 DEF Rank
<1>4. Pick(s, I) = [k \in 1..n |-> s[nth(k)]]
  BY <1>2 DEF Pick, Rank
<1>5. \A k \in 1..n : nth(k) = k
  BY <1>3
<1> HIDE DEF nth
<1> QED
  BY <1>1, <1>4, <1>5

\* Of two sequences Pick takes the first element at the same position.
LEMMA PickSame ==
  ASSUME NEW s, NEW t, Listed(s), Listed(t), DOMAIN s = DOMAIN t,
         NEW I \in SUBSET (DOMAIN s), I # {}
  PROVE  \E i \in I : Pick(s, I)[1] = s[i] /\ Pick(t, I)[1] = t[i]
<1>1. Len(s) \in Nat /\ I \in SUBSET (1..Len(s))
  BY ListedSeq
<1>2. PICK j \in I : TRUE
  OBVIOUS
<1>3. Cardinality(I) \in Nat /\ Rank(I, j) \in 1..Cardinality(I)
  BY <1>1, <1>2, Ranks
<1>4. 1 \in 1..Cardinality(I)
  BY <1>3
<1> DEFINE nth(k) == CHOOSE i \in I : Rank(I, i) = k
<1>5. nth(1) \in I
  BY <1>1, <1>4, Ranks
<1>6. /\ Pick(s, I) = [k \in 1..Cardinality(I) |-> s[nth(k)]]
      /\ Pick(t, I) = [k \in 1..Cardinality(I) |-> t[nth(k)]]
  BY DEF Pick, Rank
<1> HIDE DEF nth
<1> QED
  BY <1>4, <1>5, <1>6

\* Among positions there is a first.
LEMMA FirstPosition ==
  ASSUME NEW n \in Nat, NEW I \in SUBSET (1..n), I # {}
  PROVE  \E i \in I : \A j \in I : i <= j
<1>1. PICK k \in I : TRUE
  OBVIOUS
<1>a. /\ Cardinality(I) \in Nat
      /\ \A i \in I : Rank(I, i) \in 1..Cardinality(I)
      /\ \A i, j \in I : i < j => Rank(I, i) < Rank(I, j)
      /\ \A l \in 1..Cardinality(I) : \E i \in I : Rank(I, i) = l
  BY Ranks
<1>2. \A i \in I : i \in Int /\ Rank(I, i) \in Int
  BY <1>a
<1>3. 1 \in 1..Cardinality(I)
  BY <1>a, <1>1
<1>4. PICK i \in I : Rank(I, i) = 1
  BY <1>a, <1>3
<1>5. ASSUME NEW j \in I PROVE i <= j
  <2>1. ~(Rank(I, j) < 1)
    BY <1>a
  <2> QED
    BY <1>a, <1>2, <1>4, <2>1
<1> QED
  BY <1>5

-----------------------------------------------------------------------------
(* What is read and written.                                                *)

\* A sequence of tokens, like TokenList.
Tokens(T) == Listed(T) /\ \A i \in DOMAIN T : IsToken(T[i])

\* The two ways to say it agree.
LEMMA TokensList ==
  ASSUME NEW T
  PROVE  Tokens(T) <=> TokenList(T)
<1>1. Tokens(T) => TokenList(T)
  BY ListedSeq DEF Tokens, TokenList
<1>2. TokenList(T) => Tokens(T)
  BY SeqListed DEF Tokens, TokenList
<1> QED
  BY <1>1, <1>2

\* The empty sequence holds nothing.
LEMMA EmptyTokens == Tokens(<< >>) /\ Len(<< >>) = 0 /\ DOMAIN << >> = {}
<1>1. << >> \in Seq({}) /\ Len(<< >>) = 0
  BY EmptySeq
<1>2. Listed(<< >>)
  BY <1>1, SeqListed
<1>3. DOMAIN << >> = {}
  BY <1>1, <1>2, ListedSeq
<1> QED
  BY <1>1, <1>2, <1>3 DEF Tokens

\* What is picked from tokens are tokens.
LEMMA PickTokens ==
  ASSUME NEW T, Tokens(T), NEW I \in SUBSET (DOMAIN T)
  PROVE  Tokens(Pick(T, I))
<1>1. Listed(T)
  BY DEF Tokens
<1>2. /\ Listed(Pick(T, I))
      /\ \E at \in [DOMAIN Pick(T, I) -> I] :
           \A k \in DOMAIN Pick(T, I) : Pick(T, I)[k] = T[at[k]]
  BY <1>1, PickFacts
<1> QED
  BY <1>2 DEF Tokens

\* Something made of each element of a sequence.
LEMMA MadeListed ==
  ASSUME NEW s, Listed(s), NEW f, f = [i \in DOMAIN s |-> f[i]]
  PROVE  Listed(f) /\ DOMAIN f = DOMAIN s
<1>1. Len(s) \in Nat /\ DOMAIN s = 1..Len(s)
  BY ListedSeq
<1>2. f = [i \in 1..Len(s) |-> f[i]]
  BY <1>1
<1> QED
  BY <1>1, <1>2, FunctionListed

\* One word is a name.
LEMMA WordName ==
  ASSUME NEW w
  PROVE  IsWords(<<w>>) /\ Len(<<w>>) = 1 /\ Listed(<<w>>)
<1> DEFINE n == <<w>>
<1>1. n \in Seq({w}) /\ Len(n) = 1 /\ n # << >>
  <2>1. n \in Seq({w}) /\ Len(n) = 1
    OBVIOUS
  <2> QED
    BY <2>1, EmptySeq
<1> HIDE DEF n
<1>2. Listed(n)
  BY <1>1, SeqListed
<1>3. n \in Seq(ToSet(n))
  BY <1>2, ListedSeq
<1> QED
  BY <1>1, <1>2, <1>3 DEF IsWords, n

\* A list that is not empty is a name.
LEMMA ListedWords ==
  ASSUME NEW n, Listed(n)
  PROVE  IsWords(n) <=> Len(n) # 0
<1>1. n \in Seq(ToSet(n))
  BY ListedSeq
<1>2. n # << >> <=> Len(n) # 0
  BY <1>1, EmptySeq
<1> QED
  BY <1>1, <1>2 DEF IsWords

\* A name has words; what is left of it without the first is a name, and so are two
\* names one behind the other.
LEMMA NameFacts ==
  ASSUME NEW n, IsWords(n)
  PROVE  /\ Listed(n) /\ Len(n) \in Nat \ {0}
         /\ Len(n) > 1 => IsWords(Tail(n))
         /\ \A m : IsWords(m) => IsWords(m \o n) /\ Len(m \o n) = Len(m) + Len(n)
<1>1. n \in Seq(ToSet(n)) /\ n # << >>
  BY DEF IsWords
<1>2. Listed(n) /\ Len(n) \in Nat \ {0}
  BY <1>1, SeqListed, LenProperties, EmptySeq
<1>3. ASSUME Len(n) > 1 PROVE IsWords(Tail(n))
  <2>1. Tail(n) \in Seq(ToSet(n)) /\ Len(Tail(n)) = Len(n) - 1
    BY <1>1, HeadTailProperties
  <2>2. Listed(Tail(n))
    BY <2>1, SeqListed
  <2>3. Len(Tail(n)) # 0
    BY <1>2, <1>3, <2>1
  <2> QED
    BY <2>2, <2>3, ListedWords
<1>4. ASSUME NEW m, IsWords(m)
      PROVE  IsWords(m \o n) /\ Len(m \o n) = Len(m) + Len(n)
  <2>1. m \in Seq(ToSet(m))
    BY <1>4 DEF IsWords
  <2>2. Listed(m) /\ Len(m) \in Nat
    BY <2>1, SeqListed, LenProperties
  <2>3. Listed(m \o n) /\ Len(m \o n) = Len(m) + Len(n)
    BY <1>2, <2>2, Joined
  <2>4. Len(m \o n) # 0
    BY <1>2, <2>2, <2>3
  <2> QED
    BY <2>3, <2>4, ListedWords
<1> QED
  BY <1>2, <1>3, <1>4

\* Without a name the empty one is meant.
LEMMA NameName ==
  ASSUME NEW n, IsName(n)
  PROVE  IsWords(Name(n)) /\ Listed(Name(n)) /\ Len(Name(n)) \in Nat \ {0}
<1>1. CASE n = Absent
  <2> DEFINE none == <<"">>
  <2>1. Name(n) = none
    BY <1>1 DEF Name, Empty
  <2>2. IsWords(none) /\ Len(none) = 1 /\ Listed(none)
    BY WordName
  <2> HIDE DEF none
  <2> QED
    BY <2>1, <2>2
<1>2. CASE n # Absent
  <2>1. Name(n) = n
    BY <1>2 DEF Name
  <2> QED
    BY <1>2, <2>1, NameFacts DEF IsName
<1> QED
  BY <1>1, <1>2

\* Repairing a token and building its object leave a token.
LEMMA RepairedToken ==
  ASSUME NEW t, IsToken(t), NEW i
  PROVE  IsToken(Repaired(t, i))
<1> DEFINE label == <<"Unknown " \o ToString(i - 1)>>
<1>0. IsName(label)
  BY WordName DEF IsName
<1> HIDE DEF label
<1>1. t = [type |-> t.type, label |-> t.label, issuer |-> t.issuer, secret |-> t.secret,
           digits |-> t.digits, value |-> t.value, group |-> t.group]
  BY DEF IsToken
<1>2. IsToken([t EXCEPT !.label = label])
  <2>1. [t EXCEPT !.label = label] =
          [type |-> t.type, label |-> label, issuer |-> t.issuer, secret |-> t.secret,
           digits |-> t.digits, value |-> t.value, group |-> t.group]
    BY <1>1
  <2> QED
    BY <1>0, <2>1 DEF IsToken
<1> QED
  BY <1>2 DEF Repaired, label

\* The object that is stored of a token, field by field.
LEMMA BuiltRecord ==
  ASSUME NEW t, IsToken(t)
  PROVE  BuildObj(t) = [type |-> t.type, label |-> Name(t.label), issuer |-> Name(t.issuer),
                        secret |-> t.secret, digits |-> t.digits, value |-> t.value,
                        group |-> IF t.group = "" THEN Absent ELSE t.group]
<1> DEFINE label == Name(t.label)
           issuer == Name(t.issuer)
           group == IF t.group = "" THEN Absent ELSE t.group
           one == [t EXCEPT !.label = label]
           two == [one EXCEPT !.issuer = issuer]
           three == [two EXCEPT !.group = group]
<1>1. t = [type |-> t.type, label |-> t.label, issuer |-> t.issuer, secret |-> t.secret,
           digits |-> t.digits, value |-> t.value, group |-> t.group]
  BY DEF IsToken
<1> HIDE DEF label, issuer, group
<1>2. one = [type |-> t.type, label |-> label, issuer |-> t.issuer, secret |-> t.secret,
             digits |-> t.digits, value |-> t.value, group |-> t.group]
  BY <1>1
<1> HIDE DEF one
<1>3. two = [type |-> t.type, label |-> label, issuer |-> issuer, secret |-> t.secret,
             digits |-> t.digits, value |-> t.value, group |-> t.group]
  BY <1>2
<1> HIDE DEF two
<1>4. three = [type |-> t.type, label |-> label, issuer |-> issuer, secret |-> t.secret,
               digits |-> t.digits, value |-> t.value, group |-> group]
  BY <1>3
<1>5. BuildObj(t) = three
  <2>1. one.issuer = t.issuer /\ two.group = t.group
    BY <1>2, <1>3
  <2>2. BuildObj(t) = [[[t EXCEPT !.label = Name(@)] EXCEPT !.issuer = Name(@)]
                         EXCEPT !.group = IF @ = "" THEN Absent ELSE @]
    BY DEF BuildObj
  <2> QED
    BY <2>1, <2>2 DEF one, two, three, label, issuer, group
<1> HIDE DEF three
<1> QED
  BY <1>4, <1>5 DEF label, issuer, group

\* It is a token.
LEMMA BuiltToken ==
  ASSUME NEW t, IsToken(t)
  PROVE  IsToken(BuildObj(t))
<1> DEFINE group == IF t.group = "" THEN Absent ELSE t.group
<1>1. BuildObj(t) = [type |-> t.type, label |-> Name(t.label), issuer |-> Name(t.issuer),
                     secret |-> t.secret, digits |-> t.digits, value |-> t.value, group |-> group]
  BY BuiltRecord
<1> HIDE DEF group
<1>2. IsName(Name(t.label)) /\ IsName(Name(t.issuer))
  BY NameName DEF IsToken, IsName
<1> DEFINE label == Name(t.label)
           issuer == Name(t.issuer)
<1> HIDE DEF label, issuer
<1> QED
  BY <1>1, <1>2 DEF IsToken, label, issuer

\* The names of a line of a text, and of an entry.
LineNames(e) == IsName(e.issuer) /\ IsWords(e.path)
EntryNames(e) == IsName(e.issuer) /\ IsName(e.name)

\* Every reader makes tokens.
LEMMA ReadersMakeTokens ==
  ASSUME NEW e, NEW entries
  PROVE  /\ LineNames(e) => IsToken(ReadUri(e))
         /\ EntryNames(e) => /\ IsToken(ReadAegis(e)) /\ IsToken(ReadTwofas(e))
                             /\ IsToken(ReadAuthpro(e, entries))
         /\ EntryNames(e) /\ GoogleKnows(e) => IsToken(ReadGoogle(e))
<1>1. ASSUME EntryNames(e), NEW type, NEW issuer, IsName(issuer), NEW value, NEW group
      PROVE  IsToken(Otp(e, type, issuer, value, group))
  BY <1>1 DEF Otp, IsToken, EntryNames
<1>2. ASSUME LineNames(e) PROVE IsToken(ReadUri(e))
  <2> DEFINE type == IF e.type = "totp" THEN "TOTP" ELSE "HOTP"
             label == IF Len(e.path) > 1 THEN Tail(e.path) ELSE e.path
             issuer == IF e.issuer # Absent THEN e.issuer
                       ELSE IF Len(e.path) > 1 THEN <<Head(e.path)>> ELSE Empty
  <2>1. ReadUri(e) = [type |-> type, label |-> label, issuer |-> issuer, secret |-> e.secret,
                      digits |-> UriDigits(e), value |-> UriValue(e), group |-> Absent]
    BY DEF ReadUri
  <2>2. IsName(label) /\ IsName(issuer)
    BY <1>2, NameFacts, WordName DEF LineNames, Empty, IsName
  <2> HIDE DEF type, label, issuer
  <2> QED
    BY <2>1, <2>2 DEF IsToken
<1>3. ASSUME EntryNames(e) PROVE IsToken(ReadAegis(e))
  BY <1>1, <1>3, WordName DEF ReadAegis, EntryNames, IsName
<1>4. ASSUME EntryNames(e) PROVE IsToken(ReadTwofas(e))
  BY <1>1, <1>4, WordName DEF ReadTwofas, EntryNames, IsName
<1>5. ASSUME EntryNames(e) PROVE IsToken(ReadAuthpro(e, entries))
  BY <1>1, <1>5, WordName DEF ReadAuthpro, EntryNames, IsName
<1>6. ASSUME EntryNames(e), GoogleKnows(e) PROVE IsToken(ReadGoogle(e))
  <2> DEFINE label == IF Len(e.name) > 1 /\ Tail(e.name) # Empty THEN Tail(e.name) ELSE e.name
             digits == IF e.digits = 8 THEN 8 ELSE 6
             value == IF e.type = "TOTP" THEN 30 ELSE Number(e.counter)
             issuer == Name(e.issuer)
  <2>1. ReadGoogle(e) = [type |-> e.type, label |-> label, issuer |-> issuer, secret |-> e.secret,
                         digits |-> digits, value |-> value, group |-> Absent]
    BY DEF ReadGoogle
  <2>2. IsName(issuer)
    BY <1>6, NameName DEF EntryNames, IsName
  <2>3. e.name # Absent
    BY <1>6 DEF GoogleKnows, Name
  <2>4. IsName(label)
    BY <1>6, <2>3, NameFacts DEF EntryNames, IsName
  <2> HIDE DEF label, digits, value, issuer
  <2> QED
    BY <2>1, <2>2, <2>4 DEF IsToken
<1> QED
  BY <1>2, <1>3, <1>4, <1>5, <1>6

\* What is picked is a sequence of elements from the positions asked for.
LEMMA PickListed ==
  ASSUME NEW s, Listed(s), NEW I \in SUBSET (DOMAIN s)
  PROVE  /\ Listed(Pick(s, I))
         /\ \A k \in DOMAIN Pick(s, I) : \E i \in I : Pick(s, I)[k] = s[i]
<1> QED
  BY PickFacts

\* A file of URIs reads as tokens.
LEMMA UrisRead ==
  ASSUME NEW uris, Listed(uris), \A i \in DOMAIN uris : LineNames(uris[i])
  PROVE  Tokens(ReadUris(uris))
<1> DEFINE good == {i \in DOMAIN uris : Parses(uris[i]) /\ Importable(Repaired(ReadUri(uris[i]), 1))}
           kept == Pick(uris, good)
           read == [i \in DOMAIN kept |-> Repaired(ReadUri(kept[i]), i)]
<1>1. good \in SUBSET (DOMAIN uris)
  OBVIOUS
<1>2. ReadUris(uris) = read
  BY DEF ReadUris
<1> HIDE DEF good
<1>3. Listed(kept) /\ \A i \in DOMAIN kept : LineNames(kept[i])
  BY <1>1, PickListed
<1> HIDE DEF kept
<1>4. Listed(read) /\ DOMAIN read = DOMAIN kept
  BY <1>3, MadeListed
<1>5. \A i \in DOMAIN kept : IsToken(Repaired(ReadUri(kept[i]), i))
  BY <1>3, ReadersMakeTokens, RepairedToken
<1> QED
  BY <1>2, <1>4, <1>5 DEF Tokens

\* Google's payload reads as tokens.
LEMMA GoogleRead ==
  ASSUME NEW entries, Listed(entries), \A i \in DOMAIN entries : EntryNames(entries[i])
  PROVE  Tokens(ReadAllGoogle(entries))
<1> DEFINE knows == {i \in DOMAIN entries : GoogleKnows(entries[i])}
           known == Pick(entries, knows)
           read == [i \in DOMAIN known |-> ReadGoogle(known[i])]
           good == {i \in DOMAIN read : Importable(read[i])}
<1>1. knows \in SUBSET (DOMAIN entries) /\ \A i \in knows : GoogleKnows(entries[i])
  OBVIOUS
<1>2. ReadAllGoogle(entries) = Pick(read, good)
  BY DEF ReadAllGoogle
<1>3. good \in SUBSET (DOMAIN read)
  OBVIOUS
<1> HIDE DEF knows, good
<1>4. Listed(known) /\ \A i \in DOMAIN known : EntryNames(known[i]) /\ GoogleKnows(known[i])
  BY <1>1, PickListed
<1> HIDE DEF known
<1>5. Listed(read) /\ DOMAIN read = DOMAIN known
  BY <1>4, MadeListed
<1>6. Tokens(read)
  BY <1>4, <1>5, ReadersMakeTokens DEF Tokens
<1> HIDE DEF read
<1> QED
  BY <1>2, <1>3, <1>6, PickTokens

\* The formats a program reads.
Imports == {"uri", "aegis", "2fas", "authpro", "google"}
Exports == {"uri", "aegis", "2fas", "authpro"}

\* A file of JSON entries reads as tokens.
LEMMA EntriesRead ==
  ASSUME NEW file, Listed(file.entries), Worded(file), file.format \in Imports \ {"uri"}
  PROVE  Tokens(ReadEntries(file))
<1> DEFINE e == file.entries
           knows == {i \in DOMAIN e : AegisKnows(e[i])}
           aegis == Pick(e, knows)
           one == [i \in DOMAIN aegis |-> ReadAegis(aegis[i])]
           two == [i \in DOMAIN aegis |-> ReadTwofas(aegis[i])]
           three == [i \in DOMAIN aegis |-> ReadAuthpro(aegis[i], e)]
<1>1. knows \in SUBSET (DOMAIN e)
  OBVIOUS
<1>0. \A i \in DOMAIN e : EntryNames(e[i])
  BY DEF Worded, EntryNames, Imports
<1>2. ReadEntries(file) = CASE file.format = "aegis" -> one
                            [] file.format = "2fas" -> two
                            [] file.format = "authpro" -> three
                            [] file.format = "google" -> ReadAllGoogle(e)
  BY DEF ReadEntries
<1> HIDE DEF knows
<1>3. Listed(aegis) /\ \A i \in DOMAIN aegis : EntryNames(aegis[i])
  BY <1>0, <1>1, PickListed
<1> HIDE DEF aegis
<1>4. Tokens(one)
  <2>1. Listed(one) /\ DOMAIN one = DOMAIN aegis
    BY <1>3, MadeListed
  <2> QED
    BY <1>3, <2>1, ReadersMakeTokens DEF Tokens
<1>5. Tokens(two)
  <2>1. Listed(two) /\ DOMAIN two = DOMAIN aegis
    BY <1>3, MadeListed
  <2> QED
    BY <1>3, <2>1, ReadersMakeTokens DEF Tokens
<1>6. Tokens(three)
  <2> HIDE DEF e
  <2>1. Listed(three) /\ DOMAIN three = DOMAIN aegis
    BY <1>3, MadeListed
  <2> QED
    BY <1>3, <2>1, ReadersMakeTokens DEF Tokens
<1>7. Tokens(ReadAllGoogle(e))
  BY <1>0, GoogleRead
<1> HIDE DEF e, one, two, three
<1> QED
  BY <1>2, <1>4, <1>5, <1>6, <1>7 DEF Imports

\* Whatever a file holds, and whether it opens or not, it reads as tokens.
LEMMA ReadTokens ==
  ASSUME NEW file, Listed(file.entries), Worded(file), NEW format \in Imports, NEW password
  PROVE  Tokens(Read(file, format, password))
<1>1. CASE password = Absent
           /\ <<file.format, format>> \in {<<"uri", "uri">>, <<"uri", "aegis">>, <<"qr", "google">>}
  <2>1. file.format \in {"uri", "qr"}
    BY <1>1
  <2>2. \A i \in DOMAIN file.entries : LineNames(file.entries[i])
    BY <2>1 DEF Worded, LineNames
  <2>3. Tokens(ReadUris(file.entries))
    BY <2>2, UrisRead
  <2> QED
    BY <1>1, <2>3 DEF Read
<1>2. CASE /\ ~(/\ password = Absent
                /\ <<file.format, format>> \in {<<"uri", "uri">>, <<"uri", "aegis">>, <<"qr", "google">>})
           /\ Opens(file, format, password)
  <2>1. file.format = format /\ format # "uri"
    BY <1>2 DEF Opens
  <2>2. Tokens(ReadEntries(file))
    BY <2>1, EntriesRead
  <2> QED
    BY <1>2, <2>2 DEF Read
<1>3. CASE /\ ~(/\ password = Absent
                /\ <<file.format, format>> \in {<<"uri", "uri">>, <<"uri", "aegis">>, <<"qr", "google">>})
           /\ ~Opens(file, format, password)
  BY <1>3, EmptyTokens DEF Read
<1> QED
  BY <1>1, <1>2, <1>3

\* A token that is written has its names in the line.
LEMMA NamesWritten ==
  ASSUME NEW t, IsToken(t), t.label # Absent
  PROVE  LineNames(UriOf(t))
<1> DEFINE path == IF IsSteam(t.issuer) THEN <<"Steam">> \o t.label
                   ELSE IF Name(t.issuer) # Empty THEN t.issuer \o t.label
                   ELSE t.label
           issuer == IF Name(t.issuer) = Empty THEN Absent ELSE t.issuer
           type == IF IsSteam(t.issuer) THEN "totp" ELSE Lower(t)
           period == IF IsTotp(t) THEN t.value ELSE Absent
           counter == IF IsTotp(t) THEN Absent ELSE t.value
<1>1. UriOf(t) = [type |-> type, path |-> path, issuer |-> issuer, secret |-> t.secret,
                  digits |-> t.digits, period |-> period, counter |-> counter]
  BY DEF UriOf
<1>2. IsName(t.label) /\ IsName(t.issuer)
  BY DEF IsToken
<1>3. IsName(issuer)
  BY <1>2 DEF IsName
<1>4. IsWords(path)
  <2>1. IsWords(t.label)
    BY <1>2 DEF IsName
  <2>2. IsWords(<<"Steam">> \o t.label)
    BY <2>1, WordName, NameFacts
  <2>3. t.issuer # Absent => IsWords(t.issuer \o t.label)
    BY <1>2, <2>1, NameFacts DEF IsName
  <2>4. Name(t.issuer) # Empty => t.issuer # Absent
    BY DEF Name
  <2> QED
    BY <2>1, <2>2, <2>3, <2>4
<1> HIDE DEF path, issuer, type, period, counter
<1> QED
  BY <1>1, <1>3, <1>4 DEF LineNames

\* So it has in an entry.
LEMMA EntriesWritten ==
  ASSUME NEW T, Tokens(T)
  PROVE  /\ \A i \in DOMAIN T : EntryNames(ExportAegis(T)[i])
         /\ \A i \in DOMAIN T : EntryNames(ExportTwofas(T)[i])
         /\ \A i \in DOMAIN T : EntryNames(ExportAuthpro(T)[i])
<1>1. ASSUME NEW t, IsToken(t), NEW type, NEW issuer, IsName(issuer)
      PROVE  /\ EntryNames(Entry(t, type, issuer))
             /\ \A p, c : EntryNames([Entry(t, type, issuer) EXCEPT !.period = p, !.counter = c])
  <2> DEFINE e == Entry(t, type, issuer)
  <2>1. e = [type |-> type, name |-> t.label, issuer |-> issuer, group |-> t.group,
             secret |-> t.secret, digits |-> t.digits, period |-> e.period, counter |-> e.counter]
    BY DEF Entry
  <2> HIDE DEF e
  <2>2. e.name = t.label /\ e.issuer = issuer
    BY <2>1
  <2>3. \A p, c : /\ [e EXCEPT !.period = p, !.counter = c].name = t.label
                  /\ [e EXCEPT !.period = p, !.counter = c].issuer = issuer
    BY <2>1
  <2> QED
    BY <1>1, <2>2, <2>3 DEF EntryNames, IsToken, e
<1>2. ASSUME NEW i \in DOMAIN T PROVE EntryNames(ExportAegis(T)[i])
  <2> DEFINE issuer == IF Name(T[i].issuer) = Empty THEN Absent ELSE T[i].issuer
             type == IF IsSteam(T[i].issuer) THEN "steam" ELSE Lower(T[i])
  <2>1. IsToken(T[i])
    BY DEF Tokens
  <2>2. ExportAegis(T)[i] = Entry(T[i], type, issuer)
    BY DEF ExportAegis
  <2>3. IsName(issuer)
    BY <2>1 DEF IsToken, IsName
  <2> HIDE DEF issuer, type
  <2>4. EntryNames(Entry(T[i], type, issuer))
    BY <1>1, <2>1, <2>3
  <2> QED
    BY <2>2, <2>4
<1>3. ASSUME NEW i \in DOMAIN T
      PROVE  IsName(IF IsSteam(T[i].issuer) THEN <<"Steam">> ELSE T[i].issuer)
  <2>1. IsName(T[i].issuer)
    BY DEF Tokens, IsToken
  <2>2. IsName(<<"Steam">>)
    BY WordName DEF IsName
  <2> QED
    BY <2>1, <2>2, Zenon
<1>4. ASSUME NEW i \in DOMAIN T PROVE EntryNames(ExportTwofas(T)[i])
  <2> DEFINE issuer == IF IsSteam(T[i].issuer) THEN <<"Steam">> ELSE T[i].issuer
  <2>1. IsToken(T[i])
    BY DEF Tokens
  <2>2. ExportTwofas(T)[i] = Entry(T[i], Upper(T[i]), issuer)
    BY DEF ExportTwofas
  <2>3. IsName(issuer)
    BY <1>3
  <2> HIDE DEF issuer
  <2>4. EntryNames(Entry(T[i], Upper(T[i]), issuer))
    BY <1>1, <2>1, <2>3
  <2> QED
    BY <2>2, <2>4
<1>5. ASSUME NEW i \in DOMAIN T PROVE EntryNames(ExportAuthpro(T)[i])
  <2> DEFINE issuer == IF IsSteam(T[i].issuer) THEN <<"Steam">> ELSE T[i].issuer
             type == IF IsTotp(T[i]) /\ IsSteam(issuer) THEN "steam" ELSE Upper(T[i])
             e == Entry(T[i], type, issuer)
             period == Number(e.period)
             counter == Number(e.counter)
  <2>1. IsToken(T[i])
    BY DEF Tokens
  <2>2. ExportAuthpro(T)[i] = [e EXCEPT !.period = Number(@), !.counter = Number(@)]
    BY DEF ExportAuthpro
  <2>3. IsName(issuer)
    BY <1>3
  <2> HIDE DEF issuer, type
  <2>4. EntryNames([e EXCEPT !.period = period, !.counter = counter])
    BY <1>1, <2>1, <2>3
  <2>5. [e EXCEPT !.period = Number(@), !.counter = Number(@)] =
          [e EXCEPT !.period = period, !.counter = counter]
    OBVIOUS
  <2> QED
    BY <2>2, <2>4, <2>5
<1> QED
  BY <1>2, <1>4, <1>5

\* An exported file holds a sequence of entries, also when it was cut.
LEMMA ExportListed ==
  ASSUME NEW T, Listed(T), NEW format \in Exports, NEW password
  PROVE  /\ Listed(Export(format, password, T).entries)
         /\ Listed(Cut(Export(format, password, T)).entries)
<1>1. Listed(ExportUris(T))
  <2> DEFINE named == {i \in DOMAIN T : T[i].label # Absent}
             labelled == Pick(T, named)
  <2>1. named \in SUBSET (DOMAIN T)
    OBVIOUS
  <2>2. ExportUris(T) = [i \in DOMAIN labelled |-> UriOf(labelled[i])]
    BY DEF ExportUris
  <2> HIDE DEF named
  <2>3. Listed(labelled)
    BY <2>1, PickListed
  <2> HIDE DEF labelled
  <2>4. ExportUris(T) = [i \in DOMAIN labelled |-> ExportUris(T)[i]]
    BY <2>2
  <2> QED
    BY <2>3, <2>4, MadeListed
<1>2. Listed(ExportAegis(T))
  <2>1. ExportAegis(T) = [i \in DOMAIN T |-> ExportAegis(T)[i]]
    BY DEF ExportAegis
  <2> QED
    BY <2>1, MadeListed
<1>3. Listed(ExportTwofas(T))
  <2>1. ExportTwofas(T) = [i \in DOMAIN T |-> ExportTwofas(T)[i]]
    BY DEF ExportTwofas
  <2> QED
    BY <2>1, MadeListed
<1>4. Listed(ExportAuthpro(T))
  <2>1. ExportAuthpro(T) = [i \in DOMAIN T |-> ExportAuthpro(T)[i]]
    BY DEF ExportAuthpro
  <2> QED
    BY <2>1, MadeListed
<1> DEFINE file == Export(format, password, T)
<1>5. Listed(file.entries)
  BY <1>1, <1>2, <1>3, <1>4 DEF Export, Exports
<1>6. Listed(Cut(file).entries)
  <2> DEFINE half == (Len(file.entries) + 1) \div 2
             Broken(u) == [u EXCEPT !.issuer = Absent, !.digits = Absent,
                                    !.period = Absent, !.counter = Absent]
             lines == [i \in 1 .. half |-> IF i = half THEN Broken(file.entries[i]) ELSE file.entries[i]]
  <2>1. "entries" \in DOMAIN file
    BY DEF Export
  <2>2. Cut(file).entries = IF file.format = "uri" THEN lines ELSE << >>
    BY <2>1 DEF Cut
  <2>3. half \in Nat
    <3>1. Len(file.entries) \in Nat
      BY <1>5, ListedSeq
    <3>2. \A n \in Nat : (n + 1) \div 2 \in Nat
      OBVIOUS
    <3> HIDE DEF file
    <3> QED
      BY <3>1, <3>2
  <2> HIDE DEF half, Broken, file
  <2>4. Listed(lines)
    BY <2>3, FunctionListed
  <2> HIDE DEF lines
  <2> QED
    BY <2>2, <2>4, EmptyTokens DEF Tokens
<1> QED
  BY <1>5, <1>6

\* Breaking off the last line of a text takes no name away but the issuer.
LEMMA BrokenNames ==
  ASSUME NEW t, LineNames(UriOf(t))
  PROVE  LineNames([UriOf(t) EXCEPT !.issuer = Absent, !.digits = Absent,
                                    !.period = Absent, !.counter = Absent])
<1> DEFINE u == UriOf(t)
           v == [u EXCEPT !.issuer = Absent, !.digits = Absent, !.period = Absent, !.counter = Absent]
<1>1. u = [type |-> u.type, path |-> u.path, issuer |-> u.issuer, secret |-> u.secret,
           digits |-> u.digits, period |-> u.period, counter |-> u.counter]
  BY DEF UriOf
<1> HIDE DEF u
<1>2. v.issuer = Absent /\ v.path = u.path
  BY <1>1
<1> HIDE DEF v
<1> QED
  BY <1>2 DEF LineNames, IsName, u, v

\* The entries of an exported file have names, also when it was cut.
LEMMA ExportWorded ==
  ASSUME NEW T, Tokens(T), NEW format \in Exports, NEW password
  PROVE  /\ Worded(Export(format, password, T))
         /\ Worded(Cut(Export(format, password, T)))
<1> DEFINE file == Export(format, password, T)
           cut == Cut(file)
           e == file.entries
           half == (Len(e) + 1) \div 2
           Broken(u) == [u EXCEPT !.issuer = Absent, !.digits = Absent,
                                  !.period = Absent, !.counter = Absent]
           lines == [i \in 1 .. half |-> IF i = half THEN Broken(e[i]) ELSE e[i]]
<1>1. Listed(e)
  BY ExportListed DEF Tokens
<1>2. /\ file.format = format /\ cut.format = format
      /\ cut.entries = IF format = "uri" THEN lines ELSE << >>
  <2>1. file.format = format /\ "entries" \in DOMAIN file /\ "format" \in DOMAIN file /\ "cut" \in DOMAIN file
    BY DEF Export
  <2> HIDE DEF file
  <2>2. cut.entries = IF file.format = "uri" THEN lines ELSE << >>
    BY <2>1 DEF Cut
  <2>3. cut.format = file.format
    BY <2>1 DEF Cut
  <2> QED
    BY <2>1, <2>2, <2>3
<1>3. CASE format = "uri"
  <2> DEFINE labelled == Pick(T, {i \in DOMAIN T : T[i].label # Absent})
  <2>1. e = [i \in DOMAIN labelled |-> UriOf(labelled[i])]
    BY <1>3 DEF Export, ExportUris
  <2>2. \A i \in DOMAIN labelled : IsToken(labelled[i]) /\ labelled[i].label # Absent
    <3> DEFINE I == {i \in DOMAIN T : T[i].label # Absent}
    <3>1. I \in SUBSET (DOMAIN T) /\ \A i \in I : IsToken(T[i]) /\ T[i].label # Absent
      BY DEF Tokens
    <3> HIDE DEF I
    <3> QED
      BY <3>1, PickListed DEF Tokens
  <2> HIDE DEF labelled, file
  <2>3. \A i \in DOMAIN e : LineNames(e[i]) /\ LineNames(Broken(e[i]))
    <3> TAKE i \in DOMAIN e
    <3>1. i \in DOMAIN labelled /\ e[i] = UriOf(labelled[i])
      BY <2>1
    <3> HIDE DEF e, Broken
    <3>2. LineNames(UriOf(labelled[i]))
      BY <2>2, <3>1, NamesWritten
    <3>3. LineNames(Broken(UriOf(labelled[i])))
      BY <3>2, BrokenNames DEF Broken
    <3> QED
      BY <3>1, <3>2, <3>3
  <2> HIDE DEF e, Broken, lines, half, cut
  <2>4. \A i \in DOMAIN cut.entries : LineNames(cut.entries[i])
    <3> TAKE i \in DOMAIN cut.entries
    <3>1. cut.entries = lines
      BY <1>2, <1>3
    <3>2. i \in 1 .. half
      BY <3>1 DEF lines
    <3>3. i \in DOMAIN e
      <4>1. Len(e) \in Nat /\ DOMAIN e = 1 .. Len(e)
        BY <1>1, ListedSeq
      <4>2. \A n \in Nat : \A k \in 1 .. ((n + 1) \div 2) : k \in 1 .. n
        OBVIOUS
      <4> QED
        BY <3>2, <4>1, <4>2 DEF half
    <3>4. cut.entries[i] = IF i = half THEN Broken(e[i]) ELSE e[i]
      BY <3>1, <3>2 DEF lines
    <3> QED
      BY <2>3, <3>3, <3>4
  <2>5. Worded(file) /\ Worded(cut)
    BY <1>2, <1>3, <2>3, <2>4 DEF Worded, LineNames, e
  <2> QED
    BY <2>5 DEF file, cut
<1>4. CASE format # "uri"
  <2>1. \A i \in DOMAIN e : EntryNames(e[i])
    <3> DEFINE a == ExportAegis(T)
               b == ExportTwofas(T)
               c == ExportAuthpro(T)
    <3>1. e \in {a, b, c}
      BY <1>4 DEF Export, Exports
    <3>2. DOMAIN a = DOMAIN T /\ DOMAIN b = DOMAIN T /\ DOMAIN c = DOMAIN T
      BY DEF ExportAegis, ExportTwofas, ExportAuthpro
    <3>3. \A i \in DOMAIN T : EntryNames(a[i]) /\ EntryNames(b[i]) /\ EntryNames(c[i])
      BY EntriesWritten
    <3> HIDE DEF a, b, c, e
    <3> QED
      BY <3>1, <3>2, <3>3
  <2> HIDE DEF file, cut, lines
  <2>2. cut.entries = << >>
    BY <1>2, <1>4
  <2>3. DOMAIN cut.entries = {}
    BY <2>2, EmptyTokens
  <2>4. format \notin {"uri", "qr"}
    BY <1>4 DEF Exports
  <2>5. Worded(file) /\ Worded(cut)
    BY <1>2, <2>1, <2>3, <2>4 DEF Worded, EntryNames
  <2> QED
    BY <2>5 DEF file, cut
<1> QED
  BY <1>3, <1>4

-----------------------------------------------------------------------------
(* Imported.                                                                *)

\* An import leaves what there was in its place, puts tokens behind it, and adds
\* none that is there already or that it has added before.
LEMMA ImportedFacts ==
  ASSUME NEW T, Tokens(T), NEW otps, Tokens(otps)
  PROVE  /\ Tokens(Imported(T, otps))
         /\ Len(T) <= Len(Imported(T, otps))
         /\ \A i \in DOMAIN T : i \in DOMAIN Imported(T, otps) /\ Imported(T, otps)[i] = T[i]
         /\ Distinct(T) => Distinct(Imported(T, otps))
<1> DEFINE read == [i \in DOMAIN otps |-> Repaired(otps[i], i)]
           built == [i \in DOMAIN otps |-> BuildObj(read[i])]
           good == {i \in DOMAIN otps : Importable(read[i])}
           new == New(good, built, T)
           added == Pick(built, new)
<1>1. Listed(T) /\ Listed(otps)
  BY DEF Tokens
<1>2. Imported(T, otps) = T \o added
  BY DEF Imported
<1>3. \A i \in DOMAIN otps : IsToken(built[i])
  <2> TAKE i \in DOMAIN otps
  <2>1. IsToken(read[i])
    BY RepairedToken DEF Tokens
  <2> HIDE DEF read
  <2> QED
    BY <2>1, BuiltToken
<1>4. good \in SUBSET (DOMAIN otps)
  OBVIOUS
<1> HIDE DEF read, good
<1>5. Listed(built) /\ DOMAIN built = DOMAIN otps
  BY <1>1, MadeListed
<1> HIDE DEF built
<1>6. /\ new \in SUBSET (DOMAIN built)
      /\ \A i \in new : built[i] \notin ToSet(T)
      /\ \A i, j \in new : j < i => built[j] # built[i]
  BY <1>4, <1>5 DEF New
<1>7. Tokens(built)
  BY <1>3, <1>5 DEF Tokens
<1> HIDE DEF new
<1>8. Tokens(added)
  BY <1>6, <1>7, PickTokens
<1>9. PICK at \in [DOMAIN added -> new] :
        /\ \A k \in DOMAIN added : added[k] = built[at[k]]
        /\ \A k, l \in DOMAIN added : at[k] = at[l] => k = l
  BY <1>5, <1>6, PickFacts
<1>10. \A i, j \in new : built[i] = built[j] => i = j
  <2>1. DOMAIN built = 1..Len(built) /\ Len(built) \in Nat
    BY <1>5, ListedSeq
  <2>2. \A i, j \in new : i \in Int /\ j \in Int
    BY <1>6, <2>1
  <2>3. \A i, j \in new : i = j \/ i < j \/ j < i
    BY <2>2
  <2> QED
    BY <1>6, <2>3
<1>11. /\ \A k \in DOMAIN added : added[k] \notin ToSet(T)
       /\ \A k, l \in DOMAIN added : added[k] = added[l] => k = l
  BY <1>6, <1>9, <1>10
<1> HIDE DEF added
<1>12. Listed(added)
  BY <1>8 DEF Tokens
<1> DEFINE n == Len(T)
           m == Len(added)
           all == T \o added
<1>13. /\ Listed(all) /\ Len(all) = n + m
       /\ \A i \in 1..n : all[i] = T[i]
       /\ \A i \in 1..m : all[n + i] = added[i]
  BY <1>1, <1>12, Joined
<1>14. n \in Nat /\ m \in Nat /\ DOMAIN T = 1..n /\ DOMAIN added = 1..m
  BY <1>1, <1>12, ListedSeq
<1>15. DOMAIN all = 1..(n + m)
  BY <1>13, ListedSeq
<1> HIDE DEF n, m, all
<1>16. \A i \in DOMAIN all : \/ (i \in 1..n /\ all[i] = T[i])
                            \/ (i - n \in 1..m /\ all[i] = added[i - n])
  <2> TAKE i \in DOMAIN all
  <2>1. CASE i <= n
    <3>1. i \in 1..n
      BY <1>14, <1>15, <2>1
    <3> QED
      BY <1>13, <3>1
  <2>2. CASE ~(i <= n)
    <3>1. i - n \in 1..m /\ n + (i - n) = i
      BY <1>14, <1>15, <2>2
    <3> QED
      BY <1>13, <3>1
  <2> QED
    BY <2>1, <2>2
<1>17. \A i \in DOMAIN all : IsToken(all[i])
  BY <1>8, <1>14, <1>16 DEF Tokens
<1>18. \A i \in DOMAIN T : i \in DOMAIN all /\ all[i] = T[i]
  BY <1>13, <1>14, <1>15
<1>19. n <= Len(all)
  BY <1>13, <1>14
<1>20. Distinct(T) => Distinct(all)
  <2> SUFFICES ASSUME Distinct(T), NEW i \in DOMAIN all, NEW j \in DOMAIN all, all[i] = all[j]
               PROVE  i = j
    BY DEF Distinct
  <2>1. CASE i \in 1..n /\ all[i] = T[i] /\ j \in 1..n /\ all[j] = T[j]
    BY <1>14, <2>1 DEF Distinct
  <2>2. CASE i \in 1..n /\ all[i] = T[i] /\ j - n \in 1..m /\ all[j] = added[j - n]
    BY <1>11, <1>14, <2>2 DEF ToSet
  <2>3. CASE i - n \in 1..m /\ all[i] = added[i - n] /\ j \in 1..n /\ all[j] = T[j]
    BY <1>11, <1>14, <2>3 DEF ToSet
  <2>4. CASE i - n \in 1..m /\ all[i] = added[i - n] /\ j - n \in 1..m /\ all[j] = added[j - n]
    <3>1. i - n = j - n
      BY <1>11, <1>14, <2>4
    <3> QED
      BY <1>14, <1>15, <3>1
  <2> QED
    BY <1>16, <2>1, <2>2, <2>3, <2>4
<1> QED
  BY <1>2, <1>13, <1>17, <1>18, <1>19, <1>20 DEF Tokens, all, n

\* Nothing is picked from no positions.
LEMMA PickNone ==
  ASSUME NEW s, Listed(s)
  PROVE  Pick(s, {}) = << >>
<1>1. Cardinality({}) = 0
  BY FS_EmptySet
<1>2. DOMAIN Pick(s, {}) = 1..0
  BY <1>1 DEF Pick
<1>3. Listed(Pick(s, {}))
  BY PickFacts
<1>4. Pick(s, {}) \in Seq(ToSet(Pick(s, {}))) /\ DOMAIN Pick(s, {}) = 1..Len(Pick(s, {}))
      /\ Len(Pick(s, {})) \in Nat
  BY <1>3, ListedSeq
<1>5. Len(Pick(s, {})) = 0
  BY <1>2, <1>4
<1> QED
  BY <1>4, <1>5, EmptySeq

\* Whatever a file holds, and whatever is stored already, importing it a second time adds
\* nothing: a retried import, or one through a second actor, is harmless.
THEOREM ImportAgain ==
  ASSUME NEW T, Tokens(T), NEW otps, Tokens(otps)
  PROVE  Imported(Imported(T, otps), otps) = Imported(T, otps)
<1> DEFINE read == [j \in DOMAIN otps |-> Repaired(otps[j], j)]
           built == [j \in DOMAIN otps |-> BuildObj(read[j])]
           good == {j \in DOMAIN otps : Importable(read[j])}
           new == New(good, built, T)
           added == Pick(built, new)
           S == Imported(T, otps)
<1>1. Listed(T) /\ Listed(otps) /\ DOMAIN otps = 1..Len(otps) /\ Len(otps) \in Nat
  BY ListedSeq DEF Tokens
<1>2. S = T \o added
  BY DEF Imported
<1>3. Imported(S, otps) = S \o Pick(built, New(good, built, S))
  BY DEF Imported
<1>4. good \in SUBSET (DOMAIN otps)
  OBVIOUS
<1> HIDE DEF read, good
<1>5. Listed(built) /\ DOMAIN built = DOMAIN otps
  BY <1>1, MadeListed
<1> HIDE DEF built
<1>6. new \in SUBSET (DOMAIN built)
  BY <1>4, <1>5 DEF New
<1>7. Listed(added) /\ \A i \in new : \E k \in DOMAIN added : added[k] = built[i]
  BY <1>5, <1>6, PickListed, PickOnto
<1> HIDE DEF added, S
<1>8. Listed(S) /\ ToSet(T) \subseteq ToSet(S) /\ ToSet(added) \subseteq ToSet(S)
  <2>1. /\ Listed(S) /\ Len(S) = Len(T) + Len(added)
        /\ \A i \in 1..Len(T) : S[i] = T[i]
        /\ \A i \in 1..Len(added) : S[Len(T) + i] = added[i]
    <3>1. /\ Listed(T \o added) /\ Len(T \o added) = Len(T) + Len(added)
          /\ \A i \in 1..Len(T) : (T \o added)[i] = T[i]
          /\ \A i \in 1..Len(added) : (T \o added)[Len(T) + i] = added[i]
      BY <1>1, <1>7, Joined
    <3> QED
      BY <1>2, <3>1
  <2>2. /\ DOMAIN T = 1..Len(T) /\ DOMAIN added = 1..Len(added) /\ DOMAIN S = 1..Len(S)
        /\ Len(T) \in Nat /\ Len(added) \in Nat
    BY <1>1, <1>7, <2>1, ListedSeq
  <2>3. /\ \A i \in 1..Len(T) : i \in 1..Len(S)
        /\ \A i \in 1..Len(added) : Len(T) + i \in 1..Len(S)
    BY <2>1, <2>2
  <2>4. ToSet(T) \subseteq ToSet(S)
    BY <2>1, <2>2, <2>3 DEF ToSet
  <2>5. ToSet(added) \subseteq ToSet(S)
    BY <2>1, <2>2, <2>3 DEF ToSet
  <2> QED
    BY <2>1, <2>4, <2>5
<1>9. ASSUME NEW i \in good PROVE built[i] \in ToSet(S)
  <2>1. CASE built[i] \in ToSet(T)
    BY <1>8, <2>1
  <2>2. CASE built[i] \notin ToSet(T)
    <3> DEFINE twins == {j \in good : built[j] = built[i]}
    <3>1. twins # {} /\ twins \in SUBSET (1..Len(otps))
      BY <1>1, <1>4
    <3>2. \A j \in twins : j \in good /\ built[j] = built[i]
      OBVIOUS
    <3>3. \A j \in good : built[j] = built[i] => j \in twins
      OBVIOUS
    <3> HIDE DEF twins
    <3>4. PICK j \in twins : \A l \in twins : j <= l
      BY <1>1, <3>1, FirstPosition
    <3>5. ASSUME NEW l \in good, l < j PROVE built[l] # built[j]
      <4>1. l \in Int /\ j \in Int
        BY <1>1, <1>4, <3>1
      <4>2. l \notin twins
        BY <3>4, <3>5, <4>1
      <4> QED
        BY <3>2, <3>3, <4>2
    <3>6. j \in new
      BY <2>2, <3>2, <3>5 DEF New
    <3> HIDE DEF new
    <3>7. PICK k \in DOMAIN added : added[k] = built[j]
      BY <1>7, <3>6
    <3> QED
      BY <1>8, <3>2, <3>7 DEF ToSet
  <2> QED
    BY <2>1, <2>2
<1>10. New(good, built, S) = {}
  BY <1>9 DEF New
<1>11. Imported(S, otps) = S \o << >>
  BY <1>3, <1>5, <1>10, PickNone
<1>12. S \in Seq(ToSet(S))
  BY <1>8, ListedSeq
<1>13. Imported(S, otps) = S
  BY <1>11, <1>12, ConcatEmptySeq
<1> QED
  BY <1>13 DEF S

-----------------------------------------------------------------------------
(* What comes back of an exported file.                                     *)

\* What was read is stored as w.
Returns(o, w) == IsToken(o) /\ Named(o) /\ Importable(o) /\ BuildObj(o) = w

\* Nothing in front changes nothing.
LEMMA EmptyFront ==
  ASSUME NEW s, Listed(s)
  PROVE  << >> \o s = s /\ ToSet(<< >>) = {}
<1>1. s \in Seq(ToSet(s))
  BY ListedSeq
<1>2. ToSet(<< >>) = {}
  BY EmptyTokens DEF ToSet
<1> QED
  BY <1>1, <1>2, ConcatEmptySeq

\* What was read and is valid is stored, by itself or by an equal one before it.
LEMMA ImportedKeeps ==
  ASSUME NEW otps, Tokens(otps), NEW i \in DOMAIN otps, NEW w, Returns(otps[i], w)
  PROVE  w \in ToSet(Imported(<< >>, otps))
<1> DEFINE read == [j \in DOMAIN otps |-> Repaired(otps[j], j)]
           built == [j \in DOMAIN otps |-> BuildObj(read[j])]
           good == {j \in DOMAIN otps : Importable(read[j])}
           new == New(good, built, << >>)
           added == Pick(built, new)
           twins == {j \in good : built[j] = w}
<1>1. Listed(otps) /\ DOMAIN otps = 1..Len(otps) /\ Len(otps) \in Nat
  BY ListedSeq DEF Tokens
<1>2. Imported(<< >>, otps) = << >> \o added
  BY DEF Imported
<1>3. read[i] = otps[i]
  BY DEF Repaired, Returns
<1>4. i \in good /\ built[i] = w
  BY <1>3 DEF Returns
<1>5. good \in SUBSET (DOMAIN otps)
  OBVIOUS
<1> HIDE DEF read, good
<1>6. Listed(built) /\ DOMAIN built = DOMAIN otps
  BY <1>1, MadeListed
<1> HIDE DEF built
<1>7. twins # {} /\ twins \in SUBSET (1..Len(otps))
  BY <1>1, <1>4, <1>5
<1> HIDE DEF twins
<1>8. PICK j \in twins : \A l \in twins : j <= l
  BY <1>1, <1>7, FirstPosition
<1>9. ToSet(<< >>) = {}
  BY EmptyTokens DEF ToSet
<1>10. j \in new
  <2>1. j \in good /\ built[j] = w
    BY <1>8 DEF twins
  <2>2. ASSUME NEW l \in good, l < j PROVE built[l] # built[j]
    <3>1. l \in Int /\ j \in Int
      BY <1>1, <1>5, <2>1
    <3>2. l \notin twins
      BY <1>8, <2>2, <3>1
    <3> QED
      BY <2>1, <3>2 DEF twins
  <2> QED
    BY <1>9, <2>1, <2>2 DEF New
<1>11. new \in SUBSET (DOMAIN built)
  BY <1>5, <1>6 DEF New
<1> HIDE DEF new
<1>12. Listed(added)
  BY <1>6, <1>11, PickFacts
<1>13. PICK k \in DOMAIN added : added[k] = built[j]
  BY <1>6, <1>10, <1>11, PickOnto
<1> HIDE DEF added
<1>14. Imported(<< >>, otps) = added
  BY <1>2, <1>12, EmptyFront
<1>15. built[j] = w
  BY <1>8 DEF twins
<1> QED
  BY <1>13, <1>14, <1>15 DEF ToSet

\* When all that was read is valid it is stored in its order, each the first time.
LEMMA ImportedWhole ==
  ASSUME NEW T, Listed(T), NEW otps, otps = [i \in DOMAIN T |-> otps[i]],
         NEW wanted, wanted = [i \in DOMAIN T |-> wanted[i]],
         \A i \in DOMAIN T : Returns(otps[i], wanted[i])
  PROVE  Imported(<< >>, otps) = Firsts(wanted)
<1> DEFINE read == [j \in DOMAIN otps |-> Repaired(otps[j], j)]
           built == [j \in DOMAIN otps |-> BuildObj(read[j])]
           good == {j \in DOMAIN otps : Importable(read[j])}
           firsts == {i \in DOMAIN wanted : \A j \in DOMAIN wanted : j < i => wanted[j] # wanted[i]}
<1>1. Imported(<< >>, otps) = << >> \o Pick(built, New(good, built, << >>))
  BY DEF Imported
<1>2. DOMAIN otps = DOMAIN T /\ DOMAIN wanted = DOMAIN T /\ Listed(wanted)
  <2>1. DOMAIN otps = DOMAIN T
    OBVIOUS
  <2> QED
    BY <2>1, MadeListed
<1>3. \A i \in DOMAIN otps : read[i] = otps[i]
  <2> TAKE i \in DOMAIN otps
  <2>1. Repaired(otps[i], i) = otps[i]
    BY <1>2 DEF Repaired, Returns
  <2> QED
    BY <2>1
<1> HIDE DEF read
<1>4. good = DOMAIN otps
  BY <1>2, <1>3 DEF Returns
<1>5. built = wanted
  <2>1. \A i \in DOMAIN T : BuildObj(read[i]) = wanted[i]
    BY <1>2, <1>3 DEF Returns
  <2>2. built = [i \in DOMAIN T |-> wanted[i]]
    BY <1>2, <2>1
  <2> QED
    BY <2>2
<1> HIDE DEF built, good
<1>6. New(DOMAIN wanted, wanted, << >>) = firsts
  <2>1. ToSet(<< >>) = {}
    BY EmptyTokens DEF ToSet
  <2> QED
    BY <2>1 DEF New
<1>7. firsts \in SUBSET (DOMAIN wanted)
  OBVIOUS
<1>8. Imported(<< >>, otps) = << >> \o Pick(wanted, firsts)
  BY <1>1, <1>2, <1>4, <1>5, <1>6
<1>9. Firsts(wanted) = Pick(wanted, firsts)
  BY DEF Firsts
<1> HIDE DEF firsts
<1>10. Listed(Pick(wanted, firsts))
  BY <1>2, <1>7, PickFacts
<1> QED
  BY <1>8, <1>9, <1>10, EmptyFront

\* Small numbers keep their value in 32 bits, and numbers are not absent.
LEMMA SmallNumbers ==
  ASSUME NEW n \in Nat
  PROVE  Number(n) = n /\ (n <= 120 => Uint(n) = n) /\ Uint(0) = 0
<1>1. n # Absent
  BY AbsentAssumption
<1>2. ASSUME NEW m \in Nat, m <= 120 PROVE m % UintWrap = m
  BY <1>2, UintWrapAssumption
<1> QED
  BY <1>1, <1>2 DEF Number, Uint

\* What the value and the digits of a valid token are.
LEMMA ValidNumbers ==
  ASSUME NEW t, Valid(t)
  PROVE  /\ t.value \in Nat /\ Number(t.value) = t.value
         /\ t.digits \in 4 .. 10 /\ Uint(t.digits) = t.digits
         /\ IsTotp(t) => t.value \in 1 .. 120 /\ Uint(t.value) = t.value
         /\ IsTotp(t) <=> ~IsHotp(t)
<1>1. t.digits \in 4 .. 10 /\ IsTotp(t) <=> ~IsHotp(t)
  BY DEF Valid, DigitsOk, IsTotp, IsHotp
<1>2. t.value \in Nat
  BY CounterMaxAssumption DEF Valid, PeriodOk, CounterOk
<1>3. IsTotp(t) => t.value \in 1 .. 120
  BY DEF Valid, PeriodOk
<1>4. t.digits \in 4 .. 10
  BY DEF Valid, DigitsOk
<1> QED
  BY <1>1, <1>2, <1>3, <1>4, SmallNumbers

\* What a format leaves of a token, field by field.
CarriedType(format, t) == IF format = "aegis" /\ ~IsSteam(t.issuer) THEN Lower(t) ELSE Upper(t)
CarriedIssuer(format, t) == IF format # "uri" /\ IsSteam(t.issuer) THEN <<"Steam">> ELSE t.issuer
CarriedGroup(format, t, T) ==
  IF format = "uri" THEN Absent
  ELSE IF format = "authpro" /\ \E u \in ToSet(T) : u.secret = t.secret /\ u.group # t.group
         THEN GroupOf(T, t.secret) ELSE t.group

\* A format leaves a token with these fields.
LEMMA CarriedRecord ==
  ASSUME NEW T, NEW t, IsToken(t), NEW format \in Exports
  PROVE  /\ Carried(format, t, T) =
              [type |-> CarriedType(format, t), label |-> t.label, issuer |-> CarriedIssuer(format, t),
               secret |-> t.secret, digits |-> t.digits, value |-> t.value,
               group |-> CarriedGroup(format, t, T)]
         /\ IsToken(Carried(format, t, T))
<1> DEFINE type == CarriedType(format, t)
           issuer == CarriedIssuer(format, t)
           group == CarriedGroup(format, t, T)
           o == IF format \in {"aegis", "2fas", "authpro"} /\ IsSteam(t.issuer)
                  THEN [t EXCEPT !.issuer = <<"Steam">>, !.type = Upper(t)]
                  ELSE [t EXCEPT !.type = IF format = "aegis" THEN Lower(t) ELSE Upper(t)]
           w == [type |-> type, label |-> t.label, issuer |-> issuer, secret |-> t.secret,
                 digits |-> t.digits, value |-> t.value, group |-> group]
           differs == \E u \in ToSet(T) : u.secret = t.secret /\ u.group # t.group
<1>1. t = [type |-> t.type, label |-> t.label, issuer |-> t.issuer, secret |-> t.secret,
           digits |-> t.digits, value |-> t.value, group |-> t.group]
  BY DEF IsToken
<1>2. o = [type |-> type, label |-> t.label, issuer |-> issuer, secret |-> t.secret,
           digits |-> t.digits, value |-> t.value, group |-> t.group]
  <2>1. CASE format # "uri" /\ IsSteam(t.issuer)
    <3>1. o = [t EXCEPT !.issuer = <<"Steam">>, !.type = Upper(t)]
      BY <2>1 DEF Exports
    <3>2. type = Upper(t) /\ issuer = <<"Steam">>
      BY <2>1 DEF CarriedType, CarriedIssuer
    <3> HIDE DEF o, type, issuer
    <3> QED
      BY <1>1, <3>1, <3>2
  <2>2. CASE ~(format # "uri" /\ IsSteam(t.issuer))
    <3>1. o = [t EXCEPT !.type = IF format = "aegis" THEN Lower(t) ELSE Upper(t)]
      BY <2>2 DEF Exports
    <3>2. type = (IF format = "aegis" THEN Lower(t) ELSE Upper(t)) /\ issuer = t.issuer
      BY <2>2 DEF CarriedType, CarriedIssuer
    <3> HIDE DEF o, type, issuer
    <3> QED
      BY <1>1, <3>1, <3>2
  <2> QED
    BY <2>1, <2>2
<1>3. Carried(format, t, T) =
        CASE format = "uri" -> [o EXCEPT !.group = Absent]
          [] format \in {"aegis", "2fas"} -> o
          [] format = "authpro" -> [o EXCEPT !.group = IF differs THEN GroupOf(T, t.secret) ELSE @]
  BY DEF Carried
<1> HIDE DEF o, type, issuer
<1>4. Carried(format, t, T) = w
  <2>1. CASE format = "uri"
    <3>1. Carried(format, t, T) = [o EXCEPT !.group = Absent] /\ group = Absent
      BY <1>3, <2>1 DEF CarriedGroup
    <3> HIDE DEF group
    <3> QED
      BY <1>2, <3>1
  <2>2. CASE format \in {"aegis", "2fas"}
    <3>1. Carried(format, t, T) = o /\ group = t.group
      BY <1>3, <2>2 DEF CarriedGroup
    <3> HIDE DEF group
    <3> QED
      BY <1>2, <3>1
  <2>3. CASE format = "authpro"
    <3>1. Carried(format, t, T) = [o EXCEPT !.group = IF differs THEN GroupOf(T, t.secret) ELSE @]
      BY <1>3, <2>3
    <3>2. group = IF differs THEN GroupOf(T, t.secret) ELSE t.group
      BY <2>3 DEF CarriedGroup
    <3>3. o.group = t.group
      BY <1>2
    <3> HIDE DEF differs, group
    <3>4. Carried(format, t, T) = [o EXCEPT !.group = group]
      BY <3>1, <3>2, <3>3
    <3> QED
      BY <1>2, <3>4
  <2> QED
    BY <2>1, <2>2, <2>3 DEF Exports
<1>5. IsName(t.label) /\ IsName(issuer)
  BY WordName DEF issuer, CarriedIssuer, IsToken, IsName
<1> HIDE DEF group
<1>6. IsToken(w)
  BY <1>5 DEF IsToken
<1> QED
  BY <1>4, <1>6 DEF type, issuer, group

\* A token that was read, and has the fields that are carried of a valid one, is stored
\* as that.
LEMMA SameReturns ==
  ASSUME NEW t, Valid(t), NEW o, IsToken(o), NEW w, IsToken(w),
         IsTotp(w) <=> IsTotp(t), IsHotp(w) <=> IsHotp(t),
         w.label = t.label, w.issuer \in {t.issuer, <<"Steam">>},
         w.secret = t.secret, w.digits = t.digits, w.value = t.value,
         o.type = w.type, o.label = w.label, Name(o.issuer) = Name(w.issuer),
         o.secret = w.secret, o.digits = w.digits, o.value = w.value,
         (IF o.group = "" THEN Absent ELSE o.group) = (IF w.group = "" THEN Absent ELSE w.group)
  PROVE  Returns(o, BuildObj(w))
<1>1. BuildObj(o) = BuildObj(w)
  <2> DEFINE f == IF o.group = "" THEN Absent ELSE o.group
             g == IF w.group = "" THEN Absent ELSE w.group
  <2>1. BuildObj(o) = [type |-> o.type, label |-> Name(o.label), issuer |-> Name(o.issuer),
                       secret |-> o.secret, digits |-> o.digits, value |-> o.value, group |-> f]
    BY BuiltRecord
  <2>2. BuildObj(w) = [type |-> w.type, label |-> Name(w.label), issuer |-> Name(w.issuer),
                       secret |-> w.secret, digits |-> w.digits, value |-> w.value, group |-> g]
    BY BuiltRecord
  <2>3. f = g
    OBVIOUS
  <2> HIDE DEF f, g
  <2> QED
    BY <2>1, <2>2, <2>3
<1>2. Named(o)
  <2>1. Named(t)
    BY DEF Valid
  <2>2. Name(<<"Steam">>) # Empty
    <3> DEFINE steam == <<"Steam">>
               none == <<"">>
    <3>1. steam[1] # none[1]
      OBVIOUS
    <3>2. steam # none
      BY <3>1
    <3> QED
      BY <3>2, AbsentAssumption DEF Name, Empty
  <2> QED
    BY <2>1, <2>2 DEF Named
<1>3. Importable(o)
  <2>1. IsTotp(o) <=> IsTotp(t)
    BY DEF IsTotp
  <2>2. IsHotp(o) <=> IsHotp(t)
    BY DEF IsHotp
  <2>3. IsTotp(t) => Uint(t.value) = t.value
    BY ValidNumbers
  <2> QED
    BY <1>2, <2>1, <2>2, <2>3 DEF Importable, Valid
<1> QED
  BY <1>1, <1>2, <1>3 DEF Returns

\* An entry, field by field.
LEMMA EntryRecord ==
  ASSUME NEW t, Valid(t), NEW type, NEW issuer, NEW e, e = Entry(t, type, issuer)
  PROVE  /\ e.type = type /\ e.name = t.label /\ e.issuer = issuer /\ e.group = t.group
         /\ e.secret = t.secret /\ e.digits = t.digits /\ Uint(e.digits) = t.digits
         /\ IsTotp(t) => e.period = t.value /\ e.counter = Absent
         /\ IsHotp(t) => e.period = Absent /\ e.counter = t.value
<1> DEFINE period == IF IsTotp(t) THEN t.value ELSE Absent
           counter == IF IsTotp(t) THEN Absent ELSE t.value
<1>1. e = [type |-> type, name |-> t.label, issuer |-> issuer, group |-> t.group,
           secret |-> t.secret, digits |-> t.digits, period |-> period, counter |-> counter]
  BY DEF Entry
<1>2. /\ IsTotp(t) => period = t.value /\ counter = Absent
      /\ IsHotp(t) => period = Absent /\ counter = t.value
  BY ValidNumbers
<1>3. Uint(t.digits) = t.digits
  BY ValidNumbers
<1> HIDE DEF period, counter
<1> QED
  BY <1>1, <1>2, <1>3

\* The value in an entry of a valid token, whose type says whether it is a counter.
LEMMA EntryValue ==
  ASSUME NEW t, Valid(t), NEW e,
         e.type \in {"HOTP", "hotp"} <=> IsHotp(t),
         IsTotp(t) => e.period = t.value,
         IsHotp(t) => e.counter = t.value
  PROVE  ValueIn(e) = t.value
<1>1. /\ t.value \in Nat /\ Number(t.value) = t.value /\ (IsTotp(t) <=> ~IsHotp(t))
      /\ IsTotp(t) => Uint(t.value) = t.value
  BY ValidNumbers
<1> QED
  BY <1>1 DEF ValueIn

\* What Aegis gives back.
LEMMA AegisReturns ==
  ASSUME NEW T, Tokens(T), ValidRoot(T), NEW i \in DOMAIN T
  PROVE  /\ AegisKnows(ExportAegis(T)[i])
         /\ Carries("aegis", T[i]) =>
              Returns(ReadAegis(ExportAegis(T)[i]), BuildObj(Carried("aegis", T[i], T)))
<1> DEFINE t == T[i]
           e == ExportAegis(T)[i]
           o == ReadAegis(e)
           w == Carried("aegis", t, T)
           type == IF IsSteam(t.issuer) THEN "steam" ELSE Lower(t)
           issuer == IF Name(t.issuer) = Empty THEN Absent ELSE t.issuer
<1>1. IsToken(t) /\ Valid(t)
  BY DEF Tokens, ValidRoot
<1>2. e = Entry(t, type, issuer)
  BY DEF ExportAegis
<1>3. EntryNames(e)
  BY EntriesWritten
<1> HIDE DEF t, e
<1>4. /\ e.type = type /\ e.name = t.label /\ e.issuer = issuer /\ e.group = t.group
      /\ e.secret = t.secret /\ Uint(e.digits) = t.digits
      /\ IsTotp(t) => e.period = t.value
      /\ IsHotp(t) => e.counter = t.value
  BY <1>1, <1>2, EntryRecord
<1>5. IsTotp(t) <=> ~IsHotp(t)
  BY <1>1, ValidNumbers
<1>6. AegisKnows(e)
  BY <1>4 DEF AegisKnows, Lower
<1>7. ASSUME Carries("aegis", t) PROVE Returns(o, BuildObj(w))
  <2>1. IsToken(o)
    BY <1>3, ReadersMakeTokens
  <2>2. /\ IsToken(w)
        /\ w = [type |-> CarriedType("aegis", t), label |-> t.label, issuer |-> CarriedIssuer("aegis", t),
                secret |-> t.secret, digits |-> t.digits, value |-> t.value,
                group |-> CarriedGroup("aegis", t, T)]
    BY <1>1, CarriedRecord DEF Exports
  <2> HIDE DEF w
  <2>3. w.label = t.label /\ w.secret = t.secret /\ w.digits = t.digits /\ w.value = t.value
    BY <2>2
  <2>4. w.group = t.group
    BY <2>2 DEF CarriedGroup
  <2>5. CASE IsSteam(t.issuer)
    <3>1. IsTotp(t) /\ ~IsHotp(t)
      BY <1>5, <1>7, <2>5 DEF Carries
    <3>2. e.type = "steam"
      BY <1>4, <2>5
    <3>3. ValueIn(e) = t.value
      <4>1. e.type \in {"HOTP", "hotp"} <=> IsHotp(t)
        BY <3>1, <3>2
      <4> QED
        BY <1>1, <1>4, <4>1, EntryValue
    <3>4. ValueIn(e) # 0
      BY <1>1, <3>1, <3>3, ValidNumbers
    <3>5. o = [type |-> "TOTP", label |-> t.label, issuer |-> <<"Steam">>, secret |-> t.secret,
               digits |-> t.digits, value |-> t.value, group |-> t.group]
      BY <1>4, <3>2, <3>3, <3>4 DEF ReadAegis, Otp
    <3> HIDE DEF o
    <3>6. w.type = "TOTP" /\ w.issuer = <<"Steam">>
      BY <2>2, <2>5, <3>1 DEF CarriedType, CarriedIssuer, Upper
    <3>7. /\ o.type = w.type /\ o.label = w.label /\ Name(o.issuer) = Name(w.issuer)
          /\ o.secret = w.secret /\ o.digits = w.digits /\ o.value = w.value /\ o.group = w.group
      BY <2>3, <2>4, <3>5, <3>6
    <3>8. IsTotp(w) <=> IsTotp(t)
      BY <3>1, <3>6 DEF IsTotp
    <3>9. IsHotp(w) <=> IsHotp(t)
      BY <3>1, <3>6 DEF IsHotp
    <3> QED
      BY <1>1, <2>1, <2>2, <2>3, <3>6, <3>7, <3>8, <3>9, SameReturns
  <2>6. CASE ~IsSteam(t.issuer)
    <3>1. e.type = Lower(t)
      BY <1>4, <2>6
    <3>2. e.type # "steam" /\ (e.type \in {"HOTP", "hotp"} <=> IsHotp(t))
      BY <1>5, <3>1 DEF Lower
    <3>3. ValueIn(e) = t.value
      BY <1>1, <1>4, <3>2, EntryValue
    <3>5. o = [type |-> e.type, label |-> t.label, issuer |-> e.issuer, secret |-> t.secret,
               digits |-> t.digits, value |-> t.value, group |-> t.group]
      BY <1>4, <3>2, <3>3 DEF ReadAegis, Otp
    <3> HIDE DEF o
    <3>6. w.type = Lower(t) /\ w.issuer = t.issuer
      BY <2>2, <2>6 DEF CarriedType, CarriedIssuer
    <3>7. Name(e.issuer) = Name(t.issuer)
      BY <1>4 DEF Name
    <3>8. /\ o.type = w.type /\ o.label = w.label /\ Name(o.issuer) = Name(w.issuer)
          /\ o.secret = w.secret /\ o.digits = w.digits /\ o.value = w.value /\ o.group = w.group
      BY <2>3, <2>4, <3>1, <3>5, <3>6, <3>7
    <3>9. IsTotp(w) <=> IsTotp(t)
      BY <1>5, <3>6 DEF IsTotp, Lower
    <3>10. IsHotp(w) <=> IsHotp(t)
      BY <1>5, <3>6 DEF IsHotp, IsTotp, Lower
    <3> QED
      BY <1>1, <2>1, <2>2, <2>3, <3>6, <3>8, <3>9, <3>10, SameReturns
  <2> QED
    BY <2>5, <2>6
<1> QED
  BY <1>6, <1>7 DEF t, e

\* What 2FAS gives back.
LEMMA TwofasReturns ==
  ASSUME NEW T, Tokens(T), ValidRoot(T), NEW i \in DOMAIN T
  PROVE  /\ AegisKnows(ExportTwofas(T)[i])
         /\ Returns(ReadTwofas(ExportTwofas(T)[i]), BuildObj(Carried("2fas", T[i], T)))
<1> DEFINE t == T[i]
           e == ExportTwofas(T)[i]
           o == ReadTwofas(e)
           w == Carried("2fas", t, T)
           issuer == IF IsSteam(t.issuer) THEN <<"Steam">> ELSE t.issuer
<1>1. IsToken(t) /\ Valid(t)
  BY DEF Tokens, ValidRoot
<1>2. e = Entry(t, Upper(t), issuer)
  BY DEF ExportTwofas
<1>3. EntryNames(e)
  BY EntriesWritten
<1> HIDE DEF t, e
<1>4. /\ e.type = Upper(t) /\ e.name = t.label /\ e.issuer = issuer /\ e.group = t.group
      /\ e.secret = t.secret /\ Uint(e.digits) = t.digits
      /\ IsTotp(t) => e.period = t.value
      /\ IsHotp(t) => e.counter = t.value
  BY <1>1, <1>2, EntryRecord
<1>5. IsTotp(t) <=> ~IsHotp(t)
  BY <1>1, ValidNumbers
<1>6. AegisKnows(e)
  BY <1>4 DEF AegisKnows, Upper
<1>7. IsToken(o)
  BY <1>3, ReadersMakeTokens
<1>8. /\ IsToken(w)
      /\ w = [type |-> CarriedType("2fas", t), label |-> t.label, issuer |-> CarriedIssuer("2fas", t),
              secret |-> t.secret, digits |-> t.digits, value |-> t.value,
              group |-> CarriedGroup("2fas", t, T)]
  BY <1>1, CarriedRecord DEF Exports
<1> HIDE DEF w
<1>9. /\ w.label = t.label /\ w.secret = t.secret /\ w.digits = t.digits /\ w.value = t.value
      /\ w.group = t.group /\ w.type = Upper(t) /\ w.issuer = issuer
  BY <1>8 DEF CarriedType, CarriedIssuer, CarriedGroup
<1>10. e.type # "steam" /\ (e.type \in {"HOTP", "hotp"} <=> IsHotp(t))
  BY <1>4, <1>5 DEF Upper
<1>11. ValueIn(e) = t.value
  BY <1>1, <1>4, <1>10, EntryValue
<1>12. (IF e.type \in {"TOTP", "totp"} THEN "TOTP" ELSE "HOTP") = Upper(t)
  BY <1>4 DEF Upper
<1>13. o = [type |-> Upper(t), label |-> t.label, issuer |-> issuer, secret |-> t.secret,
            digits |-> t.digits, value |-> t.value, group |-> t.group]
  BY <1>4, <1>10, <1>11, <1>12 DEF ReadTwofas, Otp
<1>14. w.issuer \in {t.issuer, <<"Steam">>}
  BY <1>9
<1> HIDE DEF o, issuer
<1>15. /\ o.type = w.type /\ o.label = w.label /\ Name(o.issuer) = Name(w.issuer)
       /\ o.secret = w.secret /\ o.digits = w.digits /\ o.value = w.value /\ o.group = w.group
  BY <1>9, <1>13
<1>16. IsTotp(w) <=> IsTotp(t)
  BY <1>5, <1>9 DEF IsTotp, Upper
<1>17. IsHotp(w) <=> IsHotp(t)
  BY <1>5, <1>9 DEF IsHotp, IsTotp, Upper
<1>18. Returns(o, BuildObj(w))
  BY <1>1, <1>7, <1>8, <1>9, <1>14, <1>15, <1>16, <1>17, SameReturns
<1> QED
  BY <1>6, <1>18 DEF t, e, o, w

\* The group of a secret is the same in the entries of a file as in the tokens.
LEMMA GroupSame ==
  ASSUME NEW T, Listed(T), NEW E, Listed(E), DOMAIN E = DOMAIN T,
         \A i \in DOMAIN T : E[i].secret = T[i].secret /\ E[i].group = T[i].group,
         NEW secret
  PROVE  GroupOf(E, secret) = GroupOf(T, secret)
<1> DEFINE of == {i \in DOMAIN T : T[i].secret = secret /\ T[i].group \notin {Absent, ""}}
           ofE == {i \in DOMAIN E : E[i].secret = secret /\ E[i].group \notin {Absent, ""}}
<1>1. ofE = of /\ of \in SUBSET (DOMAIN T)
  OBVIOUS
<1>2. /\ GroupOf(T, secret) = IF of = {} THEN Absent ELSE Pick(T, of)[1].group
      /\ GroupOf(E, secret) = IF ofE = {} THEN Absent ELSE Pick(E, ofE)[1].group
  BY DEF GroupOf
<1> HIDE DEF of, ofE
<1>3. CASE of = {}
  BY <1>1, <1>2, <1>3
<1>4. CASE of # {}
  <2>1. PICK i \in of : Pick(E, of)[1] = E[i] /\ Pick(T, of)[1] = T[i]
    BY <1>1, <1>4, PickSame
  <2> QED
    BY <1>1, <1>2, <1>4, <2>1
<1> QED
  BY <1>3, <1>4

\* When no token of its secret is in another group, the group of the secret is that of
\* the token, as it is stored.
LEMMA GroupKept ==
  ASSUME NEW T, Listed(T), NEW t \in ToSet(T),
         ~\E u \in ToSet(T) : u.secret = t.secret /\ u.group # t.group
  PROVE  LET g == GroupOf(T, t.secret)
         IN  (IF g = "" THEN Absent ELSE g) = (IF t.group = "" THEN Absent ELSE t.group)
<1> DEFINE of == {i \in DOMAIN T : T[i].secret = t.secret /\ T[i].group \notin {Absent, ""}}
           g == GroupOf(T, t.secret)
<1>1. g = IF of = {} THEN Absent ELSE Pick(T, of)[1].group
  BY DEF GroupOf
<1>2. of \in SUBSET (DOMAIN T)
  OBVIOUS
<1>3. PICK k \in DOMAIN T : T[k] = t
  BY DEF ToSet
<1>4. of = {} => t.group \in {Absent, ""}
  BY <1>3
<1>5. \A i \in of : T[i].group = t.group
  BY DEF ToSet
<1> HIDE DEF of, g
<1>6. CASE of = {}
  BY <1>1, <1>4, <1>6 DEF g
<1>7. CASE of # {}
  <2>1. PICK i \in of : Pick(T, of)[1] = T[i]
    BY <1>2, <1>7, PickSame
  <2> QED
    BY <1>1, <1>5, <1>7, <2>1 DEF g
<1> QED
  BY <1>6, <1>7

\* What Authenticator Pro gives back.
LEMMA AuthproReturns ==
  ASSUME NEW T, Tokens(T), ValidRoot(T), NEW i \in DOMAIN T
  PROVE  /\ AegisKnows(ExportAuthpro(T)[i])
         /\ Returns(ReadAuthpro(ExportAuthpro(T)[i], ExportAuthpro(T)), BuildObj(Carried("authpro", T[i], T)))
<1> DEFINE t == T[i]
           E == ExportAuthpro(T)
           e == E[i]
           o == ReadAuthpro(e, E)
           w == Carried("authpro", t, T)
           issuer == IF IsSteam(t.issuer) THEN <<"Steam">> ELSE t.issuer
           type == IF IsTotp(t) /\ IsSteam(issuer) THEN "steam" ELSE Upper(t)
           group == GroupOf(T, t.secret)
<1>1. IsToken(t) /\ Valid(t) /\ Listed(T)
  BY DEF Tokens, ValidRoot
<1>2. Listed(E) /\ DOMAIN E = DOMAIN T
  <2>1. E = [j \in DOMAIN T |-> E[j]]
    BY DEF ExportAuthpro
  <2> HIDE DEF E
  <2> QED
    BY <1>1, <2>1, MadeListed
<1>3. ASSUME NEW u, Valid(u), NEW ty, NEW iss
      PROVE  LET f == Entry(u, ty, iss)
                 g == [f EXCEPT !.period = Number(@), !.counter = Number(@)]
             IN  /\ g.type = ty /\ g.name = u.label /\ g.issuer = iss /\ g.group = u.group
                 /\ g.secret = u.secret /\ g.digits = u.digits
                 /\ IsTotp(u) => g.period = u.value
                 /\ IsHotp(u) => g.counter = u.value
  <2> DEFINE f == Entry(u, ty, iss)
             period == Number(f.period)
             counter == Number(f.counter)
             g == [f EXCEPT !.period = period, !.counter = counter]
  <2>1. f = [type |-> ty, name |-> u.label, issuer |-> iss, group |-> u.group, secret |-> u.secret,
             digits |-> u.digits, period |-> f.period, counter |-> f.counter]
    BY DEF Entry
  <2>2. /\ IsTotp(u) => f.period = u.value
        /\ IsHotp(u) => f.counter = u.value
    BY <1>3, EntryRecord
  <2>3. /\ IsTotp(u) => period = u.value
        /\ IsHotp(u) => counter = u.value
    BY <1>3, <2>2, ValidNumbers
  <2>4. [f EXCEPT !.period = Number(@), !.counter = Number(@)] = g
    OBVIOUS
  <2> HIDE DEF f, period, counter
  <2>5. /\ g.type = ty /\ g.name = u.label /\ g.issuer = iss /\ g.group = u.group
        /\ g.secret = u.secret /\ g.digits = u.digits
        /\ g.period = period /\ g.counter = counter
    BY <2>1
  <2>6. /\ g.type = ty /\ g.name = u.label /\ g.issuer = iss /\ g.group = u.group
        /\ g.secret = u.secret /\ g.digits = u.digits
        /\ IsTotp(u) => g.period = u.value
        /\ IsHotp(u) => g.counter = u.value
    BY <2>3, <2>5
  <2> QED
    BY <2>4, <2>6 DEF f
<1>4. \A j \in DOMAIN T : E[j].secret = T[j].secret /\ E[j].group = T[j].group
  <2> TAKE j \in DOMAIN T
  <2>1. Valid(T[j])
    BY DEF ValidRoot
  <2>2. PICK ty, iss : E[j] = [Entry(T[j], ty, iss) EXCEPT !.period = Number(@), !.counter = Number(@)]
    BY DEF ExportAuthpro
  <2> HIDE DEF E
  <2> QED
    BY <1>3, <2>1, <2>2
<1>5. e = [Entry(t, type, issuer) EXCEPT !.period = Number(@), !.counter = Number(@)]
  BY DEF ExportAuthpro
<1>6. EntryNames(e)
  BY EntriesWritten
<1> HIDE DEF E
<1>7. GroupOf(E, e.secret) = GroupOf(T, e.secret)
  BY <1>1, <1>2, <1>4, GroupSame
<1>8. t \in ToSet(T)
  BY DEF ToSet
<1> HIDE DEF t, e
<1>9. /\ e.type = type /\ e.name = t.label /\ e.issuer = issuer /\ e.group = t.group
      /\ e.secret = t.secret /\ e.digits = t.digits
      /\ IsTotp(t) => e.period = t.value
      /\ IsHotp(t) => e.counter = t.value
  BY <1>1, <1>3, <1>5
<1>10. (IsTotp(t) <=> ~IsHotp(t)) /\ Uint(t.digits) = t.digits
  BY <1>1, ValidNumbers
<1>11. AegisKnows(e)
  BY <1>9 DEF AegisKnows, Upper
<1>12. IsToken(o)
  BY <1>6, ReadersMakeTokens
<1>13. /\ IsToken(w)
       /\ w = [type |-> CarriedType("authpro", t), label |-> t.label, issuer |-> CarriedIssuer("authpro", t),
               secret |-> t.secret, digits |-> t.digits, value |-> t.value,
               group |-> CarriedGroup("authpro", t, T)]
  BY <1>1, CarriedRecord DEF Exports
<1> HIDE DEF w
<1>14. /\ w.label = t.label /\ w.secret = t.secret /\ w.digits = t.digits /\ w.value = t.value
       /\ w.type = Upper(t) /\ w.issuer = issuer
       /\ w.group = CarriedGroup("authpro", t, T)
  BY <1>13 DEF CarriedType, CarriedIssuer
<1>15. (IF group = "" THEN Absent ELSE group) = (IF w.group = "" THEN Absent ELSE w.group)
  <2>1. CASE \E u \in ToSet(T) : u.secret = t.secret /\ u.group # t.group
    BY <1>14, <2>1 DEF CarriedGroup
  <2>2. CASE ~\E u \in ToSet(T) : u.secret = t.secret /\ u.group # t.group
    <3>1. w.group = t.group
      BY <1>14, <2>2 DEF CarriedGroup
    <3> QED
      BY <1>1, <1>8, <2>2, <3>1, GroupKept
  <2> QED
    BY <2>1, <2>2
<1>16. GroupOf(E, e.secret) = group
  BY <1>7, <1>9
<1>17. e.type \in {"HOTP", "hotp"} <=> IsHotp(t)
  BY <1>9, <1>10 DEF Upper
<1>18. ValueIn(e) = t.value
  BY <1>1, <1>9, <1>17, EntryValue
<1>19. e.type = "steam" => issuer = <<"Steam">> /\ Upper(t) = "TOTP"
  <2>1. IsSteam(issuer) => issuer = <<"Steam">>
    BY DEF IsSteam
  <2> QED
    BY <1>9, <2>1 DEF Upper
<1>20. e.type # "steam" => e.type = Upper(t)
  BY <1>9
<1>21. o = [type |-> Upper(t), label |-> t.label, issuer |-> issuer, secret |-> t.secret,
            digits |-> t.digits, value |-> t.value, group |-> group]
  <2> HIDE DEF issuer, type, group
  <2>1. CASE e.type = "steam"
    BY <1>9, <1>10, <1>16, <1>18, <1>19, <2>1 DEF ReadAuthpro, Otp
  <2>2. CASE e.type # "steam"
    BY <1>9, <1>10, <1>16, <1>18, <1>20, <2>2 DEF ReadAuthpro, Otp
  <2> QED
    BY <2>1, <2>2
<1>22. w.issuer \in {t.issuer, <<"Steam">>}
  BY <1>14
<1> HIDE DEF o, issuer, group
<1>23. /\ o.type = w.type /\ o.label = w.label /\ Name(o.issuer) = Name(w.issuer)
       /\ o.secret = w.secret /\ o.digits = w.digits /\ o.value = w.value /\ o.group = group
  BY <1>14, <1>21
<1>24. IsTotp(w) <=> IsTotp(t)
  BY <1>10, <1>14 DEF IsTotp, Upper
<1>25. IsHotp(w) <=> IsHotp(t)
  BY <1>10, <1>14 DEF IsHotp, IsTotp, Upper
<1>26. (IF o.group = "" THEN Absent ELSE o.group) = (IF w.group = "" THEN Absent ELSE w.group)
  BY <1>15, <1>23
<1>27. Returns(o, BuildObj(w))
  BY <1>1, <1>12, <1>13, <1>14, <1>22, <1>23, <1>24, <1>25, <1>26, SameReturns
<1> QED
  BY <1>11, <1>27 DEF t, e, E, o, w

\* One word in front of a name, and the name without it.
LEMMA OneInFront ==
  ASSUME NEW m, IsWords(m), Len(m) = 1, NEW n, IsWords(n)
  PROVE  /\ Tail(m \o n) = n /\ Len(m \o n) > 1
         /\ ToSet(m \o n) = ToSet(m) \cup ToSet(n)
<1> DEFINE s == m \o n
           S == ToSet(m) \cup ToSet(n)
<1>1. Listed(m) /\ Listed(n) /\ Len(n) \in Nat \ {0} /\ Len(m) = 1
  BY NameFacts
<1>2. /\ Listed(s) /\ Len(s) = 1 + Len(n)
      /\ \A i \in 1..1 : s[i] = m[i]
      /\ \A i \in 1..Len(n) : s[1 + i] = n[i]
  <2>1. Listed(m) /\ Listed(n)
    BY <1>1
  <2>2. /\ Listed(m \o n) /\ Len(m \o n) = Len(m) + Len(n)
        /\ \A i \in 1..Len(m) : (m \o n)[i] = m[i]
        /\ \A i \in 1..Len(n) : (m \o n)[Len(m) + i] = n[i]
    BY ONLY <2>1, Joined
  <2> QED
    BY <1>1, <2>2
<1>3. DOMAIN s = 1..Len(s) /\ DOMAIN m = 1..1 /\ DOMAIN n = 1..Len(n) /\ n \in Seq(ToSet(n))
  BY <1>1, <1>2, ListedSeq
<1>4. \A i \in 1..Len(s) : i = 1 \/ i - 1 \in 1..Len(n)
  BY <1>1, <1>2
<1>5. \A i \in 1..Len(n) : 1 + i \in 1..Len(s)
  BY <1>1, <1>2
<1>6. 1 \in 1..Len(s)
  BY <1>1, <1>2
<1> HIDE DEF s
<1>7. ToSet(s) = ToSet(m) \cup ToSet(n)
  <2>1. ASSUME NEW x \in ToSet(s) PROVE x \in ToSet(m) \cup ToSet(n)
    <3>1. PICK i \in 1..Len(s) : s[i] = x
      BY <1>3, <2>1 DEF ToSet
    <3>2. CASE i = 1
      BY <1>2, <1>3, <3>1, <3>2 DEF ToSet
    <3>3. CASE i - 1 \in 1..Len(n)
      <4>1. s[1 + (i - 1)] = n[i - 1] /\ 1 + (i - 1) = i
        BY <1>2, <3>1, <3>3
      <4> QED
        BY <1>3, <3>1, <3>3, <4>1 DEF ToSet
    <3> QED
      BY <1>4, <3>2, <3>3
  <2>2. ASSUME NEW x \in ToSet(m) PROVE x \in ToSet(s)
    BY <1>2, <1>3, <1>6, <2>2 DEF ToSet
  <2>3. ASSUME NEW x \in ToSet(n) PROVE x \in ToSet(s)
    <3>1. PICK i \in 1..Len(n) : n[i] = x
      BY <1>3, <2>3 DEF ToSet
    <3>2. s[1 + i] = x /\ 1 + i \in 1..Len(s)
      BY <1>2, <1>5, <3>1
    <3> QED
      BY <1>3, <3>2 DEF ToSet
  <2> QED
    BY <2>1, <2>2, <2>3
<1>8. s \in Seq(S) /\ n \in Seq(S) /\ s # << >>
  <2>1. s \in Seq(ToSet(s))
    BY <1>2, ListedSeq
  <2>2. Len(s) # 0
    BY <1>1, <1>2
  <2>3. s # << >>
    BY <2>2, EmptyTokens
  <2>4. ToSet(n) \subseteq S
    OBVIOUS
  <2> QED
    BY <1>3, <1>7, <2>1, <2>3, <2>4
<1> HIDE DEF S
<1>9. /\ Tail(s) \in Seq(S) /\ Len(Tail(s)) = Len(s) - 1
      /\ \A i \in 1..Len(Tail(s)) : Tail(s)[i] = s[i + 1]
  BY <1>8, HeadTailProperties
<1>10. Len(Tail(s)) = Len(n)
  BY <1>1, <1>2, <1>9
<1>11. \A i \in 1..Len(Tail(s)) : Tail(s)[i] = n[i]
  <2> TAKE i \in 1..Len(Tail(s))
  <2>1. i \in 1..Len(n) /\ i + 1 = 1 + i
    BY <1>10
  <2> QED
    BY <1>2, <1>9, <2>1
<1>12. Tail(s) = n
  BY <1>8, <1>9, <1>10, <1>11, SeqEqual
<1>13. Len(s) > 1
  BY <1>1, <1>2
<1> QED
  BY <1>7, <1>12, <1>13 DEF s

\* The path of a token that a URI can carry: behind its first word, or whole when it has
\* no other, stands the label.
LEMMA UriPath ==
  ASSUME NEW t, IsToken(t), UriCarries(t), NEW p, p = UriOf(t).path
  PROVE  /\ ToSet(p) \cap Percent = {}
         /\ (IF Len(p) > 1 THEN Tail(p) ELSE p) = t.label
         /\ Name(t.issuer) = Empty <=> ~(Len(p) > 1)
<1> DEFINE steam == <<"Steam">>
           label == t.label
           issuer == t.issuer
<1>1. /\ IsWords(label) /\ IsName(issuer)
      /\ Name(issuer) = Empty => Len(label) = 1
      /\ Len(Name(issuer)) = 1
      /\ (ToSet(label) \cup ToSet(Name(issuer))) \cap Percent = {}
  BY DEF IsToken, IsName, UriCarries
<1>2. p = IF IsSteam(issuer) THEN steam \o label
          ELSE IF Name(issuer) # Empty THEN issuer \o label
          ELSE label
  BY DEF UriOf
<1>3. CASE IsSteam(issuer)
  <2>1. IsWords(steam) /\ Len(steam) = 1 /\ ToSet(steam) = {"Steam"}
    BY WordName DEF ToSet
  <2>2. Name(issuer) # Empty
    <3> DEFINE small == <<"steam">>
               none == <<"">>
    <3>1. issuer # Absent /\ issuer \in {steam, small}
      BY <1>3, AbsentAssumption DEF IsSteam
    <3>2. steam[1] # none[1] /\ small[1] # none[1]
      OBVIOUS
    <3>3. steam # none /\ small # none
      BY <3>2
    <3> QED
      BY <3>1, <3>3 DEF Name, Empty
  <2>3. p = steam \o label
    BY <1>2, <1>3
  <2> HIDE DEF steam
  <2>4. Tail(p) = label /\ Len(p) > 1 /\ ToSet(p) = ToSet(steam) \cup ToSet(label)
    BY <1>1, <2>1, <2>3, OneInFront
  <2> QED
    BY <1>1, <2>1, <2>2, <2>4, PercentAssumption
<1>4. CASE ~IsSteam(issuer) /\ Name(issuer) # Empty
  <2>1. issuer # Absent /\ Name(issuer) = issuer
    BY <1>4 DEF Name
  <2>2. IsWords(issuer) /\ Len(issuer) = 1
    BY <1>1, <2>1 DEF IsName
  <2>3. p = issuer \o label
    BY <1>2, <1>4
  <2>4. Tail(p) = label /\ Len(p) > 1 /\ ToSet(p) = ToSet(issuer) \cup ToSet(label)
    BY <1>1, <2>2, <2>3, OneInFront
  <2> QED
    BY <1>1, <1>4, <2>1, <2>4
<1>5. CASE ~IsSteam(issuer) /\ Name(issuer) = Empty
  <2>1. p = label /\ Len(p) = 1
    BY <1>1, <1>2, <1>5
  <2> QED
    BY <1>1, <1>5, <2>1
<1> QED
  BY <1>3, <1>4, <1>5

\* What a URI gives back.
LEMMA UriReturns ==
  ASSUME NEW T, NEW t, IsToken(t), Valid(t), Carries("uri", t)
  PROVE  /\ Parses(UriOf(t)) /\ LineNames(UriOf(t))
         /\ Returns(ReadUri(UriOf(t)), BuildObj(Carried("uri", t, T)))
<1> DEFINE u == UriOf(t)
           o == ReadUri(u)
           w == Carried("uri", t, T)
           type == IF IsSteam(t.issuer) THEN "totp" ELSE Lower(t)
           path == u.path
           issuer == IF Name(t.issuer) = Empty THEN Absent ELSE t.issuer
           period == IF IsTotp(t) THEN t.value ELSE Absent
           counter == IF IsTotp(t) THEN Absent ELSE t.value
<1>1. UriCarries(t) /\ ~(IsHotp(t) /\ IsSteam(t.issuer))
  BY DEF Carries
<1>2. u = [type |-> type, path |-> path, issuer |-> issuer, secret |-> t.secret,
           digits |-> t.digits, period |-> period, counter |-> counter]
  BY DEF UriOf
<1>3. /\ t.value \in Nat /\ t.digits \in 4 .. 10
      /\ IsTotp(t) => t.value \in 1 .. 120 /\ Uint(t.value) = t.value
      /\ IsTotp(t) <=> ~IsHotp(t)
  BY ValidNumbers
<1>4. LineNames(u)
  BY NamesWritten, <1>1 DEF UriCarries
<1>5. /\ ToSet(path) \cap Percent = {}
      /\ (IF Len(path) > 1 THEN Tail(path) ELSE path) = t.label
      /\ Name(t.issuer) = Empty <=> ~(Len(path) > 1)
  BY <1>1, UriPath
<1>6. type = (IF IsTotp(t) THEN "totp" ELSE "hotp")
  BY <1>1, <1>3 DEF Lower
<1>7. /\ issuer = Absent <=> Name(t.issuer) = Empty
      /\ issuer # Absent => issuer = t.issuer /\ Name(t.issuer) = t.issuer
  BY DEF Name
<1> HIDE DEF u, path, type, issuer
<1>8. /\ u.type = type /\ u.path = path /\ u.issuer = issuer /\ u.secret = t.secret
      /\ u.digits = t.digits /\ u.period = period /\ u.counter = counter
  BY <1>2
<1>9. Parses(u)
  <2>1. issuer # Absent => ToSet(issuer) \cap (Percent \cup Ampersand) = {}
    BY <1>1, <1>7 DEF UriCarries
  <2>2. type \in {"totp", "hotp"}
    BY <1>6
  <2>3. path # Empty
    <3>1. CASE Len(path) > 1
      <4>1. Len(Empty) = 1
        BY DEF Empty
      <4>2. path = Empty => Len(path) = 1
        BY <4>1
      <4>3. ~(1 > 1)
        OBVIOUS
      <4> QED
        BY <3>1, <4>2, <4>3, Zenon
    <3>2. CASE ~(Len(path) > 1)
      <4>1. path = t.label /\ Name(t.issuer) = Empty
        BY <1>5, <3>2
      <4>2. Name(t.label) # Empty
        BY <4>1 DEF Valid, Named
      <4> QED
        BY <4>1, <4>2 DEF Name
    <3> QED
      BY <3>1, <3>2
  <2> QED
    BY <1>5, <1>8, <2>1, <2>2, <2>3 DEF Parses
<1>10. UriDigits(u) = t.digits
  <2>1. t.digits # Absent /\ DigitsOk(t.digits)
    BY <1>3, AbsentAssumption DEF DigitsOk
  <2> QED
    BY <1>8, <2>1 DEF UriDigits
<1>11. UriValue(u) = t.value
  <2>1. CASE IsTotp(t)
    <3>1. u.type = "totp" /\ u.period = t.value /\ u.counter = Absent
      BY <1>6, <1>8, <2>1
    <3>2. t.value # Absent /\ PeriodOk(t.value)
      BY <1>3, <2>1, AbsentAssumption DEF PeriodOk
    <3> QED
      BY <1>3, <2>1, <3>1, <3>2 DEF UriValue
  <2>2. CASE ~IsTotp(t)
    <3>1. u.type = "hotp" /\ u.period = Absent /\ u.counter = t.value
      BY <1>6, <1>8, <2>2
    <3>2. t.value # Absent /\ CounterOk(t.value)
      BY <1>3, <2>2, AbsentAssumption DEF Valid
    <3> QED
      BY <3>1, <3>2 DEF UriValue
  <2> QED
    BY <2>1, <2>2
<1>12. /\ o.type = Upper(t) /\ o.label = t.label /\ Name(o.issuer) = Name(t.issuer)
       /\ o.secret = t.secret /\ o.digits = t.digits /\ o.value = t.value /\ o.group = Absent
  <2> DEFINE label == IF Len(path) > 1 THEN Tail(path) ELSE path
             from_path == IF Len(path) > 1 THEN <<Head(path)>> ELSE Empty
             who == IF issuer # Absent THEN issuer ELSE from_path
             kind == IF u.type = "totp" THEN "TOTP" ELSE "HOTP"
  <2>1. o = [type |-> kind, label |-> label, issuer |-> who, secret |-> t.secret,
             digits |-> t.digits, value |-> t.value, group |-> Absent]
    BY <1>8, <1>10, <1>11 DEF ReadUri
  <2>2. kind = Upper(t)
    BY <1>6, <1>8 DEF Upper
  <2>3. Name(who) = Name(t.issuer)
    <3>1. CASE issuer # Absent
      BY <1>7, <3>1
    <3>2. CASE issuer = Absent
      <4>1. who = Empty /\ Name(t.issuer) = Empty
        BY <1>5, <1>7, <3>2
      <4>2. Name(Empty) = Empty
        BY DEF Name
      <4> QED
        BY <4>1, <4>2
    <3> QED
      BY <3>1, <3>2
  <2>4. label = t.label
    BY <1>5
  <2> HIDE DEF label, who, kind, o
  <2> QED
    BY <2>1, <2>2, <2>3, <2>4
<1>13. /\ w = [type |-> Upper(t), label |-> t.label, issuer |-> t.issuer, secret |-> t.secret,
               digits |-> t.digits, value |-> t.value, group |-> Absent]
       /\ IsToken(w)
  <2>1. /\ w = [type |-> CarriedType("uri", t), label |-> t.label, issuer |-> CarriedIssuer("uri", t),
                secret |-> t.secret, digits |-> t.digits, value |-> t.value,
                group |-> CarriedGroup("uri", t, T)]
        /\ IsToken(w)
    BY CarriedRecord DEF Exports
  <2> QED
    BY <2>1 DEF CarriedType, CarriedIssuer, CarriedGroup
<1>14. IsToken(o)
  BY <1>4, ReadersMakeTokens
<1>15. /\ IsTotp(w) <=> IsTotp(t)
       /\ IsHotp(w) <=> IsHotp(t)
  <2>1. w.type = Upper(t)
    BY <1>13
  <2> HIDE DEF w
  <2> QED
    BY <1>3, <2>1 DEF IsTotp, IsHotp, Upper
<1>16. /\ w.type = Upper(t) /\ w.label = t.label /\ w.issuer = t.issuer /\ w.secret = t.secret
       /\ w.digits = t.digits /\ w.value = t.value /\ w.group = Absent
  BY <1>13
<1> HIDE DEF o, w
<1>17. Returns(o, BuildObj(w))
  BY <1>12, <1>13, <1>14, <1>15, <1>16, SameReturns
<1> QED
  BY <1>4, <1>9, <1>17 DEF u, o, w

\* A line whose token has a name and is valid is read as that token.
LEMMA UrisKept ==
  ASSUME NEW uris, Listed(uris), NEW sound \in SUBSET (DOMAIN uris),
         \A i \in sound : /\ Parses(uris[i]) /\ Named(ReadUri(uris[i]))
                          /\ Importable(ReadUri(uris[i]))
  PROVE  /\ \A i \in sound : \E k \in DOMAIN ReadUris(uris) : ReadUris(uris)[k] = ReadUri(uris[i])
         /\ sound = DOMAIN uris => ReadUris(uris) = [i \in DOMAIN uris |-> ReadUri(uris[i])]
<1> DEFINE good == {i \in DOMAIN uris : Parses(uris[i]) /\ Importable(Repaired(ReadUri(uris[i]), 1))}
           kept == Pick(uris, good)
           read == [k \in DOMAIN kept |-> Repaired(ReadUri(kept[k]), k)]
<1>1. ReadUris(uris) = read
  BY DEF ReadUris
<1>2. \A i \in sound : \A k : Repaired(ReadUri(uris[i]), k) = ReadUri(uris[i])
  BY DEF Repaired
<1>3. good \in SUBSET (DOMAIN uris) /\ sound \subseteq good
  BY <1>2
<1> HIDE DEF good
<1>4. ASSUME NEW i \in sound
      PROVE  \E k \in DOMAIN read : read[k] = ReadUri(uris[i])
  <2>1. PICK k \in DOMAIN kept : kept[k] = uris[i]
    BY <1>3, PickOnto
  <2> HIDE DEF kept
  <2>2. k \in DOMAIN read /\ read[k] = Repaired(ReadUri(uris[i]), k)
    BY <2>1
  <2> QED
    BY <1>2, <2>2
<1>5. ASSUME sound = DOMAIN uris
      PROVE  read = [i \in DOMAIN uris |-> ReadUri(uris[i])]
  <2>1. kept = uris
    BY <1>3, <1>5, PickAll
  <2> HIDE DEF kept
  <2> QED
    BY <1>2, <1>5, <2>1
<1> HIDE DEF read
<1> QED
  BY <1>1, <1>4, <1>5

\* So the tokens that a URI can carry are read out of the file they were written to.
LEMMA UrisBack ==
  ASSUME NEW T, Tokens(T), ValidRoot(T)
  PROVE  LET otps == ReadUris(ExportUris(T))
         IN  /\ Tokens(otps)
             /\ \A i \in DOMAIN T : Carries("uri", T[i]) =>
                  \E k \in DOMAIN otps : otps[k] = ReadUri(UriOf(T[i]))
             /\ (\A i \in DOMAIN T : Carries("uri", T[i])) =>
                  otps = [i \in DOMAIN T |-> ReadUri(UriOf(T[i]))]
<1> DEFINE has == {i \in DOMAIN T : T[i].label # Absent}
           labelled == Pick(T, has)
           uris == [i \in DOMAIN labelled |-> UriOf(labelled[i])]
           sound == {k \in DOMAIN labelled : Carries("uri", labelled[k])}
           otps == ReadUris(uris)
<1>1. ExportUris(T) = uris
  BY DEF ExportUris
<1>2. Listed(T) /\ \A i \in DOMAIN T : IsToken(T[i]) /\ Valid(T[i])
  BY DEF Tokens, ValidRoot
<1>3. has \in SUBSET (DOMAIN T) /\ \A i \in DOMAIN T : Carries("uri", T[i]) => i \in has
  BY DEF Carries, UriCarries
<1>4. \A i \in has : T[i].label # Absent
  OBVIOUS
<1> HIDE DEF has
<1>5. /\ Listed(labelled)
      /\ \A k \in DOMAIN labelled : \E i \in has : labelled[k] = T[i]
  BY <1>2, <1>3, PickListed
<1>6. \A k \in DOMAIN labelled : /\ IsToken(labelled[k]) /\ Valid(labelled[k])
                                 /\ labelled[k].label # Absent
  BY <1>2, <1>3, <1>4, <1>5
<1>7. \A i \in has : \E k \in DOMAIN labelled : labelled[k] = T[i]
  BY <1>2, <1>3, PickOnto
<1>8. (\A i \in DOMAIN T : Carries("uri", T[i])) => labelled = T
  <2>1. has = DOMAIN T => labelled = T
    BY <1>2, PickAll
  <2> HIDE DEF labelled
  <2> QED
    BY <1>3, <2>1
<1> HIDE DEF labelled
<1>9. Listed(uris) /\ DOMAIN uris = DOMAIN labelled
  BY <1>5, MadeListed
<1>10. \A k \in DOMAIN labelled : uris[k] = UriOf(labelled[k])
  OBVIOUS
<1>11. sound \in SUBSET (DOMAIN labelled) /\ \A k \in sound : Carries("uri", labelled[k])
  OBVIOUS
<1>12. \A k \in DOMAIN labelled : Carries("uri", labelled[k]) => k \in sound
  OBVIOUS
<1> HIDE DEF uris, sound
<1>13. Tokens(otps)
  <2>1. \A k \in DOMAIN uris : LineNames(uris[k])
    BY <1>6, <1>9, <1>10, NamesWritten
  <2> QED
    BY <1>9, <2>1, UrisRead
<1>14. \A k \in sound : /\ Parses(uris[k]) /\ Named(ReadUri(uris[k]))
                        /\ Importable(ReadUri(uris[k]))
  <2> TAKE k \in sound
  <2>1. IsToken(labelled[k]) /\ Valid(labelled[k]) /\ Carries("uri", labelled[k])
    BY <1>6, <1>11
  <2>2. /\ Parses(UriOf(labelled[k]))
        /\ \E w : Returns(ReadUri(UriOf(labelled[k])), w)
    BY <2>1, UriReturns
  <2> QED
    BY <1>10, <1>11, <2>2 DEF Returns
<1>15. /\ \A k \in sound : \E l \in DOMAIN otps : otps[l] = ReadUri(uris[k])
       /\ sound = DOMAIN uris => otps = [k \in DOMAIN uris |-> ReadUri(uris[k])]
  BY <1>9, <1>11, <1>14, UrisKept
<1> HIDE DEF otps
<1>16. ASSUME NEW i \in DOMAIN T, Carries("uri", T[i])
       PROVE  \E k \in DOMAIN otps : otps[k] = ReadUri(UriOf(T[i]))
  <2>1. PICK k \in DOMAIN labelled : labelled[k] = T[i]
    BY <1>3, <1>7, <1>16
  <2>2. k \in sound /\ uris[k] = UriOf(T[i])
    BY <1>10, <1>12, <1>16, <2>1
  <2> QED
    BY <1>15, <2>2
<1>17. ASSUME \A i \in DOMAIN T : Carries("uri", T[i])
       PROVE  otps = [i \in DOMAIN T |-> ReadUri(UriOf(T[i]))]
  <2>1. labelled = T
    BY <1>8, <1>17
  <2>2. sound = DOMAIN uris
    BY <1>9, <1>11, <1>12, <1>17, <2>1
  <2>3. otps = [k \in DOMAIN T |-> ReadUri(uris[k])]
    BY <1>9, <1>15, <2>1, <2>2
  <2>4. \A k \in DOMAIN T : uris[k] = UriOf(T[k])
    BY <1>10, <2>1
  <2> QED
    BY <2>3, <2>4
<1> QED
  BY <1>1, <1>13, <1>16, <1>17 DEF otps

\* So are the tokens of a JSON file, every one of them and in their order.
LEMMA EntriesBack ==
  ASSUME NEW T, Tokens(T), ValidRoot(T), NEW format \in Exports \ {"uri"}, NEW password,
         NEW file, file = Export(format, password, T)
  PROVE  LET otps == ReadEntries(file)
         IN  /\ otps = [i \in DOMAIN T |-> otps[i]]
             /\ \A i \in DOMAIN T : Carries(format, T[i]) =>
                  Returns(otps[i], BuildObj(Carried(format, T[i], T)))
<1> DEFINE E == file.entries
           known == {i \in DOMAIN E : AegisKnows(E[i])}
           aegis == Pick(E, known)
<1>1. file.format = format /\ Listed(T)
  BY DEF Export, Tokens
<1>2. E = CASE format = "uri" -> ExportUris(T)
            [] format = "aegis" -> ExportAegis(T)
            [] format = "2fas" -> ExportTwofas(T)
            [] format = "authpro" -> ExportAuthpro(T)
  BY DEF Export
<1>3. Listed(E)
  BY <1>1, ExportListed
<1>4. ReadEntries(file) =
        CASE file.format = "aegis" -> [i \in DOMAIN aegis |-> ReadAegis(aegis[i])]
          [] file.format = "2fas" -> [i \in DOMAIN aegis |-> ReadTwofas(aegis[i])]
          [] file.format = "authpro" -> [i \in DOMAIN aegis |-> ReadAuthpro(aegis[i], E)]
          [] file.format = "google" -> ReadAllGoogle(E)
  BY DEF ReadEntries
<1>5. known = DOMAIN E => aegis = E
  BY <1>3, PickAll
<1>6. (\A i \in DOMAIN E : AegisKnows(E[i])) => known = DOMAIN E
  OBVIOUS
<1> HIDE DEF E, known, aegis
<1>7. CASE format = "aegis"
  <2>1. E = ExportAegis(T)
    BY <1>2, <1>7
  <2>2. DOMAIN E = DOMAIN T
    BY <2>1 DEF ExportAegis
  <2>3. \A i \in DOMAIN T : AegisKnows(E[i])
    BY <2>1, AegisReturns
  <2>4. aegis = E
    BY <1>5, <1>6, <2>2, <2>3
  <2>5. ReadEntries(file) = [i \in DOMAIN T |-> ReadAegis(E[i])]
    BY <1>1, <1>4, <1>7, <2>2, <2>4
  <2>6. \A i \in DOMAIN T : Carries("aegis", T[i]) =>
          Returns(ReadAegis(E[i]), BuildObj(Carried("aegis", T[i], T)))
    BY <2>1, AegisReturns
  <2> QED
    BY <1>7, <2>5, <2>6
<1>8. CASE format = "2fas"
  <2>1. E = ExportTwofas(T)
    BY <1>2, <1>8
  <2>2. DOMAIN E = DOMAIN T
    BY <2>1 DEF ExportTwofas
  <2>3. \A i \in DOMAIN T : AegisKnows(E[i])
    BY <2>1, TwofasReturns
  <2>4. aegis = E
    BY <1>5, <1>6, <2>2, <2>3
  <2>5. ReadEntries(file) = [i \in DOMAIN T |-> ReadTwofas(E[i])]
    BY <1>1, <1>4, <1>8, <2>2, <2>4
  <2>6. \A i \in DOMAIN T : Returns(ReadTwofas(E[i]), BuildObj(Carried("2fas", T[i], T)))
    BY <2>1, TwofasReturns
  <2> QED
    BY <1>8, <2>5, <2>6
<1>9. CASE format = "authpro"
  <2>1. E = ExportAuthpro(T)
    BY <1>2, <1>9
  <2>2. DOMAIN E = DOMAIN T
    BY <2>1 DEF ExportAuthpro
  <2>3. \A i \in DOMAIN T : AegisKnows(E[i])
    BY <2>1, AuthproReturns
  <2>4. aegis = E
    BY <1>5, <1>6, <2>2, <2>3
  <2>5. ReadEntries(file) = [i \in DOMAIN T |-> ReadAuthpro(E[i], E)]
    BY <1>1, <1>4, <1>9, <2>2, <2>4
  <2>6. \A i \in DOMAIN T : Returns(ReadAuthpro(E[i], E), BuildObj(Carried("authpro", T[i], T)))
    BY <2>1, AuthproReturns
  <2> QED
    BY <1>9, <2>5, <2>6
<1> QED
  BY <1>7, <1>8, <1>9 DEF Exports

\* An exported file has the password it was given and opens with it.
LEMMA ExportOpens ==
  ASSUME NEW T, NEW format \in Exports, NEW password, format = "uri" => password = Absent
  PROVE  LET file == Export(format, password, T)
         IN  /\ file.format = format /\ file.cut = FALSE
             /\ (IF file.slots = << >> THEN Absent ELSE file.slots[1].password) = password
             /\ format # "uri" => Opens(file, format, password)
<1> DEFINE Fits(f) == /\ f.format = format /\ f.cut = FALSE
                      /\ (IF f.slots = << >> THEN Absent ELSE f.slots[1].password) = password
                      /\ format # "uri" => Opens(f, format, password)
           file == Export(format, password, T)
           slots == Sealed(password)
           slot == Slot("password", password)
           passwords == {i \in DOMAIN slots : slots[i].kind = "password"}
<1>1. file.format = format /\ file.cut = FALSE /\ file.slots = slots /\ file.schema = 4
  BY DEF Export
<1> HIDE DEF file
<1>2. slots = IF password = Absent THEN << >> ELSE <<slot>>
  BY DEF Sealed
<1>3. slot.kind = "password" /\ slot.password = password /\ slot.sound
  BY DEF Slot
<1>4. Opens(file, format, password) <=>
        /\ file.format = format /\ ~file.cut
        /\ CASE format = "aegis" -> AegisOpens(file, password)
             [] format = "2fas" -> TwofasOpens(file, password)
             [] format = "authpro" -> AuthproOpens(file, password)
             [] OTHER -> password = Absent
  BY DEF Opens
<1>5. ASSUME password = Absent PROVE Fits(file)
  <2>1. slots = << >>
    BY <1>2, <1>5
  <2>2. AegisOpens(file, password) /\ TwofasOpens(file, password) /\ AuthproOpens(file, password)
    BY <1>1, <1>5, <2>1 DEF AegisOpens, TwofasOpens, AuthproOpens
  <2> QED
    BY <1>1, <1>4, <1>5, <2>1, <2>2 DEF Exports
<1>6. ASSUME password # Absent PROVE Fits(file)
  <2> HIDE DEF slot
  <2>1. slots = <<slot>>
    BY <1>2, <1>6
  <2> HIDE DEF slots
  <2>2. Listed(slots) /\ DOMAIN slots = 1..1 /\ slots[1] = slot /\ slots # << >>
    <3>1. Listed(<<slot>>) /\ Len(<<slot>>) = 1
      BY WordName
    <3>2. DOMAIN slots = 1..1 /\ slots[1] = slot
      BY <2>1
    <3> QED
      BY <2>1, <3>1, <3>2, EmptyTokens
  <2>3. passwords = DOMAIN slots
    BY <1>3, <2>2
  <2>4. Pick(slots, DOMAIN slots) = slots /\ Head(slots) = slot
    <3>1. Head(slots) = slot
      BY <2>1
    <3> QED
      BY <2>2, <3>1, PickAll
  <2>5. Unseals(slot, password)
    BY <1>3 DEF Unseals
  <2>6. AegisOpens(file, password) <=>
          (passwords # {} /\ Unseals(Pick(slots, passwords)[1], password))
    BY <1>1, <1>6 DEF AegisOpens
  <2> HIDE DEF passwords
  <2>7. AegisOpens(file, password)
    <3>1. Pick(slots, passwords)[1] = slot /\ passwords # {}
      BY <2>2, <2>3, <2>4
    <3> QED
      BY <2>5, <2>6, <3>1
  <2>8. TwofasOpens(file, password) /\ AuthproOpens(file, password)
    BY <1>1, <1>6, <2>2, <2>4, <2>5 DEF TwofasOpens, AuthproOpens
  <2>9. (IF slots = << >> THEN Absent ELSE slots[1].password) = password
    BY <1>3, <2>2
  <2> QED
    BY <1>1, <1>4, <1>6, <2>7, <2>8, <2>9 DEF Exports
<1>7. Fits(file)
  BY <1>5, <1>6
<1> QED
  BY <1>7 DEF file

\* A file that was written to its end gives back what its format can carry.
LEMMA ExportReturns ==
  ASSUME NEW T, Tokens(T), ValidRoot(T), NEW format \in Exports, NEW password,
         format = "uri" => password = Absent,
         NEW file, file = Export(format, password, T),
         NEW wanted, wanted = [i \in DOMAIN T |-> BuildObj(Carried(format, T[i], T))]
  PROVE  LET stored == Imported(<< >>, Read(file, format, password))
         IN  /\ \A i \in DOMAIN T : Carries(format, T[i]) => wanted[i] \in ToSet(stored)
             /\ (\A i \in DOMAIN T : Carries(format, T[i])) => stored = Firsts(wanted)
<1> DEFINE otps == Read(file, format, password)
<1>1. file.format = format /\ (format # "uri" => Opens(file, format, password))
  <2> DEFINE f == Export(format, password, T)
  <2>1. /\ f.format = format /\ f.cut = FALSE
        /\ (IF f.slots = << >> THEN Absent ELSE f.slots[1].password) = password
        /\ format # "uri" => Opens(f, format, password)
    BY ExportOpens
  <2> HIDE DEF f
  <2>2. file = f
    BY DEF f
  <2> QED
    BY <2>1, <2>2
<1>2. otps = IF /\ password = Absent
                /\ <<file.format, format>> \in {<<"uri", "uri">>, <<"uri", "aegis">>, <<"qr", "google">>}
               THEN ReadUris(file.entries)
             ELSE IF Opens(file, format, password) THEN ReadEntries(file)
             ELSE << >>
  BY DEF Read
<1>3. Listed(T) /\ Listed(file.entries) /\ Worded(file)
  BY ExportListed, ExportWorded DEF Tokens
<1>4. Tokens(otps)
  BY <1>3, ReadTokens DEF Exports, Imports
<1>5. wanted = [i \in DOMAIN T |-> wanted[i]]
  OBVIOUS
<1>6. \A i \in DOMAIN T : wanted[i] = BuildObj(Carried(format, T[i], T))
  OBVIOUS
<1> HIDE DEF otps
<1>7. /\ \A i \in DOMAIN T : Carries(format, T[i]) =>
           \E k \in DOMAIN otps : Returns(otps[k], wanted[i])
      /\ (\A i \in DOMAIN T : Carries(format, T[i])) =>
           /\ otps = [i \in DOMAIN T |-> otps[i]]
           /\ \A i \in DOMAIN T : Returns(otps[i], wanted[i])
  <2>1. CASE format = "uri"
    <3>1. <<file.format, format>> = <<"uri", "uri">> /\ password = Absent
      BY <1>1, <2>1
    <3>2. file.entries = ExportUris(T)
      BY <2>1 DEF Export
    <3>3. otps = ReadUris(ExportUris(T))
      BY <1>2, <3>1, <3>2
    <3>4. /\ \A i \in DOMAIN T : Carries("uri", T[i]) =>
               \E k \in DOMAIN otps : otps[k] = ReadUri(UriOf(T[i]))
          /\ (\A i \in DOMAIN T : Carries("uri", T[i])) =>
               otps = [i \in DOMAIN T |-> ReadUri(UriOf(T[i]))]
      BY <3>3, UrisBack
    <3>5. ASSUME NEW i \in DOMAIN T, Carries("uri", T[i])
          PROVE  Returns(ReadUri(UriOf(T[i])), wanted[i])
      <4>1. IsToken(T[i]) /\ Valid(T[i])
        BY DEF Tokens, ValidRoot
      <4>2. Returns(ReadUri(UriOf(T[i])), BuildObj(Carried("uri", T[i], T)))
        BY <3>5, <4>1, UriReturns
      <4> QED
        BY <1>6, <2>1, <4>2
    <3> QED
      BY <2>1, <3>4, <3>5
  <2>2. CASE format # "uri"
    <3>1. <<file.format, format>> \notin {<<"uri", "uri">>, <<"uri", "aegis">>, <<"qr", "google">>}
      BY <1>1, <2>2 DEF Exports
    <3>2. otps = ReadEntries(file)
      BY <1>1, <1>2, <2>2, <3>1
    <3>3. /\ otps = [i \in DOMAIN T |-> otps[i]]
          /\ \A i \in DOMAIN T : Carries(format, T[i]) =>
               Returns(otps[i], BuildObj(Carried(format, T[i], T)))
      BY <2>2, <3>2, EntriesBack
    <3>4. DOMAIN otps = DOMAIN T
      BY <3>3
    <3> QED
      BY <1>6, <3>3, <3>4
  <2> QED
    BY <2>1, <2>2
<1>8. ASSUME NEW i \in DOMAIN T, Carries(format, T[i])
      PROVE  wanted[i] \in ToSet(Imported(<< >>, otps))
  <2>1. PICK k \in DOMAIN otps : Returns(otps[k], wanted[i])
    BY <1>7, <1>8
  <2> QED
    BY <1>4, <2>1, ImportedKeeps
<1>9. ASSUME \A i \in DOMAIN T : Carries(format, T[i])
      PROVE  Imported(<< >>, otps) = Firsts(wanted)
  BY <1>3, <1>5, <1>7, <1>9, ImportedWhole
<1> QED
  BY <1>8, <1>9 DEF otps

\* One that was cut off has its format, and gives nothing unless it is a text of lines.
LEMMA CutReturns ==
  ASSUME NEW T, NEW format \in Exports, NEW password,
         NEW file, file = Cut(Export(format, password, T))
  PROVE  /\ file.format = format /\ file.cut = TRUE
         /\ format # "uri" => \A p : Read(file, format, p) = << >>
<1> DEFINE whole == Export(format, password, T)
<1>1. PICK entries : file = [whole EXCEPT !.cut = TRUE, !.entries = entries]
  BY DEF Cut
<1>2. \E slots, e : whole = [format |-> format, schema |-> 4, slots |-> slots,
                             cut |-> FALSE, entries |-> e]
  BY DEF Export
<1> HIDE DEF whole
<1>3. file.format = format /\ file.cut = TRUE
  BY <1>1, <1>2
<1>4. ASSUME format # "uri", NEW p PROVE Read(file, format, p) = << >>
  <2>1. <<file.format, format>> \notin {<<"uri", "uri">>, <<"uri", "aegis">>, <<"qr", "google">>}
    BY <1>3, <1>4 DEF Exports
  <2>2. ~Opens(file, format, p)
    BY <1>3 DEF Opens
  <2> QED
    BY <2>1, <2>2 DEF Read
<1> QED
  BY <1>3, <1>4

-----------------------------------------------------------------------------
(* Advanced.                                                                *)

\* Equal but for the value.
Alike(t, u) ==
  /\ t.type = u.type /\ t.label = u.label /\ t.issuer = u.issuer
  /\ t.secret = u.secret /\ t.digits = u.digits /\ t.group = u.group

\* The positions in S are chosen by what alike tokens share.
Fair(T, S) ==
  \A i, j \in DOMAIN T : Alike(T[i], T[j]) => (i \in S <=> j \in S)

\* The value of a valid token is a number.
LEMMA ValidValue ==
  ASSUME NEW t, Valid(t)
  PROVE  t.value \in Int
<1>1. PeriodOk(t.value) \/ CounterOk(t.value)
  BY DEF Valid
<1>2. \A n : PeriodOk(n) => n \in Int
  BY DEF PeriodOk
<1>3. \A n : CounterOk(n) => n \in Int
  BY CounterMaxAssumption DEF CounterOk
<1> QED
  BY <1>1, <1>2, <1>3

\* A token with its counter moved on differs in its value alone.
LEMMA BumpedToken ==
  ASSUME NEW t, IsToken(t), NEW u, u = [t EXCEPT !.value = @ + 1]
  PROVE  IsToken(u) /\ Alike(t, u) /\ u.value = t.value + 1
<1>1. t = [type |-> t.type, label |-> t.label, issuer |-> t.issuer, secret |-> t.secret,
           digits |-> t.digits, value |-> t.value, group |-> t.group]
  BY DEF IsToken
<1>2. u = [type |-> t.type, label |-> t.label, issuer |-> t.issuer, secret |-> t.secret,
           digits |-> t.digits, value |-> t.value + 1, group |-> t.group]
  BY <1>1
<1> DEFINE v == t.value + 1
<1> HIDE DEF v
<1>3. u = [type |-> t.type, label |-> t.label, issuer |-> t.issuer, secret |-> t.secret,
           digits |-> t.digits, value |-> v, group |-> t.group]
  BY <1>2 DEF v
<1> QED
  BY <1>3 DEF IsToken, Alike, v

\* Tokens that are alike and have the same value are the same.
LEMMA AlikeEqual ==
  ASSUME NEW t, NEW u, IsToken(t), IsToken(u), Alike(t, u), t.value = u.value
  PROVE  t = u
BY DEF IsToken, Alike

\* Counters that move on leave every token in its place, and make no two alike when
\* those that are chosen are chosen by what they share.
LEMMA AdvancedFacts ==
  ASSUME NEW T, Tokens(T), ValidRoot(T), NEW S
  PROVE  /\ Tokens(Advanced(T, S)) /\ DOMAIN Advanced(T, S) = DOMAIN T
         /\ \A i \in DOMAIN T :
              /\ Alike(T[i], Advanced(T, S)[i])
              /\ Advanced(T, S)[i].value =
                   IF i \in S /\ IsHotp(T[i]) THEN T[i].value + 1 ELSE T[i].value
         /\ Distinct(T) /\ Fair(T, S) => Distinct(Advanced(T, S))
<1> DEFINE A == Advanced(T, S)
<1>1. A = [i \in DOMAIN T |->
             IF i \in S /\ IsHotp(T[i]) THEN [T[i] EXCEPT !.value = @ + 1] ELSE T[i]]
  BY DEF Advanced
<1>2. Listed(A) /\ DOMAIN A = DOMAIN T
  <2>1. A = [i \in DOMAIN T |-> A[i]]
    BY <1>1
  <2> HIDE DEF A
  <2> QED
    BY <2>1, MadeListed DEF Tokens
<1>3. \A i \in DOMAIN T :
        /\ IsToken(A[i]) /\ Alike(T[i], A[i])
        /\ A[i].value = IF i \in S /\ IsHotp(T[i]) THEN T[i].value + 1 ELSE T[i].value
  <2> TAKE i \in DOMAIN T
  <2>1. IsToken(T[i])
    BY DEF Tokens
  <2>2. CASE i \in S /\ IsHotp(T[i])
    <3>1. A[i] = [T[i] EXCEPT !.value = @ + 1]
      BY <1>1, <2>2
    <3> HIDE DEF A
    <3> QED
      BY <2>1, <2>2, <3>1, BumpedToken
  <2>3. CASE ~(i \in S /\ IsHotp(T[i]))
    <3>1. A[i] = T[i]
      BY <1>1, <2>3
    <3> HIDE DEF A
    <3> QED
      BY <2>1, <2>3, <3>1 DEF Alike
  <2> QED
    BY <2>2, <2>3
<1> HIDE DEF A
<1>4. Tokens(A)
  BY <1>2, <1>3 DEF Tokens
<1>5. ASSUME Distinct(T), Fair(T, S) PROVE Distinct(A)
  <2> SUFFICES ASSUME NEW i \in DOMAIN T, NEW j \in DOMAIN T, A[i] = A[j] PROVE i = j
    BY <1>2 DEF Distinct
  <2>1. Alike(T[i], T[j])
    BY <1>3 DEF Alike
  <2>2. (i \in S /\ IsHotp(T[i])) <=> (j \in S /\ IsHotp(T[j]))
    BY <1>5, <2>1 DEF Fair, IsHotp, Alike
  <2>3. T[i].value \in Int /\ T[j].value \in Int
    BY ValidValue DEF ValidRoot
  <2>4. T[i].value = T[j].value
    <3>1. CASE i \in S /\ IsHotp(T[i])
      <4>1. T[i].value + 1 = T[j].value + 1
        BY <1>3, <2>2, <3>1
      <4> QED
        BY <2>3, <4>1
    <3>2. CASE ~(i \in S /\ IsHotp(T[i]))
      BY <1>3, <2>2, <3>2
    <3> QED
      BY <3>1, <3>2
  <2>5. T[i] = T[j]
    BY <2>1, <2>4, AlikeEqual DEF Tokens
  <2> QED
    BY <1>5, <2>5 DEF Distinct
<1> QED
  BY <1>2, <1>3, <1>4, <1>5 DEF A

\* The tokens a show advances are chosen by name and secret.
LEMMA ShownFair ==
  ASSUME NEW T, ValidRoot(T), NEW account, NEW issuer, NEW good,
         good = {i \in {j \in DOMAIN T : Matches(T[j], account, issuer)} : Computes(T[i])}
  PROVE  Fair(T, good)
<1>1. ASSUME NEW i \in DOMAIN T, NEW j \in DOMAIN T, Alike(T[i], T[j])
      PROVE  i \in good <=> j \in good
  <2>1. Matches(T[i], account, issuer) <=> Matches(T[j], account, issuer)
    BY <1>1 DEF Matches, Alike
  <2>2. Computes(T[i]) <=> Computes(T[j])
    BY <1>1 DEF Computes, ValidRoot, Alike
  <2> QED
    BY <2>1, <2>2
<1> QED
  BY <1>1 DEF Fair

-----------------------------------------------------------------------------
(* The file, and the copies of it.                                          *)

\* The tokens may be stored.
Good(T) == Tokens(T) /\ ValidRoot(T) /\ Len(T) <= MaxTokens

\* The file holds good tokens, and so does every copy; a copy that answers for the
\* version of the file is a copy of it.
Store ==
  /\ db.ver \in 0 .. MaxVer /\ Good(db.toks)
  /\ db.ver = 0 => db.toks = << >>
  /\ DOMAIN mem = Actors /\ snap \in [Actors -> Nat]
  /\ \A a \in Actors : /\ snap[a] <= db.ver
                       /\ Tokens(mem[a]) /\ ValidRoot(mem[a])
                       /\ snap[a] = db.ver => mem[a] = db.toks

\* Nothing may be stored.
LEMMA EmptyGood == Good(<< >>)
BY EmptyTokens, BoundsAssumption DEF Good, ValidRoot

\* A step that leaves the file alone and gives an actor a copy of it, or nothing.
LEMMA KeepStore ==
  ASSUME Store, db' = db, NEW a \in Actors, NEW T, NEW version,
         Keep(a, T, version),
         (T = db.toks /\ version = db.ver) \/ (T = << >> /\ version = 0)
  PROVE  Store'
<1>1. version \in 0 .. db.ver /\ db.ver \in Nat
  BY BoundsAssumption DEF Store
<1>2. Good(T) /\ (version = db.ver => T = db.toks)
  BY EmptyGood DEF Store
<1>3. /\ DOMAIN mem' = Actors /\ mem'[a] = T
      /\ \A b \in Actors \ {a} : mem'[b] = mem[b]
  BY DEF Keep, Store
<1>4. snap' \in [Actors -> Nat] /\ snap'[a] = version /\ \A b \in Actors \ {a} : snap'[b] = snap[b]
  BY <1>1 DEF Keep, Store
<1>5. \A b \in Actors : /\ snap'[b] <= db.ver
                        /\ Tokens(mem'[b]) /\ ValidRoot(mem'[b])
                        /\ snap'[b] = db.ver => mem'[b] = db.toks
  <2> TAKE b \in Actors
  <2>1. CASE b = a
    BY <1>1, <1>2, <1>3, <1>4, <2>1 DEF Good
  <2>2. CASE b # a
    BY <1>3, <1>4, <2>2 DEF Store
  <2> QED
    BY <2>1, <2>2
<1> QED
  BY <1>3, <1>4, <1>5 DEF Store

\* A step that replaces the file by the next version, and leaves its actor a copy of
\* that, or nothing: no other copy answers for the file then.
LEMMA SaveStore ==
  ASSUME Store, NEW a \in Actors, NEW T, NEW U, NEW version,
         Good(T), db.ver < MaxVer, db' = [ver |-> db.ver + 1, toks |-> T],
         Keep(a, U, version),
         (U = T /\ version = db.ver + 1) \/ (U = << >> /\ version = 0)
  PROVE  Store'
<1>1. /\ db'.ver = db.ver + 1 /\ db'.toks = T
      /\ db.ver \in Nat /\ db'.ver \in 0 .. MaxVer /\ db'.ver # 0
  BY BoundsAssumption DEF Store
<1>2. version \in Nat /\ version <= db'.ver
  BY <1>1
<1>3. Good(U) /\ (version = db'.ver => U = T)
  BY <1>1, EmptyGood
<1>4. /\ DOMAIN mem' = Actors /\ mem'[a] = U
      /\ \A b \in Actors \ {a} : mem'[b] = mem[b]
  BY DEF Keep, Store
<1>5. snap' \in [Actors -> Nat] /\ snap'[a] = version /\ \A b \in Actors \ {a} : snap'[b] = snap[b]
  BY <1>2 DEF Keep, Store
<1>6. \A b \in Actors : /\ snap'[b] <= db'.ver
                        /\ Tokens(mem'[b]) /\ ValidRoot(mem'[b])
                        /\ snap'[b] = db'.ver => mem'[b] = db'.toks
  <2> TAKE b \in Actors
  <2>1. CASE b = a
    BY <1>1, <1>2, <1>3, <1>4, <1>5, <2>1 DEF Good
  <2>2. CASE b # a
    <3>1. snap'[b] = snap[b] /\ snap[b] \in Nat /\ snap[b] <= db.ver
      BY <1>5, <2>2 DEF Store
    <3>2. snap'[b] <= db'.ver /\ snap'[b] # db'.ver
      BY <1>1, <3>1
    <3> QED
      BY <1>4, <2>2, <3>2 DEF Store
  <2> QED
    BY <2>1, <2>2
<1> QED
  BY <1>1, <1>4, <1>5, <1>6 DEF Store

\* A save that is not refused is of good tokens, over a file the actor has a copy of.
LEMMA CommitFacts ==
  ASSUME Store, NEW a \in Actors, NEW T, Tokens(T), Commit(a, T)
  PROVE  /\ Good(T) /\ mem[a] = db.toks /\ db.ver < MaxVer
         /\ db' = [ver |-> db.ver + 1, toks |-> T] /\ db'.toks = T
BY DEF Store, Commit, Fresh, Storable, Good

-----------------------------------------------------------------------------
(* The rest of the state.                                                   *)

\* Where runs stand, and that a backup file holds a sequence of entries with names.
Rest ==
  /\ pc \in [Runs -> {"none", "creating", "created", "loaded", "printing"}]
  /\ unlocked \in BOOLEAN
  /\ DOMAIN said = Runs
  /\ backup # NoFile => Listed(backup.entries) /\ Worded(backup)
  /\ twice \subseteq printed

\* The types of file that command lines and dialogs name.
LEMMA LineTypes ==
  /\ \A c \in Lines("import") : c.type[1] \in Imports
  /\ \A type \in ImportTypes : type[1] \in Imports
  /\ \A c \in Lines("export") : c.type[1] \in Exports
  /\ \A type \in ExportTypes : type[1] \in Exports
<1>1. \A c \in Lines("import") : c.actions \subseteq {"import", "export"} /\ Accepts(c)
  BY DEF Lines
<1>2. \A c \in Lines("export") : c.actions \subseteq {"import", "export"} /\ Accepts(c)
  BY DEF Lines
<1>3. \A c : Accepts(c) /\ c.actions \subseteq {"import", "export"} =>
               c.type[1] \in {"uri", "aegis", "2fas", "authpro"}
  BY DEF Accepts
<1>4. \A type \in ImportTypes : type[1] \in Imports
  BY TypesAssumption DEF Imports
<1>5. \A type \in ExportTypes : type[1] \in Exports
  BY TypesAssumption DEF Exports
<1> QED
  BY <1>1, <1>2, <1>3, <1>4, <1>5 DEF Imports, Exports

\* What an import makes of an actor's copy, and what it makes of the file.
LEMMA ImportIntoFacts ==
  ASSUME Store, Rest, NEW a \in Actors, NEW type, type[1] \in Imports, ImportInto(a, type)
  PROVE  \E otps : /\ Tokens(otps) /\ otps = Read(backup, type[1], type[2])
                   /\ mem[a] = db.toks
                   /\ Tokens(Imported(db.toks, otps)) /\ Commit(a, Imported(db.toks, otps))
                   /\ rolled' = rolled \cup Counting(SubSeq(Imported(db.toks, otps), Len(db.toks) + 1,
                                                            Len(Imported(db.toks, otps))))
<1> DEFINE otps == Read(backup, type[1], type[2])
           T == Imported(mem[a], otps)
<1>1. /\ backup # NoFile /\ Commit(a, T)
      /\ rolled' = rolled \cup Counting(SubSeq(T, Len(mem[a]) + 1, Len(T)))
  BY DEF ImportInto
<1>2. Listed(backup.entries) /\ Worded(backup)
  BY <1>1 DEF Rest
<1>3. Tokens(otps)
  BY <1>2, ReadTokens
<1> HIDE DEF otps
<1>4. Tokens(T)
  BY <1>3, ImportedFacts DEF Store
<1>5. mem[a] = db.toks
  <2> HIDE DEF T
  <2> QED
    BY <1>1, <1>4, CommitFacts
<1> QED
  BY <1>1, <1>3, <1>4, <1>5 DEF otps

\* An export leaves a sequence of entries, and their names.
LEMMA ExportFromFacts ==
  ASSUME Store, Rest, NEW a \in Actors, NEW type, type[1] \in Exports, ExportFrom(a, type)
  PROVE  Listed(backup'.entries) /\ Worded(backup')
<1>1. Tokens(mem[a]) /\ Listed(mem[a])
  BY DEF Store, Tokens
<1> DEFINE file == Export(type[1], type[2], mem[a])
<1>2. /\ Listed(file.entries) /\ Listed(Cut(file).entries)
      /\ Worded(file) /\ Worded(Cut(file))
  BY <1>1, ExportListed, ExportWorded
<1>3. backup' \in {file, Cut(file)}
  BY DEF ExportFrom
<1> HIDE DEF file
<1> QED
  BY <1>2, <1>3

-----------------------------------------------------------------------------
(* Steps.                                                                   *)

\* A show that saves: the tokens of the file, some counters moved on.
Shows(r, account, issuer) ==
  LET T == mem[r]
      found == {i \in DOMAIN T : Matches(T[i], account, issuer)}
      good == {i \in found : Computes(T[i])}
      codes == {Code(T[i]) : i \in {j \in good : IsHotp(T[j])}}
  IN  /\ Commit(r, Advanced(T, good))
      /\ Keep(r, Advanced(T, good), db.ver + 1)
      /\ pc' = [pc EXCEPT ![r] = "printing"]
      /\ said' = [said EXCEPT ![r] = ToPrint(codes, TRUE, good = found)]

\* The three outcomes of a show.
LEMMA ShowCases ==
  ASSUME NEW r \in Runs, Show(r)
  PROVE  /\ UNCHANGED <<backup, unlocked, printed, twice, rolled, from>>
         /\ \/ Exit(r) /\ UNCHANGED <<db, said>>
            \/ \E account, issuer : Shows(r, account, issuer)
            \/ /\ pc' = [pc EXCEPT ![r] = "printing"]
               /\ said' = [said EXCEPT ![r] = {}]
               /\ UNCHANGED <<db, mem, snap>>
<1>1. UNCHANGED <<backup, unlocked, printed, twice, rolled, from>>
  BY DEF Show
<1>2. PICK c \in Lines("show") :
         LET T == mem[r]
             found == {i \in DOMAIN T : Matches(T[i], c.account, c.issuer)}
             good == {i \in found : Computes(T[i])}
             codes == {Code(T[i]) : i \in {j \in good : IsHotp(T[j])}}
             Say(saved) == said' = [said EXCEPT ![r] = ToPrint(codes, saved, good = found)]
         IN  \/ /\ codes = {}
                /\ Exit(r) /\ UNCHANGED <<db, said>>
             \/ /\ codes # {} /\ Commit(r, Advanced(T, good))
                /\ Keep(r, Advanced(T, good), db.ver + 1)
                /\ pc' = [pc EXCEPT ![r] = "printing"]
                /\ Say(TRUE)
             \/ /\ codes # {}
                /\ pc' = [pc EXCEPT ![r] = "printing"]
                /\ Say(FALSE)
                /\ UNCHANGED <<db, mem, snap>>
  BY DEF Show
<1> DEFINE T == mem[r]
           found == {i \in DOMAIN T : Matches(T[i], c.account, c.issuer)}
           good == {i \in found : Computes(T[i])}
           codes == {Code(T[i]) : i \in {j \in good : IsHotp(T[j])}}
           Nothing == Exit(r) /\ UNCHANGED <<db, said>>
           Counted == /\ Commit(r, Advanced(T, good))
                      /\ Keep(r, Advanced(T, good), db.ver + 1)
                      /\ pc' = [pc EXCEPT ![r] = "printing"]
                      /\ said' = [said EXCEPT ![r] = ToPrint(codes, TRUE, good = found)]
           Silent == /\ pc' = [pc EXCEPT ![r] = "printing"]
                     /\ said' = [said EXCEPT ![r] = ToPrint(codes, FALSE, good = found)]
                     /\ UNCHANGED <<db, mem, snap>>
<1>a. Nothing \/ Counted \/ Silent
  BY <1>2
<1>b. Counted => Shows(r, c.account, c.issuer)
  BY DEF Shows
<1>c. Silent => \E cs, all : /\ pc' = [pc EXCEPT ![r] = "printing"]
                             /\ said' = [said EXCEPT ![r] = ToPrint(cs, FALSE, all)]
                             /\ UNCHANGED <<db, mem, snap>>
  <2> HIDE DEF codes, good, found
  <2> QED
    BY Zenon
<1> HIDE DEF Nothing, Counted, Silent
<1>3. \/ Exit(r) /\ UNCHANGED <<db, said>>
      \/ Shows(r, c.account, c.issuer)
      \/ \E cs, all : /\ pc' = [pc EXCEPT ![r] = "printing"]
                      /\ said' = [said EXCEPT ![r] = ToPrint(cs, FALSE, all)]
                      /\ UNCHANGED <<db, mem, snap>>
  BY <1>a, <1>b, <1>c, Zenon DEF Nothing
<1>4. \A cs, all : ToPrint(cs, FALSE, all) = {}
  BY DEF ToPrint
<1>5. Shows(r, c.account, c.issuer) => \E account, issuer : Shows(r, account, issuer)
  BY Zenon
<1> QED
  BY <1>1, <1>3, <1>4, <1>5, Zenon

\* What the tokens of the file become when a show saves.
LEMMA ShowsFacts ==
  ASSUME Store, NEW r \in Runs, NEW account, NEW issuer, Shows(r, account, issuer)
  PROVE  \E good : /\ good \subseteq DOMAIN db.toks /\ Fair(db.toks, good)
                   /\ Commit(r, Advanced(db.toks, good)) /\ Good(Advanced(db.toks, good))
                   /\ mem[r] = db.toks
                   /\ Keep(r, Advanced(db.toks, good), db.ver + 1)
                   /\ pc' = [pc EXCEPT ![r] = "printing"]
                   /\ \E codes : /\ said' = [said EXCEPT ![r] = codes]
                                 /\ codes \subseteq {Code(db.toks[i]) : i \in {j \in good : IsHotp(db.toks[j])}}
<1> DEFINE T == mem[r]
           found == {i \in DOMAIN T : Matches(T[i], account, issuer)}
           good == {i \in found : Computes(T[i])}
           codes == {Code(T[i]) : i \in {j \in good : IsHotp(T[j])}}
<1>1. /\ Commit(r, Advanced(T, good))
      /\ Keep(r, Advanced(T, good), db.ver + 1)
      /\ pc' = [pc EXCEPT ![r] = "printing"]
      /\ said' = [said EXCEPT ![r] = ToPrint(codes, TRUE, good = found)]
  BY Zenon DEF Shows
<1>2. r \in Actors
  BY DEF Actors
<1>3. Tokens(T) /\ ValidRoot(T)
  BY <1>2 DEF Store
<1>4. good \subseteq DOMAIN T /\ Fair(T, good)
  <2>1. good = {i \in {j \in DOMAIN T : Matches(T[j], account, issuer)} : Computes(T[i])}
    OBVIOUS
  <2>2. good \subseteq DOMAIN T
    OBVIOUS
  <2> HIDE DEF good, T
  <2> QED
    BY <1>3, <2>1, <2>2, ShownFair DEF T
<1>5. ToPrint(codes, TRUE, good = found) \subseteq codes
  BY DEF ToPrint
<1> DEFINE say == ToPrint(codes, TRUE, good = found)
<1>6. said' = [said EXCEPT ![r] = say] /\ say \subseteq codes
  BY <1>1, <1>5
<1> HIDE DEF say, good
<1>7. Tokens(Advanced(T, good))
  BY <1>3, AdvancedFacts
<1>8. T = db.toks /\ Good(Advanced(T, good))
  <2> HIDE DEF T
  <2> QED
    BY <1>1, <1>2, <1>7, CommitFacts DEF T
<1>9. say \subseteq {Code(db.toks[i]) : i \in {j \in good : IsHotp(db.toks[j])}}
  BY <1>6, <1>8
<1>10. /\ good \subseteq DOMAIN db.toks /\ Fair(db.toks, good)
       /\ Commit(r, Advanced(db.toks, good)) /\ Good(Advanced(db.toks, good))
       /\ mem[r] = db.toks
       /\ Keep(r, Advanced(db.toks, good), db.ver + 1)
  BY <1>1, <1>4, <1>8
<1>11. pc' = [pc EXCEPT ![r] = "printing"] /\ said' = [said EXCEPT ![r] = say]
  BY <1>1, <1>6
<1> HIDE DEF T
<1> QED
  BY <1>9, <1>10, <1>11

\* A run that ends forgets its copy.
LEMMA ExitStore ==
  ASSUME Store, NEW r \in Runs, Exit(r), db' = db
  PROVE  Store'
<1>1. r \in Actors /\ Keep(r, << >>, 0)
  BY DEF Exit, Actors
<1> QED
  BY <1>1, KeepStore

\* Every step of a run keeps the file and its copies in order.
LEMMA RunStore ==
  ASSUME Store, Rest, NEW r \in Runs,
         \/ Load(r) \/ Missing(r) \/ Create(r)
         \/ Show(r) \/ PrintCodes(r) \/ Crash(r)
         \/ ImportRun(r) \/ ExportRun(r)
  PROVE  Store'
<1> r \in Actors
  BY DEF Actors
<1>1. CASE Load(r)
  BY <1>1, KeepStore DEF Load
<1>2. CASE Missing(r)
  BY <1>2 DEF Missing, Store
<1>3. CASE Create(r)
  <2>1. CASE /\ db.ver < MaxVer
             /\ db' = [ver |-> db.ver + 1, toks |-> << >>]
             /\ Keep(r, << >>, db.ver + 1)
    BY <2>1, EmptyGood, SaveStore
  <2>2. CASE Exit(r) /\ UNCHANGED db
    BY <2>2, ExitStore
  <2> QED
    BY <1>3, <2>1, <2>2 DEF Create
<1>4. CASE Show(r)
  <2>1. CASE Exit(r) /\ UNCHANGED <<db, said>>
    BY <2>1, ExitStore
  <2>2. CASE \E account, issuer : Shows(r, account, issuer)
    <3>1. PICK good : Commit(r, Advanced(db.toks, good)) /\ Good(Advanced(db.toks, good))
                      /\ Keep(r, Advanced(db.toks, good), db.ver + 1)
      BY <2>2, ShowsFacts
    <3> DEFINE T == Advanced(db.toks, good)
    <3> HIDE DEF T
    <3>2. db.ver < MaxVer /\ db' = [ver |-> db.ver + 1, toks |-> T]
      BY <3>1 DEF Commit, T
    <3> QED
      BY <3>1, <3>2, SaveStore DEF T
  <2>3. CASE UNCHANGED <<db, mem, snap>>
    BY <2>3 DEF Store
  <2> QED
    BY <1>4, <2>1, <2>2, <2>3, ShowCases
<1>5. CASE PrintCodes(r)
  BY <1>5, ExitStore DEF PrintCodes
<1>6. CASE Crash(r)
  BY <1>6, ExitStore DEF Crash
<1>7. CASE ImportRun(r)
  <2>1. CASE \E c \in Lines("import") : ImportInto(r, c.type)
    <3>1. PICK c \in Lines("import") : ImportInto(r, c.type)
      BY <2>1
    <3>2. PICK otps : Tokens(Imported(db.toks, otps)) /\ Commit(r, Imported(db.toks, otps))
      BY <3>1, LineTypes, ImportIntoFacts
    <3> DEFINE T == Imported(db.toks, otps)
    <3> HIDE DEF T
    <3>3. Good(T) /\ db.ver < MaxVer /\ db' = [ver |-> db.ver + 1, toks |-> T]
      BY <3>2, CommitFacts DEF T
    <3>4. Keep(r, << >>, 0)
      BY <1>7 DEF ImportRun, Exit
    <3> QED
      BY <3>3, <3>4, SaveStore
  <2>2. CASE UNCHANGED <<db, rolled>>
    BY <1>7, <2>2, ExitStore DEF ImportRun
  <2> QED
    BY <1>7, <2>1, <2>2 DEF ImportRun
<1>8. CASE ExportRun(r)
  BY <1>8, ExitStore DEF ExportRun
<1> QED
  BY <1>1, <1>2, <1>3, <1>4, <1>5, <1>6, <1>7, <1>8

\* So does every step of the window.
LEMMA WindowStore ==
  ASSUME Store, Rest, ImportDialog \/ ExportDialog \/ Unlock \/ Lock
  PROVE  Store'
<1> Window \in Actors
  BY DEF Actors
<1>1. CASE ImportDialog
  <2>1. PICK type \in ImportTypes :
          /\ ImportInto(Window, type)
          /\ Keep(Window, Imported(mem[Window], Read(backup, type[1], type[2])), db.ver + 1)
    BY <1>1 DEF ImportDialog
  <2>2. PICK otps : /\ otps = Read(backup, type[1], type[2]) /\ mem[Window] = db.toks
                    /\ Tokens(Imported(db.toks, otps)) /\ Commit(Window, Imported(db.toks, otps))
    BY <2>1, LineTypes, ImportIntoFacts
  <2> DEFINE T == Imported(db.toks, otps)
  <2>3. Keep(Window, T, db.ver + 1)
    BY <2>1, <2>2
  <2> HIDE DEF T
  <2>4. Good(T) /\ db.ver < MaxVer /\ db' = [ver |-> db.ver + 1, toks |-> T]
    BY <2>2, CommitFacts DEF T
  <2> QED
    BY <2>3, <2>4, SaveStore
<1>2. CASE ExportDialog
  BY <1>2 DEF ExportDialog, Store
<1>3. CASE Unlock
  BY <1>3, KeepStore DEF Unlock
<1>4. CASE Lock
  BY <1>4, KeepStore DEF Lock
<1> QED
  BY <1>1, <1>2, <1>3, <1>4

\* Every step keeps the rest of the state in order.
LEMMA NextRest ==
  ASSUME Store, Rest, [Next]_vars
  PROVE  Rest'
<1> DEFINE Stages == {"none", "creating", "created", "loaded", "printing"}
<1>1. pc \in [Runs -> Stages] /\ unlocked \in BOOLEAN /\ DOMAIN said = Runs /\ twice \subseteq printed
      /\ (backup # NoFile => Listed(backup.entries))
  BY DEF Rest
<1>2. /\ Runs \subseteq Actors /\ Window \in Actors
      /\ \A r \in Runs : Exit(r) => pc' \in [Runs -> Stages]
  BY <1>1 DEF Actors, Exit
<1> HIDE DEF Stages
<1>3. ASSUME NEW r \in Runs, Load(r) \/ Missing(r) \/ Create(r) PROVE Rest'
  <2>1. pc' \in [Runs -> Stages]
    BY <1>1, <1>2, <1>3 DEF Load, Missing, Create, Stages
  <2>2. UNCHANGED <<backup, unlocked, said, printed, twice>>
    BY <1>3 DEF Load, Missing, Create
  <2> QED
    BY <1>1, <2>1, <2>2 DEF Rest, Stages
<1>4. ASSUME NEW r \in Runs, Show(r) PROVE Rest'
  <2>1. UNCHANGED <<backup, unlocked, printed, twice>>
    BY <1>4, ShowCases
  <2>2. pc' \in [Runs -> Stages] /\ DOMAIN said' = Runs
    <3>1. CASE Exit(r) /\ UNCHANGED <<db, said>>
      BY <1>1, <1>2, <3>1
    <3>2. CASE \E account, issuer : Shows(r, account, issuer)
      <4>1. PICK codes : pc' = [pc EXCEPT ![r] = "printing"] /\ said' = [said EXCEPT ![r] = codes]
        BY <3>2, ShowsFacts
      <4> QED
        BY <1>1, <4>1 DEF Stages
    <3>3. CASE pc' = [pc EXCEPT ![r] = "printing"] /\ said' = [said EXCEPT ![r] = {}]
      BY <1>1, <3>3 DEF Stages
    <3> QED
      BY <1>4, <3>1, <3>2, <3>3, ShowCases
  <2> QED
    BY <1>1, <2>1, <2>2 DEF Rest, Stages
<1>5. ASSUME NEW r \in Runs, PrintCodes(r) PROVE Rest'
  <2>1. /\ pc' \in [Runs -> Stages] /\ UNCHANGED <<backup, unlocked>>
        /\ printed' = printed \cup said[r] /\ twice' = twice \cup (printed \cap said[r])
        /\ said' = [said EXCEPT ![r] = {}]
    BY <1>2, <1>5 DEF PrintCodes
  <2> QED
    BY <1>1, <2>1 DEF Rest, Stages
<1>6. ASSUME NEW r \in Runs, Crash(r) PROVE Rest'
  <2>1. /\ pc' \in [Runs -> Stages] /\ UNCHANGED <<backup, unlocked, printed, twice>>
        /\ said' = [said EXCEPT ![r] = {}]
    BY <1>2, <1>6 DEF Crash
  <2> QED
    BY <1>1, <2>1 DEF Rest, Stages
<1>7. ASSUME NEW r \in Runs, ImportRun(r) PROVE Rest'
  <2>1. pc' \in [Runs -> Stages] /\ UNCHANGED <<backup, unlocked, said, printed, twice>>
    BY <1>2, <1>7 DEF ImportRun
  <2> QED
    BY <1>1, <2>1 DEF Rest, Stages
<1>8. ASSUME NEW r \in Runs, ExportRun(r) PROVE Rest'
  <2>1. pc' \in [Runs -> Stages] /\ UNCHANGED <<unlocked, said, printed, twice>>
    BY <1>2, <1>8 DEF ExportRun
  <2>2. (Listed(backup'.entries) /\ Worded(backup')) \/ backup' = backup
    <3>1. ASSUME NEW c \in Lines("export"), ExportFrom(r, c.type)
          PROVE  Listed(backup'.entries) /\ Worded(backup')
      BY <1>2, <3>1, LineTypes, ExportFromFacts
    <3> QED
      BY <1>8, <3>1 DEF ExportRun
  <2> QED
    BY <1>1, <2>1, <2>2 DEF Rest, Stages
<1>9. CASE ImportDialog
  BY <1>1, <1>9 DEF ImportDialog, Rest, Stages
<1>10. CASE ExportDialog
  <2>1. Listed(backup'.entries) /\ Worded(backup')
    BY <1>2, <1>10, LineTypes, ExportFromFacts DEF ExportDialog
  <2> QED
    BY <1>1, <1>10, <2>1 DEF ExportDialog, Rest, Stages
<1>11. CASE Unlock \/ Lock
  BY <1>1, <1>11 DEF Unlock, Lock, Rest, Stages
<1>12. CASE UNCHANGED vars
  BY <1>1, <1>12 DEF vars, Rest, Stages
<1> QED
  BY <1>3, <1>4, <1>5, <1>6, <1>7, <1>8, <1>9, <1>10, <1>11, <1>12 DEF Next

\* The invariant.
Base == Store /\ Rest

\* A database of the start holds tokens that validate, and nobody has loaded it.
LEMMA InitBase == Init => Base
<1> SUFFICES ASSUME Init PROVE Base
  OBVIOUS
<1>1. /\ db \in {[ver |-> 0, toks |-> << >>]} \cup {[ver |-> 1, toks |-> T] : T \in Seeds}
      /\ mem = [a \in Actors |-> << >>] /\ snap = [a \in Actors |-> 0]
  BY DEF Init
<1>2. db.ver \in 0 .. MaxVer /\ Good(db.toks) /\ (db.ver = 0 => db.toks = << >>)
  <2>1. CASE db = [ver |-> 0, toks |-> << >>]
    BY <2>1, EmptyGood, BoundsAssumption
  <2>2. CASE db \in {[ver |-> 1, toks |-> T] : T \in Seeds}
    <3>1. PICK T \in Seeds : db = [ver |-> 1, toks |-> T]
      BY <2>2
    <3>2. Good(T)
      BY <3>1, SeedsAssumption, TokensList DEF Good
    <3> QED
      BY <3>1, <3>2, BoundsAssumption
  <2> QED
    BY <1>1, <2>1, <2>2
<1>3. Store
  <2>1. \A a \in Actors : snap[a] = 0 /\ mem[a] = << >>
    BY <1>1
  <2>2. DOMAIN mem = Actors /\ snap \in [Actors -> Nat]
    BY <1>1
  <2>3. db.ver \in Nat
    BY <1>2, BoundsAssumption
  <2> QED
    BY <1>2, <2>1, <2>2, <2>3, EmptyGood DEF Store, Good
<1>4. Rest
  <2>1. backup # NoFile => Listed(backup.entries) /\ Worded(backup)
    BY FilesAssumption, SeqListed DEF Init
  <2> QED
    BY <2>1 DEF Init, Rest
<1> QED
  BY <1>3, <1>4 DEF Base

\* Every step keeps all of this.
LEMMA NextBase == Base /\ [Next]_vars => Base'
<1> SUFFICES ASSUME Base, [Next]_vars PROVE Base'
  OBVIOUS
<1>1. Store /\ Rest
  BY DEF Base
<1>2. Store'
  <2>1. CASE UNCHANGED vars
    BY <1>1, <2>1 DEF vars, Store
  <2>2. CASE Next
    BY <1>1, <2>2, RunStore, WindowStore DEF Next
  <2> QED
    BY <2>1, <2>2
<1>3. Rest'
  BY <1>1, NextRest
<1> QED
  BY <1>2, <1>3 DEF Base

\* The file and its copies are in order in every state.
THEOREM Invariant == Spec => []Base
BY InitBase, NextBase, PTL DEF Spec

\* Every value has its shape, every token of the file validates whatever is imported
\* and whichever save fails, and so does every copy of the tokens.
THEOREM Typing == Spec => []TypeOK
<1>1. Base => TypeOK
  <2> SUFFICES ASSUME Base PROVE TypeOK
    OBVIOUS
  <2>1. Store /\ Rest
    BY DEF Base
  <2>2. /\ db.ver \in 0 .. MaxVer
        /\ TokenList(db.toks) /\ ValidRoot(db.toks) /\ Len(db.toks) <= MaxTokens
        /\ db.ver = 0 => db.toks = << >>
    BY <2>1, TokensList DEF Store, Good
  <2>3. \A a \in Actors : snap[a] \in 0 .. db.ver /\ TokenList(mem[a]) /\ ValidRoot(mem[a])
    <3>1. db.ver \in Nat
      BY <2>2, BoundsAssumption
    <3> QED
      BY <2>1, <3>1, TokensList DEF Store
  <2> QED
    BY <2>1, <2>2, <2>3 DEF Rest, TypeOK
<1> QED
  BY <1>1, Invariant, PTL

-----------------------------------------------------------------------------
(* What becomes of the tokens.                                              *)

\* A run that found no database file puts an empty one in place of what came since.
Replaces == \E r \in Runs : pc[r] = "creating" /\ pc'[r] = "created" /\ db'.toks = << >>

\* An import put tokens behind those of the file.
ImportAdds == \E otps : Tokens(otps) /\ db'.toks = Imported(db.toks, otps)

\* A show moved counters of the file on.
Advances ==
  \E good : Fair(db.toks, good) /\ db'.toks = Advanced(db.toks, good)

\* There is no other way for the tokens of the file to change.
LEMMA Changes ==
  ASSUME Base, [Next]_vars
  PROVE  db'.toks = db.toks \/ Replaces \/ ImportAdds \/ Advances
<1>1. Store /\ Rest
  BY DEF Base
<1>2. ASSUME NEW r \in Runs, Create(r) PROVE db'.toks = db.toks \/ Replaces
  <2>1. pc \in [Runs -> {"none", "creating", "created", "loaded", "printing"}]
    BY <1>1 DEF Rest
  <2> QED
    BY <1>2, <2>1 DEF Create, Replaces
<1>3. ASSUME NEW r \in Runs, Show(r) PROVE db'.toks = db.toks \/ Advances
  <2>1. CASE UNCHANGED db
    BY <2>1
  <2>2. CASE \E account, issuer : Shows(r, account, issuer)
    <3>1. PICK good : Fair(db.toks, good) /\ Commit(r, Advanced(db.toks, good))
      BY <1>1, <2>2, ShowsFacts
    <3> DEFINE T == Advanced(db.toks, good)
    <3> HIDE DEF T
    <3>2. db'.toks = T
      BY <3>1 DEF Commit, T
    <3> QED
      BY <3>1, <3>2 DEF Advances, T
  <2> QED
    BY <1>3, <2>1, <2>2, ShowCases
<1>4. ASSUME NEW a \in Actors, NEW type, type[1] \in Imports, ImportInto(a, type) PROVE ImportAdds
  <2>1. PICK otps : /\ Tokens(otps) /\ Tokens(Imported(db.toks, otps))
                    /\ Commit(a, Imported(db.toks, otps))
    BY <1>1, <1>4, ImportIntoFacts
  <2>2. db'.toks = Imported(db.toks, otps)
    BY <1>1, <2>1, CommitFacts
  <2> QED
    BY <2>1, <2>2 DEF ImportAdds
<1>5. ASSUME NEW r \in Runs, ImportRun(r) PROVE db'.toks = db.toks \/ ImportAdds
  BY <1>4, <1>5, LineTypes DEF ImportRun, Actors
<1>6. CASE ImportDialog
  BY <1>4, <1>6, LineTypes DEF ImportDialog, Actors
<1>7. ASSUME NEW r \in Runs, Load(r) \/ Missing(r) \/ PrintCodes(r) \/ Crash(r) \/ ExportRun(r)
      PROVE  db' = db
  BY <1>7 DEF Load, Missing, PrintCodes, Crash, ExportRun
<1>8. CASE ExportDialog \/ Unlock \/ Lock
  BY <1>8 DEF ExportDialog, Unlock, Lock
<1>9. CASE UNCHANGED vars
  BY <1>9 DEF vars
<1> QED
  BY <1>2, <1>3, <1>5, <1>6, <1>7, <1>8, <1>9 DEF Next

\* A valid token continues itself.
LEMMA ContinuesItself ==
  ASSUME NEW t, Valid(t)
  PROVE  Continues(t, t)
BY ValidValue DEF Continues

\* Imports, counters and failures of either leave every token in its place, with its
\* counter where it was or further on, whichever copies the runs and the dialogs work
\* on: only a run that creates the file may replace tokens.
THEOREM Kept == Spec => TokensKept
<1> DEFINE Step == \/ \A i \in DOMAIN db.toks : i \in DOMAIN db'.toks /\ Continues(db.toks[i], db'.toks[i])
                   \/ \E r \in Runs : pc[r] = "creating" /\ pc'[r] = "created"
<1>1. Base /\ [Next]_vars => Step
  <2> SUFFICES ASSUME Base, [Next]_vars PROVE Step
    OBVIOUS
  <2>1. Tokens(db.toks) /\ ValidRoot(db.toks)
    BY DEF Base, Store, Good
  <2>2. \A i \in DOMAIN db.toks : Continues(db.toks[i], db.toks[i])
    BY <2>1, ContinuesItself DEF ValidRoot
  <2>3. CASE db'.toks = db.toks
    BY <2>2, <2>3
  <2>4. CASE Replaces
    BY <2>4 DEF Replaces
  <2>5. CASE ImportAdds
    <3>1. PICK otps : Tokens(otps) /\ db'.toks = Imported(db.toks, otps)
      BY <2>5 DEF ImportAdds
    <3>2. \A i \in DOMAIN db.toks : i \in DOMAIN db'.toks /\ db'.toks[i] = db.toks[i]
      BY <2>1, <3>1, ImportedFacts
    <3> QED
      BY <2>2, <3>2
  <2>6. CASE Advances
    <3>1. PICK good : db'.toks = Advanced(db.toks, good)
      BY <2>6 DEF Advances
    <3>2. DOMAIN db'.toks = DOMAIN db.toks
      BY <2>1, <3>1, AdvancedFacts
    <3>3. ASSUME NEW i \in DOMAIN db.toks PROVE Continues(db.toks[i], db'.toks[i])
      <4> DEFINE t == db.toks[i]
                 u == db'.toks[i]
      <4>1. u = t \/ (IsHotp(t) /\ u = [t EXCEPT !.value = @ + 1])
        BY <2>1, <3>1 DEF Advanced
      <4>2. IsToken(t) /\ Valid(t) /\ t.value \in Int
        BY <2>1, ValidValue DEF Tokens, ValidRoot
      <4> HIDE DEF t, u
      <4>3. ASSUME u = t PROVE Continues(t, u)
        BY <4>2, <4>3, ContinuesItself
      <4>4. ASSUME IsHotp(t), u = [t EXCEPT !.value = @ + 1] PROVE Continues(t, u)
        <5>1. u.value = t.value + 1 /\ u.value >= t.value
          BY <4>2, <4>4, BumpedToken
        <5>2. [t EXCEPT !.value = 0] = [u EXCEPT !.value = 0]
          BY <4>4
        <5> QED
          BY <4>4, <5>1, <5>2 DEF Continues
      <4> QED
        BY <4>1, <4>3, <4>4 DEF t, u
    <3> QED
      BY <3>2, <3>3
  <2> QED
    BY <2>3, <2>4, <2>5, <2>6, Changes
<1>2. Base /\ [Next]_vars => [Step]_vars
  BY <1>1
<1> QED
  BY <1>2, Invariant, PTL DEF Spec, TokensKept

\* The databases there may be at the start hold no token twice.
DistinctSeeds == \A T \in Seeds : Distinct(T)

\* From a database without twins, no import and no counter makes one, however often
\* and through however many actors a backup is imported.
THEOREM Twinless ==
  ASSUME DistinctSeeds
  PROVE  Spec => []NoTwins
<1>1. Distinct(<< >>)
  BY EmptyTokens DEF Distinct
<1>2. Init => NoTwins
  <2> SUFFICES ASSUME Init PROVE Distinct(db.toks)
    BY DEF NoTwins
  <2>1. db = [ver |-> 0, toks |-> << >>] \/ \E T \in Seeds : db = [ver |-> 1, toks |-> T]
    BY DEF Init
  <2> QED
    BY <1>1, <2>1 DEF DistinctSeeds
<1>3. Base /\ NoTwins /\ [Next]_vars => NoTwins'
  <2> SUFFICES ASSUME Base, Distinct(db.toks), [Next]_vars PROVE Distinct(db'.toks)
    BY DEF NoTwins, Distinct
  <2>1. Tokens(db.toks) /\ ValidRoot(db.toks)
    BY DEF Base, Store, Good
  <2>2. CASE ImportAdds
    BY <2>1, <2>2, ImportedFacts DEF ImportAdds
  <2>3. CASE Advances
    BY <2>1, <2>3, AdvancedFacts DEF Advances
  <2>4. CASE Replaces \/ db'.toks = db.toks
    BY <1>1, <2>4 DEF Replaces
  <2> QED
    BY <2>2, <2>3, <2>4, Changes
<1> QED
  BY <1>2, <1>3, Invariant, PTL DEF Spec

-----------------------------------------------------------------------------
(* The backup file and the tokens it was made from.                         *)

\* The types a file is exported as.
Types == ExportTypes \cup {c.type : c \in Lines("export")}

\* The file is what an export made of valid tokens, to its end or cut off, and no save,
\* import or later run touches it.
Backed ==
  from # NoFile =>
    /\ Tokens(from) /\ ValidRoot(from)
    /\ \E type \in Types : backup \in {Export(type[1], type[2], from), Cut(Export(type[1], type[2], from))}

\* A text of URIs has no password.
LEMMA TypeFacts ==
  ASSUME NEW type \in Types
  PROVE  type[1] \in Exports /\ (type[1] = "uri" => type[2] = Absent)
<1>1. CASE type \in ExportTypes
  <2>1. type # Absent => (type[1] = "uri" => type[2] = Absent)
    BY <1>1, TypesAssumption
  <2> QED
    BY <1>1, <2>1, LineTypes, TypesAssumption
<1>2. ASSUME NEW c \in Lines("export"), type = c.type PROVE type[1] \in Exports /\ (type[1] = "uri" => type[2] = Absent)
  <2>1. c \in CommandLines /\ c.type # Absent
    BY <1>2 DEF Lines, Accepts
  <2> QED
    BY <1>2, <2>1, LineTypes, TypesAssumption
<1> QED
  BY <1>1, <1>2 DEF Types

\* Only an export touches the file, and it notes what it exports.
LEMMA BackedStays == Base /\ Backed /\ [Next]_vars => Backed'
<1> SUFFICES ASSUME Base, Backed, [Next]_vars PROVE Backed'
  OBVIOUS
<1>1. CASE UNCHANGED <<backup, from>>
  BY <1>1 DEF Backed
<1>2. ASSUME NEW a \in Actors, NEW type \in Types, ExportFrom(a, type) PROVE Backed'
  <2>1. Tokens(mem[a]) /\ ValidRoot(mem[a])
    BY DEF Base, Store
  <2>2. from' = mem[a] /\ backup' \in {Export(type[1], type[2], mem[a]), Cut(Export(type[1], type[2], mem[a]))}
    BY <1>2 DEF ExportFrom
  <2> QED
    BY <2>1, <2>2 DEF Backed
<1>3. ASSUME NEW r \in Runs, ExportRun(r) PROVE Backed'
  <2>1. \A c \in Lines("export") : c.type \in Types
    BY DEF Types
  <2>2. r \in Actors
    BY DEF Actors
  <2> QED
    BY <1>1, <1>2, <1>3, <2>1, <2>2 DEF ExportRun
<1>4. CASE ExportDialog
  <2>1. Window \in Actors /\ ExportTypes \subseteq Types
    BY DEF Actors, Types
  <2> QED
    BY <1>2, <1>4, <2>1 DEF ExportDialog
<1>5. ASSUME NEW r \in Runs, \/ Load(r) \/ Missing(r) \/ Create(r) \/ Show(r)
                             \/ PrintCodes(r) \/ Crash(r) \/ ImportRun(r)
      PROVE  UNCHANGED <<backup, from>>
  BY <1>5 DEF Load, Missing, Create, Show, PrintCodes, Crash, ImportRun
<1>6. ASSUME ImportDialog \/ Unlock \/ Lock PROVE UNCHANGED <<backup, from>>
  BY <1>6 DEF ImportDialog, Unlock, Lock
<1>7. ASSUME UNCHANGED vars PROVE UNCHANGED <<backup, from>>
  BY <1>7 DEF vars
<1> QED
  BY <1>1, <1>3, <1>4, <1>5, <1>6, <1>7 DEF Next

\* Such a file gives back what it was made from.
LEMMA BackedReturns == Backed => RoundTrip
<1> SUFFICES ASSUME Backed, from # NoFile PROVE RoundTrip
  BY DEF RoundTrip, Exported
<1> DEFINE wanted == [i \in DOMAIN from |-> BuildObj(Carried(backup.format, from[i], from))]
           stored == Imported(<< >>, Read(backup, backup.format, Password))
           carried == {i \in DOMAIN from : Carries(backup.format, from[i])}
<1>1. Tokens(from) /\ ValidRoot(from)
  BY DEF Backed
<1>2. PICK type \in Types :
        backup \in {Export(type[1], type[2], from), Cut(Export(type[1], type[2], from))}
  BY DEF Backed
<1> DEFINE format == type[1]
           password == type[2]
<1>3. /\ format \in Exports /\ (format = "uri" => password = Absent)
      /\ backup \in {Export(format, password, from), Cut(Export(format, password, from))}
  BY <1>2, TypeFacts
<1> HIDE DEF format, password
<1>4. ASSUME backup = Export(format, password, from)
      PROVE  /\ backup.format = format /\ ~backup.cut
             /\ \A i \in carried : wanted[i] \in ToSet(stored)
             /\ carried = DOMAIN from => stored = Firsts(wanted)
  <2> DEFINE f == Export(format, password, from)
             w == [i \in DOMAIN from |-> BuildObj(Carried(format, from[i], from))]
             s == Imported(<< >>, Read(f, format, password))
  <2>1. /\ f.format = format /\ f.cut = FALSE
        /\ (IF f.slots = << >> THEN Absent ELSE f.slots[1].password) = password
        /\ format # "uri" => Opens(f, format, password)
    <3>1. format \in Exports /\ (format = "uri" => password = Absent)
      BY <1>3
    <3> QED
      BY <3>1, ExportOpens
  <2>2. /\ \A i \in DOMAIN from : Carries(format, from[i]) => w[i] \in ToSet(s)
        /\ (\A i \in DOMAIN from : Carries(format, from[i])) => s = Firsts(w)
    BY <1>1, <1>3, ExportReturns
  <2>3. backup = f
    BY <1>4
  <2> HIDE DEF f
  <2>4. backup.format = format /\ backup.cut = FALSE /\ Password = password
    BY <2>1, <2>3 DEF Password
  <2>5. wanted = w /\ stored = s
    BY <2>3, <2>4
  <2>6. carried = {i \in DOMAIN from : Carries(format, from[i])}
    BY <2>4
  <2> HIDE DEF wanted, stored, w, s, carried
  <2> QED
    BY <2>2, <2>4, <2>5, <2>6
<1>5. ASSUME backup = Cut(Export(format, password, from))
      PROVE  /\ backup.cut /\ backup.format = format
             /\ format # "uri" => Read(backup, backup.format, Password) = << >>
  <2> DEFINE f == Cut(Export(format, password, from))
  <2>1. /\ f.format = format /\ f.cut = TRUE
        /\ format # "uri" => \A p : Read(f, format, p) = << >>
    <3>1. format \in Exports
      BY <1>3
    <3> QED
      BY <3>1, CutReturns
  <2> HIDE DEF f
  <2>2. backup = f
    BY <1>5 DEF f
  <2> QED
    BY <2>1, <2>2
<1> HIDE DEF wanted, stored, carried
<1>6. /\ Exported => /\ \A i \in carried : wanted[i] \in ToSet(stored)
                     /\ carried = DOMAIN from => stored = Firsts(wanted)
      /\ (from # NoFile /\ backup.cut /\ backup.format # "uri") =>
           Read(backup, backup.format, Password) = << >>
  BY <1>3, <1>4, <1>5 DEF Exported
<1> QED
  BY <1>6 DEF RoundTrip, wanted, stored, carried

\* A backup gives back, in every format and with its password, each token that the format
\* can carry, and the whole database in its order when it can carry all of them; a JSON
\* backup that was cut off gives nothing.  Whatever the tokens, the names, the groups and
\* the numbers in them are.
THEOREM Returned == Spec => []RoundTrip
<1>1. Init => Backed
  BY DEF Init, Backed
<1> QED
  BY <1>1, BackedStays, BackedReturns, Invariant, PTL DEF Spec

-----------------------------------------------------------------------------
(* Codes.                                                                   *)

\* The codes that were printed or are about to be.
Codes == printed \cup UNION {said[r] : r \in Runs}

\* A secret that no import has brought counts for one token.
Lone ==
  \A i, j \in DOMAIN db.toks :
    /\ IsHotp(db.toks[i]) /\ IsHotp(db.toks[j])
    /\ db.toks[i].secret = db.toks[j].secret /\ db.toks[i].secret \notin rolled
    => i = j

\* The counter of such a token is past every code that was computed with its secret.
Ahead ==
  \A c \in Codes : \A i \in DOMAIN db.toks :
    /\ IsHotp(db.toks[i]) /\ db.toks[i].secret = c[1] /\ c[1] \notin rolled
    => c[2] < db.toks[i].value

\* A code waits for one run to print it, and was not printed before.
Apart ==
  \A r \in Runs : \A c \in said[r] :
    c[1] \notin rolled => c \notin printed /\ \A q \in Runs \ {r} : c \notin said[q]

\* The three together, with the property itself.
Ledger ==
  /\ DOMAIN said = Runs /\ \A c \in Codes : c[2] \in Int
  /\ Lone /\ Ahead /\ Apart /\ CodesOnce

\* A step that computes no code, imports nothing, and leaves the tokens or empties the
\* file.
LEMMA QuietLedger ==
  ASSUME Ledger, db'.toks = db.toks \/ db'.toks = << >>,
         UNCHANGED <<printed, twice, rolled>>, DOMAIN said' = Runs,
         \A r \in Runs : said'[r] \subseteq said[r]
  PROVE  Ledger'
<1>1. Codes' \subseteq Codes
  BY DEF Codes
<1>2. DOMAIN db'.toks = {} \/ db'.toks = db.toks
  BY EmptyTokens
<1>3. Lone' /\ Ahead'
  BY <1>1, <1>2 DEF Ledger, Lone, Ahead
<1>4. Apart'
  BY DEF Ledger, Apart
<1>5. CodesOnce' /\ \A c \in Codes' : c[2] \in Int
  BY <1>1 DEF Ledger, CodesOnce
<1> QED
  BY <1>3, <1>4, <1>5 DEF Ledger

\* A run prints its codes.
LEMMA PrintLedger ==
  ASSUME Ledger, NEW r \in Runs, PrintCodes(r)
  PROVE  Ledger'
<1>1. /\ printed' = printed \cup said[r] /\ twice' = twice \cup (printed \cap said[r])
      /\ said' = [said EXCEPT ![r] = {}] /\ UNCHANGED <<db, rolled>>
  BY DEF PrintCodes
<1>2. DOMAIN said' = Runs /\ said'[r] = {} /\ \A q \in Runs \ {r} : said'[q] = said[q]
  BY <1>1 DEF Ledger
<1>3. Codes' \subseteq Codes
  BY <1>1, <1>2 DEF Codes
<1>4. Lone' /\ Ahead'
  BY <1>1, <1>3 DEF Ledger, Lone, Ahead
<1>5. Apart'
  <2> SUFFICES ASSUME NEW q \in Runs, NEW c \in said'[q], c[1] \notin rolled
               PROVE  c \notin printed' /\ \A p \in Runs \ {q} : c \notin said'[p]
    BY <1>1 DEF Apart
  <2>1. q # r /\ c \in said[q]
    BY <1>2
  <2>2. c \notin printed /\ \A p \in Runs \ {q} : c \notin said[p]
    BY <2>1 DEF Ledger, Apart
  <2> QED
    BY <1>1, <1>2, <2>1, <2>2
<1>6. CodesOnce'
  <2>1. \A c \in printed \cap said[r] : c[1] \in rolled
    BY DEF Ledger, Apart
  <2> QED
    BY <1>1, <2>1 DEF Ledger, CodesOnce
<1> QED
  BY <1>2, <1>3, <1>4, <1>5, <1>6 DEF Ledger

\* A show saves its counters and is left with codes to print.
LEMMA ShowLedger ==
  ASSUME Base, Ledger, NEW r \in Runs, Show(r)
  PROVE  Ledger'
<1>1. UNCHANGED <<printed, twice, rolled>> /\ Store
  BY ShowCases DEF Base
<1>2. CASE Exit(r) /\ UNCHANGED <<db, said>>
  <2>1. DOMAIN said' = Runs /\ \A q \in Runs : said'[q] = said[q]
    BY <1>2 DEF Ledger
  <2> QED
    BY <1>1, <1>2, <2>1, QuietLedger
<1>3. CASE said' = [said EXCEPT ![r] = {}] /\ UNCHANGED <<db, mem, snap>>
  <2>1. DOMAIN said' = Runs /\ said'[r] = {} /\ \A q \in Runs \ {r} : said'[q] = said[q]
    BY <1>3 DEF Ledger
  <2> QED
    BY <1>1, <1>3, <2>1, QuietLedger
<1>4. CASE \E account, issuer : Shows(r, account, issuer)
  <2> DEFINE T == db.toks
             U == db'.toks
  <2>1. PICK good, codes :
          /\ Commit(r, Advanced(T, good)) /\ said' = [said EXCEPT ![r] = codes]
          /\ codes \subseteq {Code(T[i]) : i \in {j \in good : IsHotp(T[j])}}
          /\ good \subseteq DOMAIN T
    <3>1. PICK good : /\ Commit(r, Advanced(T, good)) /\ good \subseteq DOMAIN T
                      /\ \E codes : /\ said' = [said EXCEPT ![r] = codes]
                                    /\ codes \subseteq {Code(T[i]) : i \in {j \in good : IsHotp(T[j])}}
      BY <1>1, <1>4, ShowsFacts
    <3> QED
      BY <3>1
  <2>2. Tokens(T) /\ ValidRoot(T)
    BY <1>1 DEF Store, Good
  <2>3. U = Advanced(T, good)
    <3> DEFINE A == Advanced(T, good)
    <3>1. Commit(r, A)
      BY <2>1
    <3> HIDE DEF A
    <3> QED
      BY <3>1 DEF Commit, A
  <2>4. /\ DOMAIN U = DOMAIN T
        /\ \A i \in DOMAIN T :
             /\ Alike(T[i], U[i])
             /\ U[i].value = IF i \in good /\ IsHotp(T[i]) THEN T[i].value + 1 ELSE T[i].value
    BY <2>2, <2>3, AdvancedFacts
  <2>5. \A i \in DOMAIN T : T[i].value \in Int
    BY <2>2, ValidValue DEF ValidRoot
  <2> HIDE DEF T, U
  <2>6. DOMAIN said' = Runs /\ said'[r] = codes /\ \A q \in Runs \ {r} : said'[q] = said[q]
    BY <2>1 DEF Ledger
  <2>7. \A c \in codes : \E j \in DOMAIN T :
          /\ j \in good /\ IsHotp(T[j]) /\ c[1] = T[j].secret /\ c[2] = T[j].value
    BY <2>1 DEF Code
  <2>8. Codes' \subseteq Codes \cup codes
    BY <1>1, <2>6 DEF Codes
  <2>9. \A i \in DOMAIN T : (IsHotp(U[i]) <=> IsHotp(T[i])) /\ U[i].secret = T[i].secret
    BY <2>4 DEF Alike, IsHotp
  <2>10. Lone'
    BY <1>1, <2>4, <2>9 DEF Ledger, Lone, T, U
  <2>11. \A c \in codes : c[1] \notin rolled => c \notin Codes
    <3> SUFFICES ASSUME NEW c \in codes, c[1] \notin rolled, c \in Codes PROVE FALSE
      OBVIOUS
    <3>1. PICK j \in DOMAIN T : IsHotp(T[j]) /\ c[1] = T[j].secret /\ c[2] = T[j].value
      BY <2>7
    <3>2. c[2] < T[j].value
      BY <3>1 DEF Ledger, Ahead, T
    <3> QED
      BY <2>5, <3>1, <3>2
  <2>12. Ahead'
    <3> SUFFICES ASSUME NEW c \in Codes', NEW i \in DOMAIN U, IsHotp(U[i]), U[i].secret = c[1],
                        c[1] \notin rolled
                 PROVE  c[2] < U[i].value
      BY <1>1 DEF Ahead, U
    <3>1. IsHotp(T[i]) /\ T[i].secret = c[1] /\ T[i].value \in Int /\ i \in DOMAIN T
      BY <2>4, <2>5, <2>9
    <3>2. CASE c \in Codes
      <4>1. c[2] < T[i].value /\ c[2] \in Int
        BY <3>1, <3>2 DEF Ledger, Ahead, T
      <4>2. U[i].value = T[i].value + 1 \/ U[i].value = T[i].value
        BY <2>4, <3>1
      <4> QED
        BY <3>1, <4>1, <4>2
    <3>3. CASE c \in codes
      <4>1. PICK j \in DOMAIN T : j \in good /\ IsHotp(T[j]) /\ c[1] = T[j].secret /\ c[2] = T[j].value
        BY <2>7, <3>3
      <4>2. i = j
        BY <3>1, <4>1 DEF Ledger, Lone, T
      <4>3. U[i].value = T[i].value + 1
        BY <2>4, <3>1, <4>1, <4>2
      <4> QED
        BY <3>1, <4>1, <4>2, <4>3
    <3> QED
      BY <2>8, <3>2, <3>3
  <2>13. Apart'
    <3> SUFFICES ASSUME NEW q \in Runs, NEW c \in said'[q], c[1] \notin rolled
                 PROVE  c \notin printed /\ \A p \in Runs \ {q} : c \notin said'[p]
      BY <1>1 DEF Apart
    <3>1. CASE q = r
      <4>1. c \notin Codes
        BY <2>6, <2>11, <3>1
      <4> QED
        BY <2>6, <3>1, <4>1 DEF Codes
    <3>2. CASE q # r
      <4>1. c \in said[q] /\ c \in Codes
        BY <2>6, <3>2 DEF Codes
      <4>2. c \notin codes
        BY <2>11, <4>1
      <4>3. c \notin printed /\ \A p \in Runs \ {q} : c \notin said[p]
        BY <4>1 DEF Ledger, Apart
      <4> QED
        BY <2>6, <4>2, <4>3
    <3> QED
      BY <3>1, <3>2
  <2>14. \A c \in Codes' : c[2] \in Int
    BY <2>5, <2>7, <2>8 DEF Ledger
  <2> QED
    BY <1>1, <2>6, <2>10, <2>12, <2>13, <2>14 DEF Ledger, CodesOnce
<1> QED
  BY <1>2, <1>3, <1>4, ShowCases

\* The secret of every counter behind the first n tokens is counted there.
LEMMA AddedCounted ==
  ASSUME NEW T, Tokens(T), NEW n \in Nat, NEW i \in DOMAIN T, i > n, IsHotp(T[i])
  PROVE  T[i].secret \in Counting(SubSeq(T, n + 1, Len(T)))
<1> DEFINE rest == SubSeq(T, n + 1, Len(T))
<1>1. Len(T) \in Nat /\ i \in 1..Len(T) /\ DOMAIN T = 1..Len(T)
  BY ListedSeq DEF Tokens
<1>2. \A j \in (n + 1)..Len(T) : T[j] \in ToSet(T)
  BY <1>1 DEF ToSet
<1>3. /\ rest \in Seq(ToSet(T))
      /\ Len(rest) = IF n + 1 <= Len(T) THEN Len(T) - (n + 1) + 1 ELSE 0
      /\ \A j \in 1..(Len(T) - (n + 1) + 1) : rest[j] = T[(n + 1) + j - 1]
  BY <1>1, <1>2, SubSeqProperties
<1> HIDE DEF rest
<1>4. i - n \in 1..(Len(T) - (n + 1) + 1) /\ (n + 1) + (i - n) - 1 = i /\ n + 1 <= Len(T)
  BY <1>1
<1>5. rest[i - n] = T[i] /\ Len(rest) = Len(T) - (n + 1) + 1
  BY <1>3, <1>4
<1>6. DOMAIN rest = 1..Len(rest)
  BY <1>3, LenProperties
<1>7. T[i] \in ToSet(rest)
  BY <1>4, <1>5, <1>6 DEF ToSet
<1> QED
  BY <1>7 DEF Counting, rest

\* An import puts tokens behind those of the file, and writes down their secrets.
LEMMA ImportLedger ==
  ASSUME Base, Ledger, NEW a \in Actors, NEW type, type[1] \in Imports, ImportInto(a, type),
         UNCHANGED <<said, printed, twice>>
  PROVE  Ledger'
<1>1. Store /\ Rest /\ Tokens(db.toks)
  BY DEF Base, Store, Good
<1>2. PICK otps :
        /\ Tokens(otps)
        /\ Tokens(Imported(db.toks, otps)) /\ Commit(a, Imported(db.toks, otps))
        /\ rolled' = rolled \cup Counting(SubSeq(Imported(db.toks, otps), Len(db.toks) + 1,
                                                 Len(Imported(db.toks, otps))))
  BY <1>1, ImportIntoFacts
<1> DEFINE T == db.toks
           U == Imported(db.toks, otps)
<1>3. \A i \in DOMAIN T : i \in DOMAIN U /\ U[i] = T[i]
  BY <1>1, <1>2, ImportedFacts
<1>4. db'.toks = U /\ rolled \subseteq rolled'
  BY <1>1, <1>2, CommitFacts
<1> HIDE DEF U
<1>5. \A i \in DOMAIN U : IsHotp(U[i]) /\ U[i].secret \notin rolled' => i \in DOMAIN T /\ U[i] = T[i]
  <2> SUFFICES ASSUME NEW i \in DOMAIN U, IsHotp(U[i]), U[i].secret \notin rolled'
               PROVE  i \in DOMAIN T
    BY <1>3
  <2>1. Len(T) \in Nat /\ DOMAIN T = 1..Len(T)
    BY <1>1, ListedSeq DEF Tokens
  <2>2. Tokens(U) /\ DOMAIN U = 1..Len(U) /\ Len(U) \in Nat
    BY <1>2, ListedSeq DEF Tokens, U
  <2>3. CASE i > Len(T)
    <3>1. U[i].secret \in Counting(SubSeq(U, Len(T) + 1, Len(U)))
      BY <2>1, <2>2, <2>3, AddedCounted
    <3> QED
      BY <1>2, <3>1 DEF U
  <2>4. CASE ~(i > Len(T))
    BY <2>1, <2>2, <2>4
  <2> QED
    BY <2>3, <2>4
<1>6. Codes' = Codes
  BY DEF Codes
<1> HIDE DEF T
<1>7. Lone'
  BY <1>4, <1>5 DEF Ledger, Lone, T
<1>8. Ahead'
  BY <1>4, <1>5, <1>6 DEF Ledger, Ahead, T
<1>9. Apart'
  BY <1>4 DEF Ledger, Apart
<1> QED
  BY <1>4, <1>6, <1>7, <1>8, <1>9 DEF Ledger, CodesOnce

\* Every step keeps the ledger.
LEMMA NextLedger == Base /\ Ledger /\ [Next]_vars => Ledger'
<1> SUFFICES ASSUME Base, Ledger, [Next]_vars PROVE Ledger'
  OBVIOUS
<1>1. /\ DOMAIN said = Runs
      /\ \A r \in Runs : said' = [said EXCEPT ![r] = {}] =>
           DOMAIN said' = Runs /\ \A q \in Runs : said'[q] \subseteq said[q]
  BY DEF Ledger
<1>2. said' = said => DOMAIN said' = Runs /\ \A q \in Runs : said'[q] \subseteq said[q]
  BY <1>1
<1>3. ASSUME NEW r \in Runs, Load(r) \/ Missing(r) \/ ExportRun(r) PROVE Ledger'
  <2>1. UNCHANGED <<db, printed, twice, rolled, said>>
    BY <1>3 DEF Load, Missing, ExportRun
  <2> QED
    BY <1>2, <2>1, QuietLedger
<1>4. ASSUME NEW r \in Runs, Create(r) PROVE Ledger'
  <2>1. UNCHANGED <<printed, twice, rolled, said>> /\ (db'.toks = db.toks \/ db'.toks = << >>)
    BY <1>4 DEF Create
  <2> QED
    BY <1>2, <2>1, QuietLedger
<1>5. ASSUME NEW r \in Runs, Crash(r) PROVE Ledger'
  <2>1. UNCHANGED <<db, printed, twice, rolled>> /\ said' = [said EXCEPT ![r] = {}]
    BY <1>5 DEF Crash
  <2> QED
    BY <1>1, <2>1, QuietLedger
<1>6. ASSUME NEW r \in Runs, ImportRun(r) PROVE Ledger'
  <2>1. UNCHANGED <<printed, twice, said>> /\ r \in Actors
    BY <1>6 DEF ImportRun, Actors
  <2>2. CASE UNCHANGED <<db, rolled>>
    BY <1>2, <2>1, <2>2, QuietLedger
  <2>3. CASE \E c \in Lines("import") : ImportInto(r, c.type)
    BY <2>1, <2>3, LineTypes, ImportLedger
  <2> QED
    BY <1>6, <2>2, <2>3 DEF ImportRun
<1>7. CASE ImportDialog
  <2>1. UNCHANGED <<printed, twice, said>> /\ Window \in Actors
    BY <1>7 DEF ImportDialog, Actors
  <2>2. PICK type \in ImportTypes : ImportInto(Window, type)
    BY <1>7 DEF ImportDialog
  <2> QED
    BY <2>1, <2>2, LineTypes, ImportLedger
<1>8. CASE ExportDialog \/ Unlock \/ Lock \/ UNCHANGED vars
  <2>1. UNCHANGED <<db, printed, twice, rolled, said>>
    BY <1>8 DEF ExportDialog, Unlock, Lock, vars
  <2> QED
    BY <1>2, <2>1, QuietLedger
<1> QED
  BY <1>3, <1>4, <1>5, <1>6, <1>7, <1>8, ShowLedger, PrintLedger DEF Next

\* The databases there may be at the start hold one counter for a secret: two tokens
\* that share a secret have the same codes to print.
LoneSeeds ==
  \A T \in Seeds : \A i, j \in DOMAIN T :
    IsHotp(T[i]) /\ IsHotp(T[j]) /\ T[i].secret = T[j].secret => i = j

\* No code of a counter is printed twice, by whichever runs, however their saves fail
\* and whenever they crash, unless an import brought the secret.
THEOREM OnePrint ==
  ASSUME LoneSeeds
  PROVE  Spec => []CodesOnce
<1>1. Init => Ledger
  <2> SUFFICES ASSUME Init PROVE Ledger
    OBVIOUS
  <2>1. db = [ver |-> 0, toks |-> << >>] \/ \E T \in Seeds : db = [ver |-> 1, toks |-> T]
    BY DEF Init
  <2>2. Lone
    BY <2>1, EmptyTokens DEF Lone, LoneSeeds
  <2>3. /\ said = [r \in Runs |-> {}] /\ printed = {} /\ twice = {}
    BY DEF Init
  <2>4. Codes = {}
    BY <2>3 DEF Codes
  <2> QED
    BY <2>2, <2>3, <2>4 DEF Ledger, Ahead, Apart, CodesOnce
<1>2. Ledger => CodesOnce
  BY DEF Ledger
<1> QED
  BY <1>1, <1>2, NextLedger, Invariant, PTL DEF Spec
=============================================================================
