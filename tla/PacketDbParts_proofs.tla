------------------------ MODULE PacketDbParts_proofs ------------------------
(***************************************************************************)
(* What the packet database is built from.  The operators of IntervalMaps, *)
(* for every key width and every type of value: each helper is described   *)
(* by its effect on At, the value a client reads, and on the entries.  And *)
(* DecodePacket, for every window of words: the packet lies inside the     *)
(* window, depends on nothing beyond its own last word, and its            *)
(* instructions are laid out as its words are.                             *)
(***************************************************************************)
EXTENDS Decode, IntervalMaps, FiniteSetTheorems, FunctionTheorems, TLAPS

-----------------------------------------------------------------------------
(* A non-empty set of natural numbers has a least element, and a greatest  *)
(* one when it is bounded: what the CHOOSEs for the neighbours of a key    *)
(* and for the end of a packet rest on, and induction.                     *)

LEMMA LeastExists ==
    ASSUME NEW S \in SUBSET Nat, S # {}
    PROVE  \E j \in S : \A i \in S : j <= i
<1> DEFINE T == {0 .. (k - 1) : k \in S}
<1>1. T # {}
  OBVIOUS
<1>2. ASSUME NEW k \in S
      PROVE  0 .. (k - 1) \in FiniteSubsetsOf(Nat)
  <2>1. IsFiniteSet(0 .. (k - 1))
    BY FS_Interval
  <2>2. QED
    BY <2>1 DEF FiniteSubsetsOf
<1>3. T \subseteq FiniteSubsetsOf(Nat)
  BY <1>2
<1>4. PICK x \in T : \A y \in T : ~ (<<y, x>> \in StrictSubsetOrdering(Nat))
  <2> HIDE DEF T
  <2> QED BY <1>1, <1>3, FS_StrictSubsetOrderingWellFounded, WFMin
<1>5. PICK j \in S : x = 0 .. (j - 1)
  OBVIOUS
<1>6. ASSUME NEW i \in S, i < j
      PROVE  FALSE
  <2>1. <<0 .. (i - 1), 0 .. (j - 1)>> \in StrictSubsetOrdering(Nat)
    BY <1>6 DEF StrictSubsetOrdering
  <2>2. QED
    BY <1>4, <1>5, <2>1
<1>7. QED
  BY <1>6

LEMMA GreatestExists ==
    ASSUME NEW S \in SUBSET Nat, S # {}, NEW top \in Nat, \A i \in S : i <= top
    PROVE  \E j \in S : \A i \in S : i <= j
<1> DEFINE T == {top - i : i \in S}
<1>1. T # {}
  OBVIOUS
<1>2. T \in SUBSET Nat
  OBVIOUS
<1>3. PICK t \in T : \A u \in T : t <= u
  <2> HIDE DEF T
  <2> QED BY <1>1, <1>2, LeastExists
<1>4. PICK j \in S : t = top - j
  OBVIOUS
<1>5. ASSUME NEW i \in S
      PROVE  i <= j
  <2>1. top - j <= top - i
    BY <1>3, <1>4
  <2>2. i \in Nat /\ j \in Nat
    OBVIOUS
  <2>3. QED
    BY <2>1, <2>2
<1>6. QED
  BY <1>5

\* Induction up to a bound, for a property that is given as a set.
LEMMA InductionUpTo ==
    ASSUME NEW n \in Nat, NEW T, 0 \in T,
           \A i \in 1 .. n : i - 1 \in T => i \in T
    PROVE  0 .. n \subseteq T
<1> DEFINE Bad == {i \in 0 .. n : i \notin T}
<1>1. SUFFICES ASSUME Bad # {}
               PROVE  FALSE
  OBVIOUS
<1>2. Bad \in SUBSET Nat
  OBVIOUS
<1>3. PICK j \in Bad : \A i \in Bad : j <= i
  <2> HIDE DEF Bad
  <2> QED BY <1>1, <1>2, LeastExists
<1>4. j # 0 /\ j \in 1 .. n
  OBVIOUS
<1>5. j - 1 \in T
  <2>1. j - 1 \in 0 .. n /\ ~ (j <= j - 1)
    BY <1>4
  <2>2. QED
    BY <1>3, <2>1
<1>6. QED
  BY <1>4, <1>5

-----------------------------------------------------------------------------
(* The neighbours of a key, and the entry that holds it. *)
LEMMA PrevIsNeighbour ==
    ASSUME NEW m, DOMAIN m \subseteq Key, NEW k \in Int, Before(m, k) # {}
    PROVE  /\ Prev(m, k) \in DOMAIN m
           /\ Prev(m, k) < k
           /\ \A i \in DOMAIN m : i < k => i <= Prev(m, k)
<1>1. Before(m, k) \in SUBSET Nat /\ \A i \in Before(m, k) : i <= MaxKey
  BY DEF Before, Key
<1>2. \E j \in Before(m, k) : \A i \in Before(m, k) : i <= j
  BY <1>1, GreatestExists, MaxKeyAssumption
<1>3. Prev(m, k) \in Before(m, k) /\ \A i \in Before(m, k) : i <= Prev(m, k)
  BY <1>2 DEF Prev
<1>4. QED
  BY <1>3 DEF Before

LEMMA SuccIsNeighbour ==
    ASSUME NEW m, DOMAIN m \subseteq Key, NEW k \in Int, After(m, k) # {}
    PROVE  /\ Succ(m, k) \in DOMAIN m
           /\ k < Succ(m, k)
           /\ \A i \in DOMAIN m : k < i => Succ(m, k) <= i
<1>1. After(m, k) \in SUBSET Nat
  BY DEF After, Key
<1>2. \E j \in After(m, k) : \A i \in After(m, k) : j <= i
  BY <1>1, LeastExists
<1>3. Succ(m, k) \in After(m, k) /\ \A i \in After(m, k) : Succ(m, k) <= i
  BY <1>2 DEF Succ
<1>4. QED
  BY <1>3 DEF After

LEMMA EntryHolds ==
    ASSUME NEW m, DOMAIN m \subseteq Key, 0 \in DOMAIN m, NEW k \in Nat
    PROVE  /\ Entry(m, k) \in DOMAIN m
           /\ Entry(m, k) <= k
           /\ \A i \in DOMAIN m : i <= k => i <= Entry(m, k)
<1>1. CASE k \in DOMAIN m
  BY <1>1 DEF Entry, Key
<1>2. CASE k \notin DOMAIN m
  <2>1. Before(m, k) # {}
    BY <1>2 DEF Before
  <2>2. QED
    BY <1>2, <2>1, PrevIsNeighbour DEF Entry, Key
<1>3. QED
  BY <1>1, <1>2

(* The entry that holds a key is the only one with no other in between. *)
LEMMA EntryIsUnique ==
    ASSUME NEW m, DOMAIN m \subseteq Key, 0 \in DOMAIN m, NEW k \in Nat,
           NEW j \in DOMAIN m, j <= k, \A i \in DOMAIN m : i <= k => i <= j
    PROVE  Entry(m, k) = j
BY EntryHolds DEF Key

-----------------------------------------------------------------------------
(* Entries that only repeat the value of the point before them. *)
Repeats(m) == {k \in DOMAIN m \ {0} : At(m, k) = At(m, k - 1)}

LEMMA AtEntry ==
    ASSUME NEW m, NEW k \in DOMAIN m
    PROVE  At(m, k) = m[k]
BY DEF At, Entry

LEMMA CanonicalIffNoRepeats ==
    ASSUME NEW m
    PROVE  Canonical(m) <=> Repeats(m) = {}
BY AtEntry DEF Canonical, Repeats

LEMMA RepeatsAtPrev ==
    ASSUME NEW m, DOMAIN m \subseteq Key, 0 \in DOMAIN m, NEW k \in DOMAIN m
    PROVE  /\ Before(m, k) # {} <=> k # 0
           /\ k # 0 => At(m, k - 1) = m[Prev(m, k)]
<1>1. k \in Nat
  BY DEF Key
<1>2. Before(m, k) # {} <=> k # 0
  BY <1>1 DEF Before, Key
<1>3. ASSUME k # 0
      PROVE  At(m, k - 1) = m[Prev(m, k)]
  <2>1. /\ Prev(m, k) \in DOMAIN m
        /\ Prev(m, k) < k
        /\ \A i \in DOMAIN m : i < k => i <= Prev(m, k)
    BY <1>1, <1>2, <1>3, PrevIsNeighbour
  <2>2. k - 1 \in Nat
    BY <1>1, <1>3
  <2>3. Prev(m, k) <= k - 1 /\ \A i \in DOMAIN m : i <= k - 1 => i <= Prev(m, k)
    BY <1>1, <2>1 DEF Key
  <2>4. Entry(m, k - 1) = Prev(m, k)
    BY <2>1, <2>2, <2>3, EntryIsUnique
  <2>5. QED
    BY <2>4 DEF At
<1>4. QED
  BY <1>2, <1>3

(* Erasing an entry that repeats its predecessor changes nothing a client
   can see. *)
LEMMA EraseRepeat ==
    ASSUME NEW Val, NEW m, IsStdMap(m, Val), NEW e \in Repeats(m)
    PROVE  LET n == Keep(m, Key \ {e})
           IN  /\ IsStdMap(n, Val)
               /\ DOMAIN n = DOMAIN m \ {e}
               /\ \A k \in DOMAIN n : n[k] = m[k]
               /\ \A k \in Key : At(n, k) = At(m, k)
<1> DEFINE n == Keep(m, Key \ {e})
<1>1. e \in DOMAIN m /\ e # 0 /\ e \in Nat /\ At(m, e - 1) = m[e]
  BY AtEntry DEF IsStdMap, Repeats, Key
<1>2. DOMAIN n = DOMAIN m \ {e} /\ \A k \in DOMAIN n : n[k] = m[k]
  BY DEF Keep, IsStdMap
<1>3. IsStdMap(n, Val)
  BY <1>1, <1>2 DEF IsStdMap, Keep
<1>4. ASSUME NEW k \in Key
      PROVE  At(n, k) = At(m, k)
  <2>1. /\ k \in Nat
        /\ Entry(m, k) \in DOMAIN m
        /\ Entry(m, k) <= k
        /\ \A i \in DOMAIN m : i <= k => i <= Entry(m, k)
    BY EntryHolds DEF IsStdMap, Key
  <2>2. CASE Entry(m, k) # e
    <3>1. Entry(n, k) = Entry(m, k)
      <4> HIDE DEF n
      <4> QED BY <1>2, <1>3, <2>1, <2>2, EntryIsUnique DEF IsStdMap
    <3>2. QED
      BY <1>2, <2>1, <2>2, <3>1 DEF At
  <2>3. CASE Entry(m, k) = e
    <3> DEFINE p == Entry(m, e - 1)
    <3>1. /\ p \in DOMAIN m
          /\ p <= e - 1
          /\ \A i \in DOMAIN m : i <= e - 1 => i <= p
      BY <1>1, EntryHolds DEF IsStdMap
    <3>2. DOMAIN m \subseteq Nat
      BY DEF IsStdMap, Key
    <3>3. p \in DOMAIN n /\ p <= k /\ \A i \in DOMAIN n : i <= k => i <= p
      <4> HIDE DEF n, p
      <4> QED BY <1>1, <1>2, <2>1, <2>3, <3>1, <3>2
    <3>4. Entry(n, k) = p
      <4> HIDE DEF n, p
      <4> QED BY <1>3, <2>1, <3>3, EntryIsUnique DEF IsStdMap
    <3>5. At(n, k) = m[p]
      BY <1>2, <3>3, <3>4 DEF At
    <3>6. QED
      BY <1>1, <2>3, <3>5 DEF At
  <2>4. QED
    BY <2>2, <2>3
<1>5. QED
  BY <1>2, <1>3, <1>4

(* m and n look alike to a client. *)
SameContents(m, n) == \A k \in Key : At(n, k) = At(m, k)

(* What is left to clean up depends on the entries and the contents only. *)
LEMMA RepeatsOfPart ==
    ASSUME NEW m, NEW n, DOMAIN m \subseteq Key,
           DOMAIN n \subseteq DOMAIN m, SameContents(m, n)
    PROVE  Repeats(n) = Repeats(m) \cap DOMAIN n
<1>1. \A k \in DOMAIN m \ {0} : k \in Key /\ k - 1 \in Key
  BY MaxKeyAssumption DEF Key
<1>2. QED
  BY <1>1 DEF Repeats, SameContents

LEMMA DropNextErases ==
    ASSUME NEW Val, NEW m, IsStdMap(m, Val), NEW i \in DOMAIN m
    PROVE  LET n == DropNext(m, i)
           IN  /\ IsStdMap(n, Val)
               /\ SameContents(m, n)
               /\ DOMAIN n = DOMAIN m \ {k \in Repeats(m) : k \in After(m, i)
                                                          /\ k = Succ(m, i)}
<1> DEFINE s == Succ(m, i)
           n == DropNext(m, i)
<1>1. DOMAIN m \subseteq Key /\ 0 \in DOMAIN m /\ i \in Int /\ i \in Nat
  BY DEF IsStdMap, Key
<1>2. CASE After(m, i) = {}
  BY <1>2 DEF DropNext, SameContents
<1>3. CASE After(m, i) # {}
  <2>1. s \in DOMAIN m /\ i < s /\ \A j \in DOMAIN m : i < j => s <= j
    BY <1>1, <1>3, SuccIsNeighbour
  <2>2. s \in After(m, i) /\ s # 0 /\ s \in Nat
    BY <1>1, <2>1 DEF After, Key
  <2>3. i <= s - 1 /\ \A j \in DOMAIN m : j <= s - 1 => j <= i
    BY <1>1, <2>1, <2>2 DEF Key
  <2>4. Entry(m, s - 1) = i
    BY <1>1, <2>2, <2>3, EntryIsUnique
  <2>5. s \in Repeats(m) <=> m[s] = m[i]
    BY <2>1, <2>2, <2>4, AtEntry DEF Repeats, At
  <2>6. CASE m[s] = m[i]
    <3>1. n = Keep(m, Key \ {s})
      BY <1>3, <2>6 DEF DropNext
    <3>2. s \in Repeats(m)
      BY <2>5, <2>6
    <3>3. /\ IsStdMap(Keep(m, Key \ {s}), Val)
          /\ DOMAIN Keep(m, Key \ {s}) = DOMAIN m \ {s}
          /\ \A k \in Key : At(Keep(m, Key \ {s}), k) = At(m, k)
      <4> HIDE DEF s, n
      <4> QED BY <3>2, EraseRepeat
    <3>4. IsStdMap(n, Val) /\ DOMAIN n = DOMAIN m \ {s} /\ SameContents(m, n)
      BY <3>1, <3>3 DEF SameContents
    <3>5. QED
      BY <2>2, <3>2, <3>4
  <2>7. CASE m[s] # m[i]
    <3>1. n = m
      BY <2>7 DEF DropNext
    <3>2. QED
      BY <2>5, <2>7, <3>1 DEF SameContents
  <2>8. QED
    BY <2>6, <2>7
<1>4. QED
  BY <1>2, <1>3

(* RemoveDuplicates(i) erases, of the entry at i and the one after it,
   exactly those that repeat the value before them. *)
LEMMA RemoveDuplicatesErases ==
    ASSUME NEW Val, NEW m, IsStdMap(m, Val), NEW i \in DOMAIN m
    PROVE  LET n == RemoveDuplicates(m, i)
           IN  /\ IsStdMap(n, Val)
               /\ SameContents(m, n)
               /\ DOMAIN n = DOMAIN m \ {k \in Repeats(m) :
                                  k = i \/ (k \in After(m, i) /\ k = Succ(m, i))}
<1> DEFINE n == RemoveDuplicates(m, i)
<1>1. DOMAIN m \subseteq Key /\ 0 \in DOMAIN m /\ i \in Int /\ i \in Nat
  BY DEF IsStdMap, Key
<1>2. i \in Repeats(m) <=> Before(m, i) # {} /\ m[Prev(m, i)] = m[i]
  BY <1>1, RepeatsAtPrev, AtEntry DEF Repeats
<1>3. CASE i \notin Repeats(m)
  <2>1. n = DropNext(m, i)
    BY <1>2, <1>3 DEF RemoveDuplicates
  <2>2. QED
    BY <1>3, <2>1, DropNextErases
<1>4. CASE i \in Repeats(m)
  <2> DEFINE c == Keep(m, Key \ {i})
             p == Prev(m, i)
  <2>1. n = DropNext(c, p)
    BY <1>2, <1>4 DEF RemoveDuplicates
  <2>2. IsStdMap(c, Val) /\ DOMAIN c = DOMAIN m \ {i} /\ SameContents(m, c)
    BY <1>4, EraseRepeat DEF SameContents
  <2>3. p \in DOMAIN m /\ p < i /\ \A j \in DOMAIN m : j < i => j <= p
    BY <1>1, <1>2, <1>4, PrevIsNeighbour
  <2>4. p \in DOMAIN c
    BY <1>1, <2>2, <2>3 DEF Key
  <2>5. Repeats(c) = Repeats(m) \ {i}
    <3>1. Repeats(c) = Repeats(m) \cap DOMAIN c
      BY <1>1, <2>2, RepeatsOfPart
    <3>2. QED
      BY <2>2, <3>1 DEF Repeats
  <2>6. After(c, p) = After(m, i)
    BY <1>1, <2>2, <2>3 DEF After, Key
  <2>7. Succ(c, p) = Succ(m, i)
    BY <2>6 DEF Succ
  <2>8. /\ IsStdMap(n, Val)
        /\ SameContents(c, n)
        /\ DOMAIN n = DOMAIN c \ {k \in Repeats(c) : k \in After(c, p)
                                                   /\ k = Succ(c, p)}
    BY <2>1, <2>2, <2>4, DropNextErases
  <2>9. SameContents(m, n)
    BY <2>2, <2>8 DEF SameContents
  <2>10. i \notin After(m, i)
    BY <1>1 DEF After
  <2>11. DOMAIN n = (DOMAIN m \ {i}) \ {k \in Repeats(m) \ {i} :
                               k \in After(m, i) /\ k = Succ(m, i)}
    BY <2>2, <2>5, <2>6, <2>7, <2>8
  <2>12. QED
    <3> HIDE DEF c, p
    <3> QED BY <1>4, <2>8, <2>9, <2>10, <2>11
<1>5. QED
  BY <1>3, <1>4

(* The two calls at the end of a mutator erase every repetition, when only
   the two bounds can repeat the value before them. *)
LEMMA CleanUp ==
    ASSUME NEW Val, NEW m, IsStdMap(m, Val),
           NEW from \in DOMAIN m, NEW to \in DOMAIN m, from < to
    PROVE  LET n == RemoveDuplicatesFrom(RemoveDuplicates(m, from), to)
           IN  /\ IsStdMap(n, Val)
               /\ SameContents(m, n)
               /\ Repeats(m) \subseteq {from, to} => Repeats(n) = {}
<1> DEFINE c == RemoveDuplicates(m, from)
           n == RemoveDuplicatesFrom(c, to)
<1>1. /\ IsStdMap(c, Val)
      /\ SameContents(m, c)
      /\ DOMAIN c = DOMAIN m \ {k \in Repeats(m) :
                           k = from \/ (k \in After(m, from) /\ k = Succ(m, from))}
  BY RemoveDuplicatesErases
<1>2. DOMAIN m \subseteq Key /\ DOMAIN c \subseteq Key /\ to \in Int
  BY <1>1 DEF IsStdMap, Key
<1>3. Repeats(c) = Repeats(m) \cap DOMAIN c
  BY <1>1, <1>2, RepeatsOfPart
<1>4. Repeats(m) \subseteq {from, to} => Repeats(c) \subseteq {to}
  BY <1>1, <1>3
<1> HIDE DEF c
<1>5. CASE to \in DOMAIN c
  <2>1. n = RemoveDuplicates(c, to)
    BY <1>5 DEF RemoveDuplicatesFrom
  <2>2. /\ IsStdMap(n, Val)
        /\ SameContents(c, n)
        /\ DOMAIN n = DOMAIN c \ {k \in Repeats(c) :
                           k = to \/ (k \in After(c, to) /\ k = Succ(c, to))}
    BY <1>1, <1>5, <2>1, RemoveDuplicatesErases
  <2>3. Repeats(n) = Repeats(c) \cap DOMAIN n
    BY <1>2, <2>2, RepeatsOfPart
  <2>4. Repeats(c) \subseteq {to} => Repeats(n) = {}
    BY <2>2, <2>3
  <2>5. QED
    BY <1>1, <1>4, <2>2, <2>4 DEF SameContents, c
<1>6. CASE to \notin DOMAIN c /\ After(c, to) # {}
  <2> DEFINE q == Succ(c, to)
  <2>1. n = RemoveDuplicates(c, q) /\ q \in DOMAIN c
    BY <1>2, <1>6, SuccIsNeighbour DEF RemoveDuplicatesFrom
  <2>2. /\ IsStdMap(n, Val)
        /\ SameContents(c, n)
        /\ DOMAIN n = DOMAIN c \ {k \in Repeats(c) :
                           k = q \/ (k \in After(c, q) /\ k = Succ(c, q))}
    <3> HIDE DEF q
    <3> QED BY <1>1, <2>1, RemoveDuplicatesErases
  <2>3. Repeats(n) = Repeats(c) \cap DOMAIN n
    BY <1>2, <2>2, RepeatsOfPart
  <2>4. Repeats(c) \subseteq {to} => Repeats(n) = {}
    <3> HIDE DEF q
    <3> QED BY <1>6, <2>2, <2>3
  <2>5. QED
    BY <1>1, <1>4, <2>2, <2>4 DEF SameContents, c
<1>7. CASE to \notin DOMAIN c /\ After(c, to) = {}
  <2>1. n = c
    BY <1>7 DEF RemoveDuplicatesFrom
  <2>2. Repeats(c) \subseteq {to} => Repeats(c) = {}
    BY <1>7 DEF Repeats
  <2>3. QED
    BY <1>1, <1>4, <2>1, <2>2 DEF c
<1>8. QED
  BY <1>5, <1>6, <1>7

-----------------------------------------------------------------------------
(* A new entry continues the interval it falls in. *)
LEMMA MakeEntrySplits ==
    ASSUME NEW Val, NEW m, IsStdMap(m, Val), NEW k \in Key
    PROVE  LET n == MakeEntry(m, k)
           IN  /\ IsStdMap(n, Val)
               /\ DOMAIN n = DOMAIN m \cup {k}
               /\ SameContents(m, n)
<1> DEFINE n == MakeEntry(m, k)
<1>1. CASE k \in DOMAIN m
  <2>1. n = m /\ DOMAIN m \cup {k} = DOMAIN m
    BY <1>1 DEF MakeEntry
  <2>2. QED
    BY <2>1 DEF SameContents
<1>2. CASE k \notin DOMAIN m
  <2>1. DOMAIN m \subseteq Key /\ 0 \in DOMAIN m /\ k \in Nat /\ k # 0
    BY <1>2 DEF IsStdMap, Key
  <2>2. Before(m, k) # {}
    BY <2>1 DEF Before
  <2>3. n = [j \in DOMAIN m \cup {k} |-> IF j # k THEN m[j] ELSE m[Prev(m, k)]]
    BY <1>2, <2>2 DEF MakeEntry
  <2>4. Prev(m, k) \in DOMAIN m /\ m[Prev(m, k)] = At(m, k)
    BY <1>2, <2>1, <2>2, PrevIsNeighbour DEF At, Entry
  <2>5. /\ DOMAIN n = DOMAIN m \cup {k}
        /\ n[k] = At(m, k)
        /\ \A j \in DOMAIN m : n[j] = m[j]
    BY <1>2, <2>3, <2>4
  <2>6. IsStdMap(n, Val)
    BY <2>1, <2>3, <2>4 DEF IsStdMap
  <2> HIDE DEF n
  <2>7. ASSUME NEW q \in Key
        PROVE  At(n, q) = At(m, q)
    <3> DEFINE e == Entry(m, q)
    <3>1. /\ q \in Nat /\ e \in DOMAIN m /\ e <= q
          /\ \A i \in DOMAIN m : i <= q => i <= e
      BY <2>1, EntryHolds DEF Key
    <3>2. /\ Entry(m, k) \in DOMAIN m /\ Entry(m, k) <= k
          /\ \A i \in DOMAIN m : i <= k => i <= Entry(m, k)
      BY <2>1, EntryHolds DEF Key
    <3>3. CASE e < k /\ k <= q
      <4>1. Entry(m, k) = e
        BY <2>1, <3>1, <3>2, <3>3 DEF Key
      <4>2. \A i \in DOMAIN n : i <= q => i <= k
        BY <2>1, <2>5, <3>1, <3>3 DEF Key
      <4>3. Entry(n, q) = k
        BY <2>5, <2>6, <3>1, <3>3, <4>2, EntryIsUnique DEF IsStdMap
      <4>4. QED
        BY <2>5, <4>1, <4>3 DEF At
    <3>4. CASE ~ (e < k /\ k <= q)
      <4>1. \A i \in DOMAIN n : i <= q => i <= e
        BY <2>1, <2>5, <3>1, <3>4 DEF Key
      <4>2. Entry(n, q) = e
        <5> HIDE DEF e
        <5> QED BY <2>5, <2>6, <3>1, <4>1, EntryIsUnique DEF IsStdMap
      <4>3. QED
        BY <2>5, <3>1, <4>2 DEF At
    <3>5. QED
      BY <3>3, <3>4
  <2>8. QED
    BY <2>5, <2>6, <2>7 DEF SameContents, n
<1>3. QED
  BY <1>1, <1>2

(* Both entries are made before the interval between them changes. *)
LEMMA MarkBounds ==
    ASSUME NEW Val, NEW m, IsStdMap(m, Val), NEW from \in Key, NEW to \in Key
    PROVE  LET n == MakeEntry(MakeEntry(m, from), to)
           IN  /\ IsStdMap(n, Val)
               /\ DOMAIN n = DOMAIN m \cup {from, to}
               /\ SameContents(m, n)
<1> DEFINE c == MakeEntry(m, from)
           n == MakeEntry(c, to)
<1>1. IsStdMap(c, Val) /\ DOMAIN c = DOMAIN m \cup {from} /\ SameContents(m, c)
  BY MakeEntrySplits
<1> HIDE DEF c
<1>2. IsStdMap(n, Val) /\ DOMAIN n = DOMAIN c \cup {to} /\ SameContents(c, n)
  BY <1>1, MakeEntrySplits
<1>3. QED
  BY <1>1, <1>2 DEF SameContents, c

(* The map between the marking and the clean-up, for each mutator. *)
Overwritten(m, from, to, v) ==
    [Keep(m, {k \in Key : k <= from \/ k >= to}) EXCEPT ![from] = v]

Added(m, from, to, d) ==
    [k \in DOMAIN m |-> IF from <= k /\ k < to THEN m[k] + d ELSE m[k]]

LEMMA OverwrittenContents ==
    ASSUME NEW Val, NEW m, IsStdMap(m, Val), NEW v \in Val,
           NEW from \in DOMAIN m, NEW to \in DOMAIN m, from < to
    PROVE  LET n == Overwritten(m, from, to, v)
           IN  /\ IsStdMap(n, Val)
               /\ \A k : k \in DOMAIN n <=> k \in DOMAIN m /\ (k <= from \/ k >= to)
               /\ \A k \in Key : At(n, k) = IF from <= k /\ k < to
                                             THEN v ELSE At(m, k)
<1> DEFINE n == Overwritten(m, from, to, v)
<1>1. DOMAIN m \subseteq Key /\ 0 \in DOMAIN m /\ from \in Nat /\ to \in Nat
  BY DEF IsStdMap, Key
<1>2. /\ DOMAIN n = {k \in DOMAIN m : k <= from \/ k >= to}
      /\ n[from] = v
      /\ \A k \in DOMAIN n : k # from => n[k] = m[k]
  BY <1>1 DEF Overwritten, Keep
<1>3. n = [k \in DOMAIN n |-> n[k]]
  BY DEF Overwritten, Keep
<1> HIDE DEF n
<1>4. IsStdMap(n, Val)
  <2>1. 0 \in DOMAIN n /\ DOMAIN n \subseteq Key
    BY <1>1, <1>2
  <2>2. \A k \in DOMAIN n : n[k] \in Val
    BY <1>2 DEF IsStdMap
  <2>3. QED
    BY <1>3, <2>1, <2>2 DEF IsStdMap
<1>5. ASSUME NEW k \in Key
      PROVE  At(n, k) = IF from <= k /\ k < to THEN v ELSE At(m, k)
  <2> DEFINE e == Entry(m, k)
  <2>1. /\ k \in Nat /\ e \in DOMAIN m /\ e <= k
        /\ \A i \in DOMAIN m : i <= k => i <= e
    BY <1>1, EntryHolds DEF Key
  <2> HIDE DEF e
  <2>2. CASE from <= k /\ k < to
    <3>1. from \in DOMAIN n /\ \A i \in DOMAIN n : i <= k => i <= from
      BY <1>1, <1>2, <2>1, <2>2 DEF Key
    <3>2. Entry(n, k) = from
      BY <1>4, <2>1, <2>2, <3>1, EntryIsUnique DEF IsStdMap
    <3>3. QED
      BY <1>2, <2>2, <3>2 DEF At
  <2>3. CASE ~ (from <= k /\ k < to)
    <3>1. e # from /\ (e <= from \/ e >= to)
      BY <1>1, <2>1, <2>3 DEF Key
    <3>2. e \in DOMAIN n /\ \A i \in DOMAIN n : i <= k => i <= e
      BY <1>2, <2>1, <3>1
    <3>3. Entry(n, k) = e
      BY <1>4, <2>1, <3>2, EntryIsUnique DEF IsStdMap
    <3>4. At(n, k) = m[e]
      BY <1>2, <3>1, <3>2, <3>3 DEF At
    <3>5. QED
      BY <2>3, <3>4 DEF At, e
  <2>4. QED
    BY <2>2, <2>3
<1>6. QED
  BY <1>2, <1>4, <1>5 DEF n

LEMMA AddedContents ==
    ASSUME NEW Val, NEW m, IsStdMap(m, Val), NEW d,
           NEW from \in DOMAIN m, NEW to \in DOMAIN m, from < to,
           \A k \in Key : from <= k /\ k < to => At(m, k) + d \in Val
    PROVE  LET n == Added(m, from, to, d)
           IN  /\ IsStdMap(n, Val)
               /\ DOMAIN n = DOMAIN m
               /\ \A k \in Key : At(n, k) = IF from <= k /\ k < to
                                             THEN At(m, k) + d ELSE At(m, k)
<1> DEFINE n == Added(m, from, to, d)
<1>1. DOMAIN m \subseteq Key /\ 0 \in DOMAIN m /\ from \in Nat /\ to \in Nat
  BY DEF IsStdMap, Key
<1>2. DOMAIN n = DOMAIN m
  BY DEF Added
<1>3. \A k \in DOMAIN m : n[k] = IF from <= k /\ k < to THEN m[k] + d ELSE m[k]
  BY DEF Added
<1>4. n = [k \in DOMAIN n |-> n[k]]
  BY DEF Added
<1> HIDE DEF n
<1>5. \A k \in DOMAIN m : n[k] \in Val
  <2>1. \A k \in DOMAIN m : k \in Key /\ At(m, k) = m[k] /\ m[k] \in Val
    BY <1>1, AtEntry DEF IsStdMap
  <2>2. QED
    BY <1>3, <2>1
<1>6. IsStdMap(n, Val)
  BY <1>1, <1>2, <1>4, <1>5 DEF IsStdMap
<1>7. ASSUME NEW k \in Key
      PROVE  At(n, k) = IF from <= k /\ k < to THEN At(m, k) + d ELSE At(m, k)
  <2> DEFINE e == Entry(m, k)
  <2>1. /\ k \in Nat /\ e \in DOMAIN m /\ e <= k
        /\ \A i \in DOMAIN m : i <= k => i <= e
    BY <1>1, EntryHolds DEF Key
  <2> HIDE DEF e
  <2>2. Entry(n, k) = e
    BY <1>2, <1>6, <2>1, EntryIsUnique DEF IsStdMap
  <2>3. from <= e /\ e < to <=> from <= k /\ k < to
    BY <1>1, <2>1 DEF Key
  <2>4. At(n, k) = IF from <= e /\ e < to THEN m[e] + d ELSE m[e]
    BY <1>3, <2>1, <2>2 DEF At
  <2>5. At(m, k) = m[e]
    BY DEF At, e
  <2>6. QED
    BY <2>3, <2>4, <2>5
<1>8. QED
  BY <1>2, <1>6, <1>7 DEF n

(* Only the two bounds of the changed range can repeat the value before
   them, if no entry of the map did before the change. *)
LEMMA RepeatsAtBounds ==
    ASSUME NEW m, NEW n, NEW from \in Key, NEW to \in Key, from < to,
           DOMAIN m \subseteq Key,
           DOMAIN n \subseteq DOMAIN m \cup {from, to},
           \A k \in DOMAIN n \ {0} : k \notin {from, to} =>
               (At(n, k) = At(n, k - 1) => At(m, k) = At(m, k - 1)),
           Canonical(m)
    PROVE  Repeats(n) \subseteq {from, to}
BY CanonicalIffNoRepeats DEF Repeats

(* SetInterval(from, to, v), for every pair of bounds: the points of the
   range read v, no other point changes, the map stays well formed, and if
   no two neighbouring entries were equal none are afterwards. *)
THEOREM SetIntervalCorrect ==
    ASSUME NEW Val, NEW m, IsStdMap(m, Val), NEW v \in Val,
           NEW from \in Key, NEW to \in Key
    PROVE  LET n == SetInterval(m, from, to, v)
           IN  /\ IsStdMap(n, Val)
               /\ \A k \in Key : At(n, k) = IF from <= k /\ k < to
                                             THEN v ELSE At(m, k)
               /\ Canonical(m) => Canonical(n)
<1> DEFINE n == SetInterval(m, from, to, v)
<1>0. from \in Nat /\ to \in Nat /\ Key \subseteq Nat /\ DOMAIN m \subseteq Key
  BY DEF Key, IsStdMap
<1>1. CASE to <= from
  <2>1. n = m
    BY <1>1 DEF SetInterval
  <2>2. \A k \in Key : ~ (from <= k /\ k < to)
    BY <1>0, <1>1
  <2>3. QED
    BY <2>1, <2>2
<1>2. CASE from < to
  <2> DEFINE c == MakeEntry(MakeEntry(m, from), to)
             s == Overwritten(c, from, to, v)
  <2>1. n = RemoveDuplicatesFrom(RemoveDuplicates(s, from), to)
    BY <1>0, <1>2 DEF SetInterval, Overwritten
  <2>2. IsStdMap(c, Val) /\ DOMAIN c = DOMAIN m \cup {from, to} /\ SameContents(m, c)
    BY MarkBounds
  <2>a. from \in DOMAIN c /\ to \in DOMAIN c
    BY <2>2
  <2> HIDE DEF c
  <2>3. /\ IsStdMap(s, Val)
        /\ \A k : k \in DOMAIN s <=> k \in DOMAIN c /\ (k <= from \/ k >= to)
        /\ \A k \in Key : At(s, k) = IF from <= k /\ k < to THEN v ELSE At(c, k)
    BY <1>2, <2>2, <2>a, OverwrittenContents
  <2> HIDE DEF s
  <2>4. from \in DOMAIN s /\ to \in DOMAIN s
    BY <1>0, <2>2, <2>3
  <2>5. /\ IsStdMap(n, Val)
        /\ SameContents(s, n)
        /\ Repeats(s) \subseteq {from, to} => Repeats(n) = {}
    BY <1>2, <2>1, <2>3, <2>4, CleanUp
  <2> HIDE DEF n
  <2>6. \A k \in Key : At(n, k) = IF from <= k /\ k < to THEN v ELSE At(m, k)
    BY <2>2, <2>3, <2>5 DEF SameContents
  <2>7. ASSUME Canonical(m)
        PROVE  Canonical(n)
    <3>1. ASSUME NEW k \in DOMAIN s \ {0}, k \notin {from, to},
                 At(s, k) = At(s, k - 1)
          PROVE  At(m, k) = At(m, k - 1)
      <4>1. k \in Key /\ k - 1 \in Key /\ k \in Nat /\ (k < from \/ k > to)
        BY <1>0, <2>2, <2>3, <3>1, MaxKeyAssumption DEF Key
      <4>2. /\ ~ (from <= k /\ k < to)
            /\ ~ (from <= k - 1 /\ k - 1 < to)
        BY <1>0, <1>2, <4>1
      <4>3. At(s, k) = At(m, k) /\ At(s, k - 1) = At(m, k - 1)
        BY <2>2, <2>3, <4>1, <4>2 DEF SameContents
      <4>4. QED
        BY <3>1, <4>3
    <3>2. DOMAIN s \subseteq DOMAIN m \cup {from, to}
      BY <2>2, <2>3
    <3>3. Repeats(s) \subseteq {from, to}
      BY <1>0, <1>2, <2>7, <3>1, <3>2, RepeatsAtBounds
    <3>4. QED
      BY <2>5, <3>3, CanonicalIffNoRepeats
  <2>8. QED
    BY <2>5, <2>6, <2>7 DEF n
<1>3. QED
  BY <1>0, <1>1, <1>2

(* n is m with the points of [from .. to) shifted by d. *)
IsShifted(n, m, from, to, d) ==
    \A k \in Key : At(n, k) = IF from <= k /\ k < to
                              THEN At(m, k) + d ELSE At(m, k)

(* IncrementInterval(from, to, d), likewise: the points of the range are
   shifted by d. *)
THEOREM IncrementIntervalCorrect ==
    ASSUME NEW Val, Val \subseteq Int, NEW m, IsStdMap(m, Val), NEW d \in Int,
           NEW from \in Key, NEW to \in Key,
           \A k \in Key : from <= k /\ k < to => At(m, k) + d \in Val
    PROVE  LET n == IncrementInterval(m, from, to, d)
           IN  /\ IsStdMap(n, Val)
               /\ IsShifted(n, m, from, to, d)
               /\ Canonical(m) => Canonical(n)
<1> DEFINE n == IncrementInterval(m, from, to, d)
<1>0. from \in Nat /\ to \in Nat /\ Key \subseteq Nat /\ DOMAIN m \subseteq Key
  BY DEF Key, IsStdMap
<1>a. \A k \in Key : At(m, k) \in Int
  <2>1. ASSUME NEW k \in Key
        PROVE  At(m, k) \in Val
    <3>1. Entry(m, k) \in DOMAIN m
      BY EntryHolds DEF IsStdMap, Key
    <3>2. QED
      BY <3>1 DEF At, IsStdMap
  <2>2. QED
    BY <2>1
<1>1. CASE to <= from \/ d = 0
  <2>1. n = m
    BY <1>1 DEF IncrementInterval
  <2>2. \A k \in Key : ~ (from <= k /\ k < to) \/ At(m, k) + d = At(m, k)
    BY <1>0, <1>1, <1>a
  <2>3. QED
    BY <2>1, <2>2 DEF IsShifted
<1>2. CASE from < to /\ d # 0
  <2> DEFINE c == MakeEntry(MakeEntry(m, from), to)
             s == Added(c, from, to, d)
  <2>1. n = RemoveDuplicatesFrom(RemoveDuplicates(s, from), to)
    BY <1>0, <1>2 DEF IncrementInterval, Added
  <2>2. IsStdMap(c, Val) /\ DOMAIN c = DOMAIN m \cup {from, to} /\ SameContents(m, c)
    BY MarkBounds
  <2> HIDE DEF c
  <2>3. \A k \in Key : from <= k /\ k < to => At(c, k) + d \in Val
    BY <2>2 DEF SameContents
  <2>4. /\ IsStdMap(s, Val)
        /\ DOMAIN s = DOMAIN c
        /\ \A k \in Key : At(s, k) = IF from <= k /\ k < to
                                      THEN At(c, k) + d ELSE At(c, k)
    BY <1>2, <2>2, <2>3, AddedContents
  <2> HIDE DEF s
  <2>5. from \in DOMAIN s /\ to \in DOMAIN s
    BY <2>2, <2>4
  <2>6. /\ IsStdMap(n, Val)
        /\ SameContents(s, n)
        /\ Repeats(s) \subseteq {from, to} => Repeats(n) = {}
    BY <1>2, <2>1, <2>4, <2>5, CleanUp
  <2> HIDE DEF n
  <2>7. \A k \in Key : At(n, k) = IF from <= k /\ k < to
                                  THEN At(m, k) + d ELSE At(m, k)
    BY <2>2, <2>4, <2>6 DEF SameContents
  <2>8. ASSUME Canonical(m)
        PROVE  Canonical(n)
    <3>1. ASSUME NEW k \in DOMAIN s \ {0}, k \notin {from, to},
                 At(s, k) = At(s, k - 1)
          PROVE  At(m, k) = At(m, k - 1)
      <4>1. k \in Key /\ k - 1 \in Key /\ k \in Nat
        BY <1>0, <2>2, <2>4, <3>1, MaxKeyAssumption DEF Key
      <4>2. from <= k /\ k < to <=> from <= k - 1 /\ k - 1 < to
        BY <1>0, <1>2, <3>1, <4>1
      <4>3. /\ At(s, k) = IF from <= k /\ k < to
                          THEN At(m, k) + d ELSE At(m, k)
            /\ At(s, k - 1) = IF from <= k /\ k < to
                              THEN At(m, k - 1) + d ELSE At(m, k - 1)
        BY <2>2, <2>4, <4>1, <4>2 DEF SameContents
      <4>4. At(m, k) \in Int /\ At(m, k - 1) \in Int
        BY <1>a, <4>1
      <4>5. QED
        BY <3>1, <4>3, <4>4
    <3>2. DOMAIN s \subseteq DOMAIN m \cup {from, to}
      BY <2>2, <2>4
    <3>3. Repeats(s) \subseteq {from, to}
      BY <1>0, <1>2, <2>8, <3>1, <3>2, RepeatsAtBounds
    <3>4. QED
      BY <2>6, <3>3, CanonicalIffNoRepeats
  <2>9. QED
    BY <2>6, <2>7, <2>8 DEF n, IsShifted
<1>3. QED
  BY <1>0, <1>1, <1>2

-----------------------------------------------------------------------------
(* The packet of a window. *)

\* The first end word, where the loop that reads words stops.
LEMMA FirstEnd ==
    ASSUME NEW words \in Seq(Word), HasEnd(words)
    PROVE  /\ WordsRead(words) \in 1 .. Len(words)
           /\ IsPacketEnd(words[WordsRead(words)])
           /\ \A i \in 1 .. WordsRead(words) - 1 : ~IsPacketEnd(words[i])
<1> DEFINE E == {i \in 1 .. Len(words) : IsPacketEnd(words[i])}
<1>1. E \in SUBSET Nat /\ E # {}
  BY DEF HasEnd
<1>2. PICK n \in E : \A i \in E : n <= i
  <2> HIDE DEF E
  <2> QED BY <1>1, LeastExists
<1>3. Len(words) \in Nat
  OBVIOUS
<1>4. \A i \in 1 .. n - 1 : ~IsPacketEnd(words[i])
  <2> SUFFICES ASSUME NEW i \in 1 .. n - 1, IsPacketEnd(words[i])
               PROVE  FALSE
    OBVIOUS
  <2>1. n \in 1 .. Len(words)
    OBVIOUS
  <2>2. i \in 1 .. Len(words) /\ i < n
    BY <1>3, <2>1
  <2>3. i \in E
    BY <2>2
  <2>4. QED
    BY <1>2, <2>2, <2>3
<1>5. n \in 1 .. Len(words) /\ IsPacketEnd(words[n])
  OBVIOUS
<1> HIDE DEF E
<1>6. QED
  BY <1>4, <1>5 DEF WordsRead

\* No packet can have two first end words.
LEMMA FirstEndIsUnique ==
    ASSUME NEW words \in Seq(Word), HasEnd(words),
           NEW n \in 1 .. Len(words), IsPacketEnd(words[n]),
           \A i \in 1 .. n - 1 : ~IsPacketEnd(words[i])
    PROVE  WordsRead(words) = n
<1>1. /\ WordsRead(words) \in 1 .. Len(words)
      /\ IsPacketEnd(words[WordsRead(words)])
      /\ \A i \in 1 .. WordsRead(words) - 1 : ~IsPacketEnd(words[i])
  BY FirstEnd
<1>2. WordsRead(words) \in Int /\ n \in Int /\ WordsRead(words) >= 1 /\ n >= 1
  BY <1>1
<1>3. CASE WordsRead(words) < n
  <2>1. WordsRead(words) \in 1 .. n - 1
    BY <1>2, <1>3
  <2>2. QED
    BY <1>1, <2>1
<1>4. CASE n < WordsRead(words)
  <2>1. n \in 1 .. WordsRead(words) - 1
    BY <1>2, <1>4
  <2>2. QED
    BY <1>1, <2>1
<1>5. QED
  BY <1>2, <1>3, <1>4

\* A packet has at least one word and none beyond its window: what AddBytes
\* relies on when it advances its address and its span.
THEOREM PacketInWindow ==
    ASSUME NEW words \in Seq(Word), DecodePacket(words) # Fail
    PROVE  /\ DecodePacket(words).size \in 1 .. Len(words)
           /\ DecodePacket(words).size = WordsRead(words)
           /\ HasEnd(words)
<1>1. HasEnd(words)
  BY DEF DecodePacket
<1>2. DecodePacket(words).size = WordsRead(words)
  BY <1>1 DEF DecodePacket
<1>3. QED
  BY <1>1, <1>2, FirstEnd

\* Two windows that start with the same words as far as the first packet goes
\* give the same packet.
THEOREM WindowSuffices ==
    ASSUME NEW short \in Seq(Word), NEW long \in Seq(Word), HasEnd(short),
           Len(short) <= Len(long),
           \A i \in 1 .. Len(short) : long[i] = short[i]
    PROVE  DecodePacket(long) = DecodePacket(short)
<1> DEFINE n == WordsRead(short)
<1>1. /\ n \in 1 .. Len(short)
      /\ IsPacketEnd(short[n])
      /\ \A i \in 1 .. n - 1 : ~IsPacketEnd(short[i])
  BY FirstEnd
<1>2. Len(short) \in Nat /\ Len(long) \in Nat /\ n \in Nat
  BY <1>1
<1>3. \A i \in 1 .. n : long[i] = short[i]
  BY <1>1, <1>2
<1>4. n \in 1 .. Len(long) /\ IsPacketEnd(long[n])
  BY <1>1, <1>2, <1>3
<1>5. \A i \in 1 .. n - 1 : ~IsPacketEnd(long[i])
  <2> SUFFICES ASSUME NEW i \in 1 .. n - 1
               PROVE  ~IsPacketEnd(long[i])
    OBVIOUS
  <2>1. i \in 1 .. n
    BY <1>2
  <2>2. QED
    BY <1>1, <1>3, <2>1
<1>6. HasEnd(long)
  BY <1>4 DEF HasEnd
<1> HIDE DEF n
<1>7. WordsRead(long) = n
  BY <1>4, <1>5, <1>6, FirstEndIsUnique
<1>8. RawInsns(long, n) = RawInsns(short, n)
  <2>1. \A i \in 1 .. n - 1 : long[i] = short[i]
    BY <1>2, <1>3
  <2>2. [i \in 1 .. n - 1 |-> Insn(long[i].op, long[i].ahead)]
          = [i \in 1 .. n - 1 |-> Insn(short[i].op, short[i].ahead)]
    BY <2>1
  <2>3. long[n] = short[n]
    BY <1>1, <1>2, <1>3
  <2>4. EndloopInsn(long, n) = EndloopInsn(short, n)
    <3>1. n >= 1 => long[1] = short[1]
      BY <1>2, <1>3
    <3>2. n >= 2 => long[2] = short[2]
      BY <1>2, <1>3
    <3>3. (n >= 2 /\ IsLoopEnd(long[1])) <=> (n >= 2 /\ IsLoopEnd(short[1]))
      BY <1>2, <3>1
    <3>4. (n >= 3 /\ IsLoopEnd(long[2])) <=> (n >= 3 /\ IsLoopEnd(short[2]))
      BY <1>2, <3>2
    <3>5. QED
      BY <3>3, <3>4 DEF EndloopInsn
  <2>5. QED
    BY <2>2, <2>3, <2>4 DEF RawInsns
<1>9. (\A i \in 1 .. n : long[i].op # "bad") <=> (\A i \in 1 .. n : short[i].op # "bad")
  BY <1>3
<1>10. QED
  BY <1>6, <1>7, <1>8, <1>9 DEF DecodePacket, n

-----------------------------------------------------------------------------
(* The instructions of a packet.                                            *)

WordOps    == {"alu", "store", "ext", "bad", "new", "sub"}
EndloopOps == {"endloop0", "endloop1", "endloop01"}
Instruction ==
    [op : WordOps \cup EndloopOps, ahead : Nat, extended : BOOLEAN, producer : Nat]

LEMMA InsnFields ==
    ASSUME NEW op \in WordOps \cup EndloopOps, NEW ahead \in Nat
    PROVE  Insn(op, ahead) \in Instruction /\ Insn(op, ahead).op = op
BY DEF Insn, Instruction

\* The producer patched into an instruction changes nothing else of it.
LEMMA PatchKeepsTheRest ==
    ASSUME NEW insn \in Instruction, NEW p
    PROVE  /\ [insn EXCEPT !.producer = p].op = insn.op
           /\ [insn EXCEPT !.producer = p].extended = insn.extended
BY DEF Instruction

\* What is in two sequences one after the other, and where.
LEMMA JoinOf ==
    ASSUME NEW S, NEW s \in Seq(S), NEW t \in Seq(S)
    PROVE  /\ s \o t \in Seq(S)
           /\ Len(s) \in Nat /\ Len(t) \in Nat
           /\ Len(s \o t) = Len(s) + Len(t)
           /\ \A i \in 1 .. Len(s) : (s \o t)[i] = s[i]
           /\ \A i \in Len(s) + 1 .. Len(s) + Len(t) : (s \o t)[i] = t[i - Len(s)]
<1>1. Len(s) \in Nat /\ Len(t) \in Nat /\ s \o t \in Seq(S) /\ Len(s \o t) = Len(s) + Len(t)
  OBVIOUS
<1>2. ASSUME NEW i \in 1 .. Len(s)
      PROVE  (s \o t)[i] = s[i]
  BY <1>1
<1>3. ASSUME NEW i \in Len(s) + 1 .. Len(s) + Len(t)
      PROVE  (s \o t)[i] = t[i - Len(s)]
  BY <1>1
<1>4. QED
  BY <1>1, <1>2, <1>3

LEMMA LengthOfWords ==
    \A n \in Int : \A x, y : x = n - 1 /\ (y = 1 \/ y = 2) => x + y = n \/ x + y = n + 1
OBVIOUS

LEMMA LengthOfPacket ==
    \A n \in Int : \A x, y : (x = n \/ x = n + 1) /\ (y = 0 \/ y = 1) => x + y \in n .. n + 2
OBVIOUS

\* Two sequences without an endloop make one without.
LEMMA JoinWithoutLoop ==
    ASSUME NEW s \in Seq(Instruction), NEW t \in Seq(Instruction),
           \A i \in 1 .. Len(s) : ~IsEndloop(s[i]),
           \A i \in 1 .. Len(t) : ~IsEndloop(t[i])
    PROVE  \A i \in 1 .. Len(s \o t) : ~IsEndloop((s \o t)[i])
<1> SUFFICES ASSUME NEW i \in 1 .. Len(s \o t)
             PROVE  ~IsEndloop((s \o t)[i])
  OBVIOUS
<1>1. /\ Len(s) \in Nat /\ Len(t) \in Nat /\ Len(s \o t) = Len(s) + Len(t)
      /\ \A j \in 1 .. Len(s) : (s \o t)[j] = s[j]
      /\ \A j \in Len(s) + 1 .. Len(s) + Len(t) : (s \o t)[j] = t[j - Len(s)]
  BY JoinOf
<1>2. i \in Int /\ 1 <= i /\ i <= Len(s) + Len(t)
  BY <1>1
<1>3. CASE i <= Len(s)
  <2>1. i \in 1 .. Len(s)
    BY <1>1, <1>2, <1>3
  <2>2. QED
    BY <1>1, <2>1
<1>4. CASE i > Len(s)
  <2>1. i \in Len(s) + 1 .. Len(s) + Len(t) /\ i - Len(s) \in 1 .. Len(t)
    BY <1>1, <1>2, <1>4
  <2>2. QED
    BY <1>1, <2>1
<1>5. QED
  BY <1>1, <1>2, <1>3, <1>4

\* Behind a sequence without an endloop, the one instruction of c is the only place of one.
LEMMA LoopIsLast ==
    ASSUME NEW s \in Seq(Instruction), NEW c \in Seq(Instruction), Len(c) \in {0, 1},
           \A i \in 1 .. Len(s) : ~IsEndloop(s[i])
    PROVE  \A i \in 1 .. Len(s \o c) : IsEndloop((s \o c)[i]) =>
               i = Len(s \o c) /\ Len(c) = 1 /\ (s \o c)[i] = c[1]
<1> SUFFICES ASSUME NEW i \in 1 .. Len(s \o c), IsEndloop((s \o c)[i])
             PROVE  i = Len(s \o c) /\ Len(c) = 1 /\ (s \o c)[i] = c[1]
  OBVIOUS
<1>1. /\ Len(s) \in Nat /\ Len(s \o c) = Len(s) + Len(c)
      /\ \A j \in 1 .. Len(s) : (s \o c)[j] = s[j]
      /\ \A j \in Len(s) + 1 .. Len(s) + Len(c) : (s \o c)[j] = c[j - Len(s)]
  BY JoinOf
<1>2. i \in Int /\ 1 <= i /\ i <= Len(s) + Len(c)
  BY <1>1
<1>3. ~(i <= Len(s))
  <2>1. i <= Len(s) => i \in 1 .. Len(s)
    BY <1>1, <1>2
  <2>2. QED
    BY <1>1, <2>1
<1>4. Len(c) = 1 /\ i = Len(s) + 1 /\ i - Len(s) = 1 /\ i \in Len(s) + 1 .. Len(s) + Len(c)
  BY <1>1, <1>2, <1>3
<1>5. (s \o c)[i] = c[1]
  BY <1>1, <1>4
<1>6. QED
  BY <1>1, <1>4, <1>5

\* The instructions before the passes: those of the words, of which a duplex adds one, then
\* the pseudo-instruction, which no word decodes to.
LEMMA RawShape ==
    ASSUME NEW seq \in Seq(Word), NEW n \in 1 .. Len(seq)
    PROVE  LET raw  == RawInsns(seq, n)
               loop == EndloopInsn(seq, n)
           IN  /\ raw \in Seq(Instruction) /\ Len(raw) \in n .. n + 2
               /\ \A i \in 1 .. Len(raw) : IsEndloop(raw[i]) =>
                      i = Len(raw) /\ loop # << >> /\ raw[i] = loop[1]
<1> DEFINE a == [i \in 1 .. n - 1 |-> Insn(seq[i].op, seq[i].ahead)]
           b == DecodeInsns(seq[n])
           c == EndloopInsn(seq, n)
<1>1. ASSUME NEW i \in 1 .. n
      PROVE  /\ Insn(seq[i].op, seq[i].ahead) \in Instruction
             /\ Insn(seq[i].op, 0) \in Instruction
             /\ ~IsEndloop(Insn(seq[i].op, seq[i].ahead)) /\ ~IsEndloop(Insn(seq[i].op, 0))
  <2>1. seq[i] \in Word
    OBVIOUS
  <2>2. seq[i].op \in WordOps /\ seq[i].ahead \in Nat
    BY <2>1 DEF Word, WordOps
  <2>3. seq[i].op \notin EndloopOps
    BY <2>2 DEF WordOps, EndloopOps
  <2>4. /\ Insn(seq[i].op, seq[i].ahead) \in Instruction /\ Insn(seq[i].op, 0) \in Instruction
        /\ Insn(seq[i].op, seq[i].ahead).op = seq[i].op /\ Insn(seq[i].op, 0).op = seq[i].op
    BY <2>2, InsnFields
  <2>5. QED
    BY <2>3, <2>4 DEF IsEndloop, EndloopOps
<1>2. /\ a \in Seq(Instruction) /\ Len(a) = n - 1
      /\ \A i \in 1 .. n - 1 : ~IsEndloop(a[i])
  <2>1. n - 1 \in Nat /\ 1 .. n - 1 \subseteq 1 .. n
    OBVIOUS
  <2>2. a \in [1 .. n - 1 -> Instruction]
    BY <1>1, <2>1
  <2>3. QED
    BY <1>1, <2>1, <2>2
<1>3. /\ b \in Seq(Instruction) /\ Len(b) \in {1, 2}
      /\ \A i \in 1 .. Len(b) : ~IsEndloop(b[i])
  BY <1>1 DEF DecodeInsns
<1>4. c \in Seq(Instruction) /\ Len(c) \in {0, 1} /\ (Len(c) = 1 => c # << >>)
  <2>1. \A op \in EndloopOps : Insn(op, 0) \in Instruction
    BY InsnFields
  <2>2. QED
    BY <2>1 DEF EndloopInsn, EndloopOps
<1>5. RawInsns(seq, n) = a \o b \o c
  BY DEF RawInsns
<1> HIDE DEF a, b, c
<1>6. /\ a \o b \in Seq(Instruction) /\ Len(a \o b) \in {n, n + 1}
      /\ \A i \in 1 .. Len(a \o b) : ~IsEndloop((a \o b)[i])
  <2>1. \A i \in 1 .. Len(a) : ~IsEndloop(a[i])
    BY <1>2
  <2>2. /\ a \o b \in Seq(Instruction) /\ Len(a \o b) = Len(a) + Len(b)
    BY <1>2, <1>3, JoinOf
  <2>3. n \in Int /\ Len(a) = n - 1 /\ (Len(b) = 1 \/ Len(b) = 2)
    BY <1>2, <1>3
  <2>4. Len(a \o b) = n \/ Len(a \o b) = n + 1
    BY <2>2, <2>3, LengthOfWords
  <2>5. QED
    BY <1>2, <1>3, <2>1, <2>2, <2>4, JoinWithoutLoop
<1>7. a \o b \o c \in Seq(Instruction) /\ Len(a \o b \o c) \in n .. n + 2
  <2>1. a \o b \o c \in Seq(Instruction) /\ Len(a \o b \o c) = Len(a \o b) + Len(c)
    BY <1>4, <1>6, JoinOf
  <2>2. n \in Int /\ (Len(c) = 0 \/ Len(c) = 1) /\ (Len(a \o b) = n \/ Len(a \o b) = n + 1)
    BY <1>4, <1>6
  <2>3. Len(a \o b \o c) \in n .. n + 2
    BY <2>1, <2>2, LengthOfPacket
  <2>4. QED
    BY <2>1, <2>3
<1>8. \A i \in 1 .. Len(a \o b \o c) : IsEndloop((a \o b \o c)[i]) =>
          i = Len(a \o b \o c) /\ Len(c) = 1 /\ (a \o b \o c)[i] = c[1]
  BY <1>4, <1>6, LoopIsLast
<1>9. QED
  BY <1>4, <1>5, <1>7, <1>8 DEF c

\* The passes keep the instructions in their places, and extend the ones behind extenders.
LEMMA PacketShape ==
    ASSUME NEW seq \in Seq(Word), DecodePacket(seq) # Fail
    PROVE  LET raw   == RawInsns(seq, WordsRead(seq))
               insns == DecodePacket(seq).insns
           IN  /\ Len(insns) = Len(raw) /\ Len(raw) \in WordsRead(seq) .. WordsRead(seq) + 2
               /\ ExtendersApply(raw)
               /\ \A i \in 1 .. Len(raw) :
                    /\ insns[i].op = raw[i].op
                    /\ insns[i].extended = (i > 1 /\ IsExtender(raw[i - 1]))
<1> DEFINE raw == RawInsns(seq, WordsRead(seq))
           ext == ApplyExtenders(raw)
<1>1. /\ ExtendersApply(raw)
      /\ DecodePacket(seq).insns = FillNewValues(ext)
  BY DEF DecodePacket
<1>2. raw \in Seq(Instruction) /\ Len(raw) \in WordsRead(seq) .. WordsRead(seq) + 2
  <2>1. WordsRead(seq) \in 1 .. Len(seq)
    BY PacketInWindow
  <2>2. QED
    BY <2>1, RawShape
<1> HIDE DEF raw
<1>3. /\ Len(ext) = Len(raw)
      /\ \A i \in 1 .. Len(raw) : ext[i] = [raw[i] EXCEPT !.extended = i > 1 /\ IsExtender(raw[i - 1])]
  BY <1>2 DEF ApplyExtenders
<1> HIDE DEF ext
<1>4. /\ Len(FillNewValues(ext)) = Len(ext)
      /\ \A i \in 1 .. Len(ext) : FillNewValues(ext)[i] =
             [ext[i] EXCEPT !.producer = IF i \in Patched(ext) THEN ProducerOf(ext, i) ELSE 0]
  BY <1>2, <1>3 DEF FillNewValues
<1>5. \A i \in 1 .. Len(raw) : raw[i] \in Instruction
  BY <1>2
<1>6. \A i \in 1 .. Len(raw) : /\ ext[i].op = raw[i].op
                               /\ ext[i].extended = (i > 1 /\ IsExtender(raw[i - 1]))
                               /\ ext[i] \in Instruction
  BY <1>3, <1>5 DEF Instruction
<1>7. \A i \in 1 .. Len(raw) : /\ FillNewValues(ext)[i].op = ext[i].op
                               /\ FillNewValues(ext)[i].extended = ext[i].extended
  <2> SUFFICES ASSUME NEW i \in 1 .. Len(raw)
               PROVE  /\ FillNewValues(ext)[i].op = ext[i].op
                      /\ FillNewValues(ext)[i].extended = ext[i].extended
    OBVIOUS
  <2>1. FillNewValues(ext)[i] = [ext[i] EXCEPT
            !.producer = IF i \in Patched(ext) THEN ProducerOf(ext, i) ELSE 0]
    BY <1>3, <1>4
  <2>2. ext[i] \in Instruction
    BY <1>6
  <2>3. QED
    BY <2>1, <2>2, PatchKeepsTheRest
<1>8. QED
  BY <1>1, <1>2, <1>3, <1>4, <1>6, <1>7 DEF raw

\* A packet that decodes has an instruction, and with its pseudo-instruction and a duplex two
\* more than it has words.
LEMMA PacketLength ==
    ASSUME NEW seq \in Seq(Word), DecodePacket(seq) # Fail
    PROVE  /\ DecodePacket(seq).size \in 1 .. Len(seq)
           /\ Len(DecodePacket(seq).insns) \in DecodePacket(seq).size .. DecodePacket(seq).size + 2
BY PacketInWindow, PacketShape

\* The marks of the words decide which loops a pseudo-instruction ends.
LEMMA PacketLoop ==
    ASSUME NEW seq \in Seq(Word), DecodePacket(seq) # Fail,
           NEW i \in 1 .. Len(DecodePacket(seq).insns), IsEndloop(DecodePacket(seq).insns[i])
    PROVE  LET pk == DecodePacket(seq)
           IN  /\ i = Len(pk.insns)
               /\ pk.insns[i].op \in {"endloop0", "endloop01"} => seq[1].parse = ParseLoopEnd
               /\ pk.insns[i].op \in {"endloop1", "endloop01"} =>
                      pk.size >= 3 /\ seq[2].parse = ParseLoopEnd
<1> DEFINE n    == WordsRead(seq)
           raw  == RawInsns(seq, n)
           loop == EndloopInsn(seq, n)
<1>1. n \in 1 .. Len(seq) /\ DecodePacket(seq).size = n
  BY PacketInWindow
<1>2. i \in 1 .. Len(raw) /\ Len(DecodePacket(seq).insns) = Len(raw)
      /\ DecodePacket(seq).insns[i].op = raw[i].op
  BY PacketShape
<1>3. IsEndloop(raw[i])
  BY <1>2 DEF IsEndloop
<1>4. i = Len(raw) /\ loop # << >> /\ raw[i] = loop[1]
  <2> HIDE DEF n
  <2>1. \A j \in 1 .. Len(raw) : IsEndloop(raw[j]) =>
            j = Len(raw) /\ loop # << >> /\ raw[j] = loop[1]
    BY <1>1, RawShape
  <2>2. QED
    BY <1>2, <1>3, <2>1
<1> HIDE DEF n, raw
<1>5. /\ loop[1].op \in {"endloop0", "endloop01"} => IsLoopEnd(seq[1])
      /\ loop[1].op \in {"endloop1", "endloop01"} => n >= 3 /\ IsLoopEnd(seq[2])
  BY <1>4 DEF EndloopInsn, Insn
<1>6. QED
  BY <1>1, <1>2, <1>4, <1>5 DEF IsLoopEnd

\* Every extender has its place right before the instruction it extends.
LEMMA PacketExtenders ==
    ASSUME NEW seq \in Seq(Word), DecodePacket(seq) # Fail
    PROVE  LET insns == DecodePacket(seq).insns
           IN  /\ Cardinality({i \in 1 .. Len(insns) : IsExtender(insns[i])})
                    = Cardinality({i \in 1 .. Len(insns) : insns[i].extended})
               /\ \A i \in 1 .. Len(insns) : insns[i].extended =>
                      i > 1 /\ IsExtender(insns[i - 1]) /\ IsExtendable(insns[i])
<1> DEFINE raw   == RawInsns(seq, WordsRead(seq))
           insns == DecodePacket(seq).insns
<1>1. /\ Len(insns) = Len(raw)
      /\ ExtendersApply(raw)
      /\ \A i \in 1 .. Len(raw) : /\ insns[i].op = raw[i].op
                                  /\ insns[i].extended = (i > 1 /\ IsExtender(raw[i - 1]))
  BY PacketShape
<1>2. Len(insns) \in Nat
  BY PacketLength, PacketInWindow
<1> HIDE DEF raw, insns
<1>3. \A i \in 1 .. Len(insns) : IsExtender(insns[i]) =>
          i + 1 \in 1 .. Len(insns) /\ IsExtendable(insns[i + 1]) /\ insns[i + 1].extended
  <2> SUFFICES ASSUME NEW i \in 1 .. Len(insns), IsExtender(insns[i])
               PROVE  i + 1 \in 1 .. Len(insns) /\ IsExtendable(insns[i + 1]) /\ insns[i + 1].extended
    OBVIOUS
  <2>1. IsExtender(raw[i])
    BY <1>1 DEF IsExtender
  <2>2. i < Len(raw) /\ IsExtendable(raw[i + 1])
    BY <1>1, <2>1 DEF ExtendersApply
  <2>3. i + 1 \in 1 .. Len(insns) /\ i + 1 > 1 /\ (i + 1) - 1 = i
    BY <1>1, <1>2, <2>2
  <2>4. insns[i + 1].extended
    BY <1>1, <2>1, <2>3
  <2>5. QED
    BY <1>1, <2>2, <2>3, <2>4 DEF IsExtendable
<1>4. \A i \in 1 .. Len(insns) : insns[i].extended =>
          i > 1 /\ i - 1 \in 1 .. Len(insns) /\ IsExtender(insns[i - 1])
  <2> SUFFICES ASSUME NEW i \in 1 .. Len(insns), insns[i].extended
               PROVE  i > 1 /\ i - 1 \in 1 .. Len(insns) /\ IsExtender(insns[i - 1])
    OBVIOUS
  <2>1. i > 1 /\ IsExtender(raw[i - 1])
    BY <1>1
  <2>2. i - 1 \in 1 .. Len(insns)
    BY <1>2, <2>1
  <2>3. QED
    BY <1>1, <2>1, <2>2 DEF IsExtender
<1> DEFINE X == {i \in 1 .. Len(insns) : IsExtender(insns[i])}
           Y == {i \in 1 .. Len(insns) : insns[i].extended}
           f == [i \in X |-> i + 1]
<1>5. f \in Bijection(X, Y)
  <2>1. f \in [X -> Y]
    BY <1>3
  <2>2. \A i, j \in X : f[i] = f[j] => i = j
    BY <1>2
  <2>3. \A j \in Y : \E i \in X : f[i] = j
    <3> SUFFICES ASSUME NEW j \in Y
                 PROVE  \E i \in X : f[i] = j
      OBVIOUS
    <3>1. j - 1 \in X /\ (j - 1) + 1 = j
      BY <1>2, <1>4
    <3>2. f[j - 1] = j
      BY <3>1
    <3>3. QED
      BY <3>1, <3>2
  <2> HIDE DEF X, Y, f
  <2>4. QED
    BY <2>1, <2>2, <2>3, Fun_IsBij
<1>6. IsFiniteSet(X)
  <2>1. IsFiniteSet(1 .. Len(insns))
    BY <1>2, FS_Interval
  <2>2. X \in SUBSET (1 .. Len(insns))
    OBVIOUS
  <2> HIDE DEF X
  <2>3. QED
    BY <2>1, <2>2, FS_Subset
<1>7. Cardinality(X) = Cardinality(Y)
  <2> HIDE DEF X, Y, f
  <2>1. ExistsBijection(X, Y)
    BY <1>5 DEF ExistsBijection
  <2>2. QED
    BY <1>6, <2>1, FS_Bijection
<1>8. \A i \in 1 .. Len(insns) : insns[i].extended => IsExtendable(insns[i])
  <2> SUFFICES ASSUME NEW i \in 1 .. Len(insns), insns[i].extended
               PROVE  IsExtendable(insns[i])
    OBVIOUS
  <2>1. i \in Int /\ i - 1 \in 1 .. Len(insns) /\ IsExtender(insns[i - 1]) /\ (i - 1) + 1 = i
    BY <1>2, <1>4
  <2>2. QED
    BY <1>3, <2>1
<1>9. QED
  BY <1>4, <1>7, <1>8 DEF insns

\* Before the passes: one instruction for each word but the last, for which a duplex has two,
\* then the pseudo-instruction if there is one.
LEMMA RawLayout ==
    ASSUME NEW seq \in Seq(Word), NEW n \in 1 .. Len(seq), IsPacketEnd(seq[n]),
           \A i \in 1 .. n - 1 : ~IsPacketEnd(seq[i]),
           \A i \in 1 .. n : seq[i].op # "bad"
    PROVE  LET raw == RawInsns(seq, n)
           IN  /\ \A i \in 1 .. n - 1 : ~IsSubInsn(raw[i]) /\ ~IsEndloop(raw[i])
               /\ ~IsEndloop(raw[n])
               /\ Len(raw) \in Nat
               /\ IF IsSubInsn(raw[n])
                  THEN /\ Len(raw) \in {n + 1, n + 2} /\ IsSubInsn(raw[n + 1])
                       /\ Len(raw) = n + 2 => IsEndloop(raw[n + 2])
                  ELSE /\ Len(raw) \in {n, n + 1}
                       /\ Len(raw) = n + 1 => IsEndloop(raw[n + 1])
<1> DEFINE a == [i \in 1 .. n - 1 |-> Insn(seq[i].op, seq[i].ahead)]
           b == DecodeInsns(seq[n])
           c == EndloopInsn(seq, n)
           raw == RawInsns(seq, n)
<1>0. n \in Nat /\ n >= 1 /\ n - 1 \in Nat
  OBVIOUS
<1>1. ASSUME NEW i \in 1 .. n
      PROVE  /\ seq[i] \in Word /\ seq[i].op \in WordOps /\ seq[i].ahead \in Nat
             /\ seq[i].op = "sub" <=> IsPacketEnd(seq[i]) /\ seq[i].parse = ParseDuplex
  <2>1. seq[i] \in Word
    OBVIOUS
  <2>2. seq[i].op # "bad"
    OBVIOUS
  <2>3. QED
    BY <2>1, <2>2 DEF Word, WordOps, IsPacketEnd, ParseDuplex, ParseMore, ParseLoopEnd, ParseEnd
<1>2. /\ a \in Seq(Instruction) /\ Len(a) = n - 1
      /\ \A i \in 1 .. n - 1 : ~IsSubInsn(a[i]) /\ ~IsEndloop(a[i])
  <2>1. \A i \in 1 .. n - 1 : i \in 1 .. n
    BY <1>0
  <2>2. ASSUME NEW i \in 1 .. n - 1
        PROVE  /\ Insn(seq[i].op, seq[i].ahead) \in Instruction
               /\ ~IsSubInsn(Insn(seq[i].op, seq[i].ahead)) /\ ~IsEndloop(Insn(seq[i].op, seq[i].ahead))
    <3>1. seq[i].op \in WordOps /\ seq[i].ahead \in Nat /\ seq[i].op # "sub"
      BY <1>1, <2>1, <2>2
    <3>2. Insn(seq[i].op, seq[i].ahead) \in Instruction
          /\ Insn(seq[i].op, seq[i].ahead).op = seq[i].op
      BY <3>1, InsnFields
    <3>3. QED
      BY <3>1, <3>2 DEF IsSubInsn, IsEndloop, WordOps
  <2>3. a \in [1 .. n - 1 -> Instruction]
    BY <2>2
  <2>4. QED
    BY <1>0, <2>2, <2>3
<1>3. n \in 1 .. n
  BY <1>0
<1>4. /\ b \in Seq(Instruction) /\ (Len(b) = 1 \/ Len(b) = 2)
      /\ Len(b) = 1 => ~IsSubInsn(b[1])
      /\ Len(b) = 2 => IsSubInsn(b[1]) /\ IsSubInsn(b[2])
      /\ ~IsEndloop(b[1])
  <2>1. seq[n].op \in WordOps /\ seq[n].ahead \in Nat
        /\ (seq[n].op = "sub" <=> seq[n].parse = ParseDuplex)
    BY <1>1, <1>3
  <2>2. /\ Insn(seq[n].op, seq[n].ahead) \in Instruction /\ Insn(seq[n].op, 0) \in Instruction
        /\ Insn(seq[n].op, seq[n].ahead).op = seq[n].op /\ Insn(seq[n].op, 0).op = seq[n].op
    BY <2>1, InsnFields
  <2>3. CASE seq[n].parse = ParseDuplex
    BY <2>1, <2>2, <2>3 DEF DecodeInsns, IsSubInsn, IsEndloop
  <2>4. CASE seq[n].parse # ParseDuplex
    BY <2>1, <2>2, <2>4 DEF DecodeInsns, IsSubInsn, IsEndloop, WordOps
  <2>5. QED
    BY <2>3, <2>4
<1>5. c \in Seq(Instruction) /\ (Len(c) = 0 \/ Len(c) = 1) /\ (Len(c) = 1 => IsEndloop(c[1]))
  <2>1. \A op \in EndloopOps : Insn(op, 0) \in Instruction /\ Insn(op, 0).op = op
    BY InsnFields
  <2>2. QED
    BY <2>1 DEF EndloopInsn, EndloopOps, IsEndloop
<1>6. raw = (a \o b) \o c
  BY DEF RawInsns
<1> HIDE DEF a, b, c, raw
<1> DEFINE ab == a \o b
<1>7. /\ ab \in Seq(Instruction) /\ Len(ab) = Len(a) + Len(b)
      /\ \A i \in 1 .. Len(a) : ab[i] = a[i]
      /\ \A i \in Len(a) + 1 .. Len(a) + Len(b) : ab[i] = b[i - Len(a)]
  <2>1. a \in Seq(Instruction) /\ b \in Seq(Instruction)
    BY <1>2, <1>4
  <2>2. QED
    BY <2>1, JoinOf
<1> HIDE DEF ab
<1>8. /\ Len(raw) = Len(ab) + Len(c) /\ Len(raw) \in Nat
      /\ \A i \in 1 .. Len(ab) : raw[i] = ab[i]
      /\ \A i \in Len(ab) + 1 .. Len(ab) + Len(c) : raw[i] = c[i - Len(ab)]
  <2>1. /\ Len(ab \o c) = Len(ab) + Len(c) /\ ab \o c \in Seq(Instruction)
        /\ \A i \in 1 .. Len(ab) : (ab \o c)[i] = ab[i]
        /\ \A i \in Len(ab) + 1 .. Len(ab) + Len(c) : (ab \o c)[i] = c[i - Len(ab)]
    <3>1. ab \in Seq(Instruction) /\ c \in Seq(Instruction)
      BY <1>5, <1>7
    <3>2. QED
      BY <3>1, JoinOf
  <2>2. raw = ab \o c
    BY <1>6 DEF ab
  <2>3. QED
    BY <2>1, <2>2
<1> DEFINE la == Len(a)  lb == Len(b)  lc == Len(c)  l == Len(ab)  lr == Len(raw)
<1> HIDE DEF la, lb, lc, l, lr
<1>9. /\ la = n - 1 /\ l = la + lb /\ lr = l + lc /\ (lb = 1 \/ lb = 2) /\ (lc = 0 \/ lc = 1)
      /\ \A i \in 1 .. la : ab[i] = a[i]
      /\ \A i \in la + 1 .. la + lb : ab[i] = b[i - la]
      /\ \A i \in 1 .. l : raw[i] = ab[i]
      /\ \A i \in l + 1 .. l + lc : raw[i] = c[i - l]
      /\ lr \in Nat
  BY <1>2, <1>4, <1>5, <1>7, <1>8 DEF la, lb, lc, l, lr
<1>lens. la = n - 1 /\ l = la + lb /\ lr = l + lc /\ (lb = 1 \/ lb = 2) /\ (lc = 0 \/ lc = 1)
  BY <1>9
<1>10. /\ lb = 1 => ~IsSubInsn(b[1])
       /\ lb = 2 => IsSubInsn(b[1]) /\ IsSubInsn(b[2])
       /\ ~IsEndloop(b[1])
  BY <1>4 DEF lb
<1>11. lc = 1 => IsEndloop(c[1])
  BY <1>5 DEF lc
<1>12. \A i \in 1 .. n - 1 : raw[i] = a[i]
  <2> SUFFICES ASSUME NEW i \in 1 .. n - 1
               PROVE  raw[i] = a[i]
    OBVIOUS
  <2>1. i \in 1 .. la /\ i \in 1 .. l
    BY <1>0, <1>lens
  <2>2. QED
    BY <1>9, <2>1
<1>13. raw[n] = b[1]
  <2>1. n \in 1 .. l /\ n \in la + 1 .. la + lb /\ n - la = 1
    BY <1>0, <1>lens
  <2>2. QED
    BY <1>9, <2>1
<1>14. ASSUME lb = 2
       PROVE  raw[n + 1] = b[2]
  <2>1. n + 1 \in 1 .. l /\ n + 1 \in la + 1 .. la + lb /\ (n + 1) - la = 2
    BY <1>0, <1>lens, <1>14
  <2>2. raw[n + 1] = ab[n + 1] /\ ab[n + 1] = b[(n + 1) - la]
    BY <1>9, <2>1
  <2>3. QED
    BY <2>1, <2>2
<1>15. lc = 1 => lr = n - 1 + lb + 1 /\ raw[n - 1 + lb + 1] = c[1]
  <2>1. lc = 1 => l + 1 \in l + 1 .. l + lc /\ l + 1 - l = 1 /\ l + 1 = n - 1 + lb + 1 /\ lr = l + 1
    BY <1>0, <1>lens
  <2>2. QED
    BY <1>9, <2>1
<1>16. CASE lb = 1
  <2>1. ~IsSubInsn(raw[n]) /\ ~IsEndloop(raw[n])
    BY <1>10, <1>13, <1>16
  <2>2. lr = n \/ lr = n + 1
    BY <1>0, <1>lens, <1>16
  <2>3. lr = n + 1 => lc = 1 /\ n - 1 + lb + 1 = n + 1
    BY <1>0, <1>lens, <1>16
  <2>4. lr = n + 1 => IsEndloop(raw[n + 1])
    BY <1>11, <1>15, <2>3
  <2>5. QED
    BY <1>2, <1>9, <1>12, <2>1, <2>2, <2>4 DEF raw, lr
<1>17. CASE lb = 2
  <2>1. IsSubInsn(raw[n]) /\ IsSubInsn(raw[n + 1]) /\ ~IsEndloop(raw[n])
    BY <1>10, <1>13, <1>14, <1>17
  <2>2. lr = n + 1 \/ lr = n + 2
    BY <1>0, <1>lens, <1>17
  <2>3. lr = n + 2 => lc = 1 /\ n - 1 + lb + 1 = n + 2
    BY <1>0, <1>lens, <1>17
  <2>4. lr = n + 2 => IsEndloop(raw[n + 2])
    BY <1>11, <1>15, <2>3
  <2>5. QED
    BY <1>2, <1>9, <1>12, <2>1, <2>2, <2>4 DEF raw, lr
<1>18. QED
  BY <1>9, <1>16, <1>17

\* A packet has one instruction for each word, a second one only for a duplex in the last word,
\* then at most an endloop: the passes of decode_packet leave the opcodes alone.
THEOREM PacketLayout ==
    ASSUME NEW seq \in Seq(Word), DecodePacket(seq) # Fail
    PROVE  LET insns == DecodePacket(seq).insns
               n     == DecodePacket(seq).size
           IN  /\ n \in Nat /\ n >= 1 /\ Len(insns) \in Nat
               /\ \A i \in 1 .. n - 1 : ~IsSubInsn(insns[i]) /\ ~IsEndloop(insns[i])
               /\ ~IsEndloop(insns[n])
               /\ IF IsSubInsn(insns[n])
                  THEN /\ Len(insns) \in {n + 1, n + 2} /\ IsSubInsn(insns[n + 1])
                       /\ Len(insns) = n + 2 => IsEndloop(insns[n + 2])
                  ELSE /\ Len(insns) \in {n, n + 1}
                       /\ Len(insns) = n + 1 => IsEndloop(insns[n + 1])
<1> DEFINE n     == WordsRead(seq)
           raw   == RawInsns(seq, n)
           insns == DecodePacket(seq).insns
<1>1. HasEnd(seq) /\ DecodePacket(seq).size = n
  BY PacketInWindow
<1>2. /\ n \in 1 .. Len(seq) /\ IsPacketEnd(seq[n])
      /\ \A i \in 1 .. n - 1 : ~IsPacketEnd(seq[i])
  BY <1>1, FirstEnd
<1>3. \A i \in 1 .. n : seq[i].op # "bad"
  BY DEF DecodePacket
<1>4. n \in Nat /\ n >= 1
  BY <1>2
<1>5. /\ Len(insns) = Len(raw)
      /\ \A i \in 1 .. Len(raw) : insns[i].op = raw[i].op
  BY PacketShape
<1> HIDE DEF n, insns
<1>6. /\ \A i \in 1 .. n - 1 : ~IsSubInsn(raw[i]) /\ ~IsEndloop(raw[i])
      /\ ~IsEndloop(raw[n]) /\ Len(raw) \in Nat
      /\ IF IsSubInsn(raw[n])
         THEN /\ Len(raw) \in {n + 1, n + 2} /\ IsSubInsn(raw[n + 1])
              /\ Len(raw) = n + 2 => IsEndloop(raw[n + 2])
         ELSE /\ Len(raw) \in {n, n + 1}
              /\ Len(raw) = n + 1 => IsEndloop(raw[n + 1])
  BY <1>2, <1>3, RawLayout
<1> HIDE DEF raw
<1>7. \A i \in 1 .. Len(raw) : /\ IsSubInsn(insns[i]) <=> IsSubInsn(raw[i])
                               /\ IsEndloop(insns[i]) <=> IsEndloop(raw[i])
  BY <1>5 DEF IsSubInsn, IsEndloop
<1>8. n \in 1 .. Len(raw) /\ \A i \in 1 .. n - 1 : i \in 1 .. Len(raw)
  BY <1>4, <1>6
<1>9. /\ \A i \in 1 .. n - 1 : ~IsSubInsn(insns[i]) /\ ~IsEndloop(insns[i])
      /\ ~IsEndloop(insns[n]) /\ (IsSubInsn(insns[n]) <=> IsSubInsn(raw[n]))
  BY <1>6, <1>7, <1>8
<1>10. CASE IsSubInsn(raw[n])
  <2>1. /\ Len(raw) \in {n + 1, n + 2} /\ IsSubInsn(raw[n + 1])
        /\ Len(raw) = n + 2 => IsEndloop(raw[n + 2])
    BY <1>6, <1>10
  <2>2. n + 1 \in 1 .. Len(raw) /\ (Len(raw) = n + 2 => n + 2 \in 1 .. Len(raw))
    BY <1>4, <2>1
  <2>3. IsSubInsn(insns[n + 1]) /\ (Len(raw) = n + 2 => IsEndloop(insns[n + 2]))
    BY <1>7, <2>1, <2>2
  <2>4. QED
    BY <1>1, <1>4, <1>5, <1>6, <1>9, <1>10, <2>1, <2>3 DEF insns
<1>11. CASE ~IsSubInsn(raw[n])
  <2>1. Len(raw) \in {n, n + 1} /\ (Len(raw) = n + 1 => IsEndloop(raw[n + 1]))
    BY <1>6, <1>11
  <2>2. Len(raw) = n + 1 => n + 1 \in 1 .. Len(raw)
    BY <1>4
  <2>3. Len(raw) = n + 1 => IsEndloop(insns[n + 1])
    BY <1>7, <2>1, <2>2
  <2>4. QED
    BY <1>1, <1>4, <1>5, <1>6, <1>9, <1>11, <2>1, <2>3 DEF insns
<1>12. QED
  BY <1>10, <1>11

-----------------------------------------------------------------------------
(* The producer of a new-value consumer. *)

\* The walk is defined turn by turn.
LEMMA ProducerWalk ==
    ASSUME NEW insns, NEW i \in Nat
    PROVE  \E walk : /\ walk[0] = [def |-> i, ahead |-> insns[i].ahead]
                     /\ \A n \in 1 .. i : walk[n] = ProducerStep(insns, walk[n - 1])
                     /\ ProducerOf(insns, i) = walk[i].def
<1> DEFINE c == [def |-> i, ahead |-> insns[i].ahead]
           Unfolds(g, m) ==
               g = [n \in 0 .. m |-> IF n = 0 THEN c ELSE ProducerStep(insns, g[n - 1])]
           Defined == {m \in 0 .. i : \E g : Unfolds(g, m)}
           walk[n \in 0 .. i] == IF n = 0 THEN c ELSE ProducerStep(insns, walk[n - 1])
<1>1. ProducerOf(insns, i) = walk[i].def
  BY DEF ProducerOf
<1>2. walk = CHOOSE g : Unfolds(g, i)
  OBVIOUS
<1> HIDE DEF c, walk
<1>3. 0 \in Defined
  <2>1. Unfolds([n \in 0 .. 0 |-> c], 0)
    OBVIOUS
  <2>2. 0 \in 0 .. i
    OBVIOUS
  <2> HIDE DEF Unfolds
  <2>3. QED
    BY <2>1, <2>2
<1>4. ASSUME NEW m \in 1 .. i, m - 1 \in Defined
      PROVE  m \in Defined
  <2>1. PICK g : Unfolds(g, m - 1)
    BY <1>4
  <2> DEFINE h == [n \in 0 .. m |-> IF n = m THEN ProducerStep(insns, g[m - 1]) ELSE g[n]]
  <2>2. ASSUME NEW n \in 0 .. m
        PROVE  h[n] = IF n = 0 THEN c ELSE ProducerStep(insns, h[n - 1])
    <3>1. CASE n = m
      BY <3>1
    <3>2. CASE n # m
      BY <2>1, <3>2
    <3>3. QED
      BY <3>1, <3>2
  <2>3. Unfolds(h, m)
    BY <2>2
  <2>4. m \in 0 .. i
    OBVIOUS
  <2> HIDE DEF Unfolds
  <2>5. QED
    BY <2>3, <2>4
<1>5. \E g : Unfolds(g, i)
  <2>1. i \in 0 .. i
    OBVIOUS
  <2>2. 0 .. i \subseteq Defined
    <3> HIDE DEF Defined
    <3> QED BY <1>3, <1>4, InductionUpTo
  <2>3. QED
    BY <2>1, <2>2
<1>6. Unfolds(walk, i)
  BY <1>2, <1>5
<1>7. walk[0] = c /\ \A n \in 1 .. i : walk[n] = ProducerStep(insns, walk[n - 1])
  <2>1. 0 \in 0 .. i /\ 1 .. i \subseteq 0 .. i /\ \A n \in 1 .. i : n # 0
    OBVIOUS
  <2>2. \A n \in 0 .. i : walk[n] = IF n = 0 THEN c ELSE ProducerStep(insns, walk[n - 1])
    BY <1>6
  <2>3. QED
    BY <2>1, <2>2
<1>8. QED
  BY <1>1, <1>7 DEF c

\* The instructions from the k-th on that a distance to the i-th counts.
Counted(insns, k, i) == {j \in k .. i - 1 : ~IsExtender(insns[j])}

LEMMA CountedStep ==
    ASSUME NEW insns, NEW i \in Nat, NEW k \in 1 .. i - 1
    PROVE  /\ IsFiniteSet(Counted(insns, k + 1, i))
           /\ Cardinality(Counted(insns, k + 1, i)) \in Nat
           /\ Cardinality(Counted(insns, k, i)) =
                  IF IsExtender(insns[k]) THEN Cardinality(Counted(insns, k + 1, i))
                  ELSE Cardinality(Counted(insns, k + 1, i)) + 1
<1> DEFINE S == Counted(insns, k + 1, i)
<1>1. IsFiniteSet(S) /\ Cardinality(S) \in Nat
  <2>1. IsFiniteSet((k + 1) .. (i - 1))
    BY FS_Interval
  <2>2. S \in SUBSET ((k + 1) .. (i - 1))
    BY DEF Counted
  <2> HIDE DEF S
  <2>3. IsFiniteSet(S)
    BY <2>1, <2>2, FS_Subset
  <2>4. QED
    BY <2>3, FS_CardinalityType
<1>2. k \notin S
  BY DEF Counted
<1>3. CASE IsExtender(insns[k])
  <2>1. Counted(insns, k, i) = S
    BY <1>3 DEF Counted
  <2>2. QED
    BY <1>1, <1>3, <2>1
<1>4. CASE ~IsExtender(insns[k])
  <2>1. Counted(insns, k, i) = S \cup {k}
    BY <1>4 DEF Counted
  <2> HIDE DEF S
  <2>2. Cardinality(S \cup {k}) = Cardinality(S) + 1
    BY <1>1, <1>2, FS_AddElement
  <2>3. QED
    BY <1>1, <1>4, <2>1, <2>2 DEF S
<1>5. QED
  BY <1>3, <1>4, <1>1

\* Where the walk to the i-th instruction's producer is after n turns.
Walked(insns, i, p, n) ==
    /\ p \in [def : Nat, ahead : Nat] /\ p.def <= i
    /\ p.ahead = 0 \/ p.def = 0 \/ p.def + n <= i
    /\ p.def # 0 => Cardinality(Counted(insns, p.def, i)) + p.ahead = insns[i].ahead

LEMMA ProducerStepWalks ==
    ASSUME NEW insns, NEW i \in Nat, insns[i].ahead \in Nat,
           \A j \in 1 .. i - 1 : ~IsSubInsn(insns[j]),
           NEW p, NEW n \in Nat, Walked(insns, i, p, n)
    PROVE  Walked(insns, i, ProducerStep(insns, p), n + 1)
<1> DEFINE q == ProducerStep(insns, p)
           j == p.def - 1
<1>1. /\ p \in [def : Nat, ahead : Nat] /\ p.def \in Nat /\ p.ahead \in Nat /\ p.def <= i
      /\ p.ahead = 0 \/ p.def = 0 \/ p.def + n <= i
      /\ p.def # 0 => Cardinality(Counted(insns, p.def, i)) + p.ahead = insns[i].ahead
  BY DEF Walked
<1>2. CASE p.ahead = 0 \/ p.def = 0
  <2>1. q = p
    BY <1>2 DEF ProducerStep
  <2>2. QED
    BY <1>1, <1>2, <2>1 DEF Walked
<1>3. CASE p.ahead # 0 /\ p.def # 0 /\ j = 0
  <2>1. q = [p EXCEPT !.def = 0]
    BY <1>3 DEF ProducerStep
  <2>2. q \in [def : Nat, ahead : Nat] /\ q.def = 0
    BY <1>1, <2>1
  <2>3. QED
    BY <2>2 DEF Walked
<1>4. CASE p.ahead # 0 /\ p.def # 0 /\ j # 0
  <2>1. /\ j \in 1 .. i - 1 /\ j + 1 = p.def /\ j \in Nat /\ p.ahead - 1 \in Nat
        /\ j <= i /\ j + (n + 1) <= i
    BY <1>1, <1>4
  <2>2. ~IsSubInsn(insns[j])
    BY <2>1
  <2> DEFINE a == Cardinality(Counted(insns, p.def, i))
             b == Cardinality(Counted(insns, j, i))
  <2>3. a \in Nat /\ b = IF IsExtender(insns[j]) THEN a ELSE a + 1
    <3>1. /\ Cardinality(Counted(insns, j + 1, i)) \in Nat
          /\ Cardinality(Counted(insns, j, i)) =
                 IF IsExtender(insns[j]) THEN Cardinality(Counted(insns, j + 1, i))
                 ELSE Cardinality(Counted(insns, j + 1, i)) + 1
      <4> HIDE DEF j
      <4>1. QED
        BY <2>1, CountedStep
    <3>2. QED
      BY <2>1, <3>1
  <2>4. a + p.ahead = insns[i].ahead
    BY <1>1, <1>4
  <2>5. CASE IsExtender(insns[j])
    <3>1. q = [p EXCEPT !.def = j]
      BY <1>4, <2>5 DEF ProducerStep
    <3>2. q \in [def : Nat, ahead : Nat] /\ q.def = j /\ q.ahead = p.ahead
      BY <1>1, <2>1, <3>1
    <3>3. Cardinality(Counted(insns, q.def, i)) + q.ahead = insns[i].ahead
      BY <2>3, <2>4, <2>5, <3>2
    <3>4. QED
      BY <2>1, <3>2, <3>3 DEF Walked
  <2>6. CASE ~IsExtender(insns[j])
    <3>1. q = [def |-> j, ahead |-> p.ahead - 1]
      BY <1>4, <2>2, <2>6 DEF ProducerStep
    <3>2. q \in [def : Nat, ahead : Nat] /\ q.def = j /\ q.ahead = p.ahead - 1
      BY <2>1, <3>1
    <3>3. b + (p.ahead - 1) = insns[i].ahead
      <4> HIDE DEF a, b
      <4>1. QED
        BY <1>1, <2>3, <2>4, <2>6
    <3>4. Cardinality(Counted(insns, q.def, i)) + q.ahead = insns[i].ahead
      BY <3>2, <3>3
    <3>5. QED
      BY <2>1, <3>2, <3>4 DEF Walked
  <2>7. QED
    BY <2>5, <2>6
<1>5. QED
  BY <1>2, <1>3, <1>4

\* A walk that stays in the packet ends at the instruction that the distance
\* counts to.
LEMMA ProducerIsCounted ==
    ASSUME NEW insns, NEW i \in Nat, insns[i].ahead \in Nat,
           \A j \in 1 .. i - 1 : ~IsSubInsn(insns[j]), ProducerOf(insns, i) # 0
    PROVE  /\ ProducerOf(insns, i) \in 1 .. i
           /\ Cardinality(Counted(insns, ProducerOf(insns, i), i)) = insns[i].ahead
<1>1. PICK walk : /\ walk[0] = [def |-> i, ahead |-> insns[i].ahead]
                  /\ \A n \in 1 .. i : walk[n] = ProducerStep(insns, walk[n - 1])
                  /\ ProducerOf(insns, i) = walk[i].def
  BY ProducerWalk
<1> DEFINE T == {n \in 0 .. i : Walked(insns, i, walk[n], n)}
<1>2. 0 \in T
  <2>1. walk[0] \in [def : Nat, ahead : Nat] /\ walk[0].def = i /\ walk[0].ahead = insns[i].ahead
    BY <1>1
  <2>2. Counted(insns, i, i) = {}
    BY DEF Counted
  <2>3. Cardinality(Counted(insns, i, i)) = 0
    BY <2>2, FS_EmptySet
  <2>4. Walked(insns, i, walk[0], 0)
    BY <2>1, <2>3 DEF Walked
  <2>5. QED
    BY <2>4
<1>3. ASSUME NEW n \in 1 .. i, n - 1 \in T
      PROVE  n \in T
  <2>1. Walked(insns, i, walk[n - 1], n - 1) /\ n - 1 \in Nat /\ (n - 1) + 1 = n /\ n \in 0 .. i
    BY <1>3
  <2>2. walk[n] = ProducerStep(insns, walk[n - 1])
    BY <1>1
  <2>3. Walked(insns, i, walk[n], (n - 1) + 1)
    BY <2>1, <2>2, ProducerStepWalks
  <2>4. QED
    BY <2>1, <2>3
<1>4. i \in T
  <2>1. 0 .. i \subseteq T
    <3> HIDE DEF T
    <3>1. QED
      BY <1>2, <1>3, InductionUpTo
  <2>2. i \in 0 .. i
    OBVIOUS
  <2>3. QED
    BY <2>1, <2>2
<1> DEFINE p == walk[i]
<1>5. Walked(insns, i, p, i) /\ p.def # 0
  BY <1>1, <1>4
<1>6. /\ p.def \in Nat /\ p.ahead \in Nat /\ p.def <= i
      /\ p.ahead = 0 \/ p.def + i <= i
      /\ Cardinality(Counted(insns, p.def, i)) + p.ahead = insns[i].ahead
  BY <1>5 DEF Walked
<1>7. p.ahead = 0 /\ p.def \in 1 .. i
  BY <1>5, <1>6
<1>8. Cardinality(Counted(insns, p.def, i)) = insns[i].ahead
  <2>1. IsFiniteSet(Counted(insns, p.def, i))
    <3>1. IsFiniteSet((p.def) .. (i - 1))
      <4>1. p.def \in Int /\ i - 1 \in Int
        BY <1>6
      <4> HIDE DEF p
      <4>2. QED
        BY <4>1, FS_Interval
    <3>2. Counted(insns, p.def, i) \in SUBSET ((p.def) .. (i - 1))
      BY DEF Counted
    <3>3. QED
      BY <3>1, <3>2, FS_Subset
  <2>2. Cardinality(Counted(insns, p.def, i)) \in Nat
    BY <2>1, FS_CardinalityType
  <2>3. QED
    BY <1>6, <1>7, <2>2
<1>9. QED
  BY <1>1, <1>7, <1>8

LEMMA PatchSetsProducer ==
    ASSUME NEW insn \in Instruction, NEW p
    PROVE  /\ [insn EXCEPT !.producer = p].ahead = insn.ahead
           /\ [insn EXCEPT !.producer = p].producer = p
BY DEF Instruction

\* What decode_fill_newvalue_regno puts into a consumer is the place of the
\* instruction that its encoded distance counts to, extenders left out.
THEOREM PacketProducers ==
    ASSUME NEW seq \in Seq(Word), DecodePacket(seq) # Fail,
           NEW i \in 2 .. Len(DecodePacket(seq).insns), IsConsumer(DecodePacket(seq).insns[i])
    PROVE  LET insns == DecodePacket(seq).insns
               k     == insns[i].producer
           IN  /\ k \in Counted(insns, k, i)
               /\ Cardinality(Counted(insns, k, i)) = insns[i].ahead
<1> DEFINE raw   == RawInsns(seq, WordsRead(seq))
           ext   == ApplyExtenders(raw)
           insns == DecodePacket(seq).insns
           k     == insns[i].producer
<1>1. insns = FillNewValues(ext) /\ NewValuesResolve(ext)
  BY DEF DecodePacket
<1>2. /\ raw \in Seq(Instruction) /\ Len(raw) \in Nat /\ Len(insns) = Len(raw)
      /\ Len(insns) \in Nat
  <2>1. WordsRead(seq) \in 1 .. Len(seq)
    BY PacketInWindow
  <2>2. QED
    BY <2>1, RawShape, PacketShape
<1>3. /\ Len(ext) = Len(raw)
      /\ \A j \in 1 .. Len(raw) : ext[j] = [raw[j] EXCEPT !.extended = j > 1 /\ IsExtender(raw[j - 1])]
  <2> HIDE DEF raw
  <2>1. QED
    BY <1>2 DEF ApplyExtenders
<1>4. \A j \in 1 .. Len(raw) : ext[j] \in Instruction
  <2> SUFFICES ASSUME NEW j \in 1 .. Len(raw)
               PROVE  ext[j] \in Instruction
    OBVIOUS
  <2>1. raw[j] \in Instruction
    BY <1>2
  <2>2. ext[j] = [raw[j] EXCEPT !.extended = j > 1 /\ IsExtender(raw[j - 1])]
    BY <1>3
  <2> HIDE DEF raw, ext
  <2>3. (j > 1 /\ IsExtender(raw[j - 1])) \in BOOLEAN
    OBVIOUS
  <2>4. QED
    BY <2>1, <2>2, <2>3 DEF Instruction
<1> HIDE DEF ext, raw, insns
<1>5. \A j \in 1 .. Len(insns) : insns[j] = [ext[j] EXCEPT
          !.producer = IF j \in Patched(ext) THEN ProducerOf(ext, j) ELSE 0]
  BY <1>1, <1>2, <1>3 DEF FillNewValues
<1>6. ASSUME NEW j \in 1 .. Len(insns)
      PROVE  /\ insns[j].op = ext[j].op /\ insns[j].ahead = ext[j].ahead
             /\ insns[j].producer = IF j \in Patched(ext) THEN ProducerOf(ext, j) ELSE 0
  <2> DEFINE x == IF j \in Patched(ext) THEN ProducerOf(ext, j) ELSE 0
  <2>1. ext[j] \in Instruction
    BY <1>2, <1>4
  <2>2. insns[j] = [ext[j] EXCEPT !.producer = x]
    BY <1>5
  <2> HIDE DEF x
  <2>3. insns[j].op = ext[j].op /\ insns[j].ahead = ext[j].ahead /\ insns[j].producer = x
    BY <2>1, <2>2, PatchKeepsTheRest, PatchSetsProducer
  <2>4. QED
    BY <2>3 DEF x
<1>7. i \in 2 .. Len(insns) /\ i \in 1 .. Len(insns) /\ i \in Nat /\ IsConsumer(insns[i])
  BY <1>2 DEF insns
<1>8. i \in Patched(ext)
  BY <1>2, <1>3, <1>6, <1>7 DEF Patched, IsConsumer
<1>9. /\ ext[i].ahead > 0 /\ ProducerOf(ext, i) # 0 /\ WritesReg(ext[ProducerOf(ext, i)])
  BY <1>1, <1>8 DEF NewValuesResolve
<1>10. ext[i].ahead \in Nat
  BY <1>2, <1>4, <1>7 DEF Instruction
<1>11. \A j \in 1 .. i - 1 : ~IsSubInsn(insns[j])
  <2> DEFINE n == DecodePacket(seq).size
  <2>1. /\ n \in Nat /\ n >= 1
        /\ \A j \in 1 .. n - 1 : ~IsSubInsn(insns[j])
        /\ IF IsSubInsn(insns[n])
           THEN /\ Len(insns) \in {n + 1, n + 2} /\ IsSubInsn(insns[n + 1])
                /\ Len(insns) = n + 2 => IsEndloop(insns[n + 2])
           ELSE /\ Len(insns) \in {n, n + 1}
                /\ Len(insns) = n + 1 => IsEndloop(insns[n + 1])
    BY PacketLayout DEF insns
  <2>2. ~IsSubInsn(insns[i]) /\ ~IsEndloop(insns[i])
    BY <1>7 DEF IsConsumer, IsSubInsn, IsEndloop
  <2> HIDE DEF n
  <2>3. i <= n
    <3>1. CASE IsSubInsn(insns[n])
      BY <1>7, <2>1, <2>2, <3>1
    <3>2. CASE ~IsSubInsn(insns[n])
      BY <1>7, <2>1, <2>2, <3>2
    <3>3. QED
      BY <3>1, <3>2
  <2>4. 1 .. i - 1 \subseteq 1 .. n - 1
    BY <1>7, <2>1, <2>3
  <2>5. QED
    BY <2>1, <2>4
<1>12. \A j \in 1 .. i - 1 : j \in 1 .. Len(insns)
  BY <1>2, <1>7
<1>13. \A j \in 1 .. i - 1 : ~IsSubInsn(ext[j])
  BY <1>6, <1>11, <1>12 DEF IsSubInsn
<1>14. /\ ProducerOf(ext, i) \in 1 .. i
       /\ Cardinality(Counted(ext, ProducerOf(ext, i), i)) = ext[i].ahead
  BY <1>7, <1>9, <1>10, <1>13, ProducerIsCounted
<1>15. k = ProducerOf(ext, i) /\ insns[i].ahead = ext[i].ahead
  BY <1>6, <1>7, <1>8
<1>16. k \in Nat /\ k \in 1 .. i /\ k .. i - 1 \subseteq 1 .. i - 1
  BY <1>7, <1>14, <1>15
<1>17. Counted(insns, k, i) = Counted(ext, k, i)
  BY <1>6, <1>12, <1>16 DEF Counted, IsExtender
<1>18. k # i
  <2>1. ASSUME k = i
        PROVE  FALSE
    <3>1. Counted(ext, i, i) = {}
      BY <1>7 DEF Counted
    <3>2. Cardinality(Counted(ext, i, i)) = 0
      BY <3>1, FS_EmptySet
    <3>3. QED
      BY <1>9, <1>10, <1>14, <1>15, <2>1, <3>2
  <2>2. QED
    BY <2>1
<1>19. ~IsExtender(insns[k])
  <2>1. k \in 1 .. Len(insns)
    BY <1>2, <1>7, <1>16
  <2>2. QED
    BY <1>6, <1>9, <1>15, <2>1 DEF WritesReg, IsExtender
<1>20. k \in Counted(insns, k, i)
  BY <1>7, <1>16, <1>18, <1>19 DEF Counted
<1>21. QED
  BY <1>14, <1>15, <1>17, <1>20 DEF k, insns
=============================================================================
