--------------------------- MODULE Prepare_proofs ---------------------------
(***************************************************************************)
(* What the passes of Prepare do to a packet, for packets of any length,   *)
(* of instructions with operands (Packets) or without (Preparation).       *)
(***************************************************************************)
EXTENDS Packets, SequenceTheorems, FiniteSetTheorems, TLAPS

-----------------------------------------------------------------------------
(* Least and greatest elements, and induction. *)

LEMMA LeastExists ==
    ASSUME NEW S \in SUBSET Nat, S # {}
    PROVE  \E j \in S : \A i \in S : j <= i
<1> DEFINE T == {0 .. (k - 1) : k \in S}
<1>1. T # {}
  OBVIOUS
<1>2. ASSUME NEW k \in S
      PROVE  0 .. (k - 1) \in FiniteSubsetsOf(Nat)
  <2>1. IsFiniteSet(0 .. (k - 1))
    BY FS_Interval
  <2>2. QED
    BY <2>1 DEF FiniteSubsetsOf
<1>3. T \subseteq FiniteSubsetsOf(Nat)
  BY <1>2
<1>4. PICK x \in T : \A y \in T : ~ (<<y, x>> \in StrictSubsetOrdering(Nat))
  <2> HIDE DEF T
  <2> QED BY <1>1, <1>3, FS_StrictSubsetOrderingWellFounded, WFMin
<1>5. PICK j \in S : x = 0 .. (j - 1)
  OBVIOUS
<1>6. ASSUME NEW i \in S, i < j
      PROVE  FALSE
  <2>1. <<0 .. (i - 1), 0 .. (j - 1)>> \in StrictSubsetOrdering(Nat)
    BY <1>6 DEF StrictSubsetOrdering
  <2>2. QED
    BY <1>4, <1>5, <2>1
<1>7. QED
  BY <1>6

LEMMA GreatestExists ==
    ASSUME NEW S \in SUBSET Nat, S # {}, NEW top \in Nat, \A i \in S : i <= top
    PROVE  \E j \in S : \A i \in S : i <= j
<1> DEFINE T == {top - i : i \in S}
<1>1. T # {}
  OBVIOUS
<1>2. T \in SUBSET Nat
  OBVIOUS
<1>3. PICK t \in T : \A u \in T : t <= u
  <2> HIDE DEF T
  <2> QED BY <1>1, <1>2, LeastExists
<1>4. PICK j \in S : t = top - j
  OBVIOUS
<1>5. ASSUME NEW i \in S
      PROVE  i <= j
  <2>1. top - j <= top - i
    BY <1>3, <1>4
  <2>2. i \in Nat /\ j \in Nat
    OBVIOUS
  <2>3. QED
    BY <2>1, <2>2
<1>6. QED
  BY <1>5

\* Induction up to a bound, for a property that is given as a set.
LEMMA InductionUpTo ==
    ASSUME NEW n \in Nat, NEW T, 0 \in T,
           \A i \in 1 .. n : i - 1 \in T => i \in T
    PROVE  0 .. n \subseteq T
<1> DEFINE Bad == {i \in 0 .. n : i \notin T}
<1>1. SUFFICES ASSUME Bad # {}
               PROVE  FALSE
  OBVIOUS
<1>2. Bad \in SUBSET Nat
  OBVIOUS
<1>3. PICK j \in Bad : \A i \in Bad : j <= i
  <2> HIDE DEF Bad
  <2> QED BY <1>1, <1>2, LeastExists
<1>4. j # 0 /\ j \in 1 .. n
  OBVIOUS
<1>5. j - 1 \in T
  <2>1. j - 1 \in 0 .. n /\ ~ (j <= j - 1)
    BY <1>4
  <2>2. QED
    BY <1>3, <2>1
<1>6. QED
  BY <1>4, <1>5

-----------------------------------------------------------------------------
(* Moving one instruction. *)

\* Where the k-th instruction was before the one at a was sent to b.
From(a, b, k) ==
    IF k = b THEN a
    ELSE IF a <= k /\ k < b THEN k + 1
    ELSE IF b < k /\ k <= a THEN k - 1
    ELSE k

LEMMA RemoveAtIs ==
    ASSUME NEW S, NEW s \in Seq(S), NEW a \in 1 .. Len(s)
    PROVE  /\ RemoveAt(s, a) \in Seq(S)
           /\ Len(RemoveAt(s, a)) = Len(s) - 1
           /\ \A k \in 1 .. Len(s) - 1 :
                 RemoveAt(s, a)[k] = IF k < a THEN s[k] ELSE s[k + 1]
<1> DEFINE u == SubSeq(s, 1, a - 1)
           v == SubSeq(s, a + 1, Len(s))
<1>0. Len(s) \in Nat
  BY LenProperties
<1>1. u \in Seq(S) /\ Len(u) = a - 1 /\ \A k \in 1 .. a - 1 : u[k] = s[k]
  BY <1>0, SubSeqProperties
<1>2. v \in Seq(S) /\ Len(v) = Len(s) - a /\ \A k \in 1 .. Len(s) - a : v[k] = s[a + k]
  <2>1. v \in Seq(S) /\ Len(v) = IF a + 1 <= Len(s) THEN Len(s) - (a + 1) + 1 ELSE 0
    BY <1>0, SubSeqProperties
  <2>2. \A k \in 1 .. Len(s) - a : v[k] = s[(a + 1) + k - 1]
    BY <1>0, SubSeqProperties
  <2>3. \A k \in 1 .. Len(s) - a : (a + 1) + k - 1 = a + k
    BY <1>0
  <2>4. QED
    BY <1>0, <2>1, <2>2, <2>3
<1>3. RemoveAt(s, a) = u \o v
  BY DEF RemoveAt
<1> HIDE DEF u, v
<1>4. /\ u \o v \in Seq(S) /\ Len(u \o v) = Len(u) + Len(v)
      /\ \A k \in 1 .. Len(u) + Len(v) : (u \o v)[k] = IF k <= Len(u) THEN u[k] ELSE v[k - Len(u)]
  BY <1>1, <1>2, ConcatProperties
<1>5. Len(u) + Len(v) = Len(s) - 1
  BY <1>0, <1>1, <1>2
<1>6. ASSUME NEW k \in 1 .. Len(s) - 1
      PROVE  (u \o v)[k] = IF k < a THEN s[k] ELSE s[k + 1]
  <2>1. CASE k < a
    BY <1>0, <1>1, <1>4, <1>5, <2>1
  <2>2. CASE ~ (k < a)
    <3>1. k - (a - 1) \in 1 .. Len(s) - a /\ a + (k - (a - 1)) = k + 1
      BY <1>0, <2>2
    <3>2. (u \o v)[k] = v[k - (a - 1)]
      BY <1>0, <1>1, <1>4, <1>5, <2>2
    <3>3. QED
      BY <1>2, <2>2, <3>1, <3>2
  <2>3. QED
    BY <2>1, <2>2
<1>7. QED
  BY <1>3, <1>4, <1>5, <1>6

LEMMA InsertAtIs ==
    ASSUME NEW S, NEW s \in Seq(S), NEW e \in S, NEW b \in 1 .. Len(s) + 1
    PROVE  /\ InsertAt(s, b, e) \in Seq(S)
           /\ Len(InsertAt(s, b, e)) = Len(s) + 1
           /\ \A k \in 1 .. Len(s) + 1 :
                 InsertAt(s, b, e)[k] = IF k < b THEN s[k] ELSE IF k = b THEN e ELSE s[k - 1]
<1> DEFINE u == SubSeq(s, 1, b - 1)
           v == SubSeq(s, b, Len(s))
           w == u \o <<e>>
<1>0. Len(s) \in Nat
  BY LenProperties
<1>1. u \in Seq(S) /\ Len(u) = b - 1 /\ \A k \in 1 .. b - 1 : u[k] = s[k]
  BY <1>0, SubSeqProperties
<1>2. v \in Seq(S) /\ Len(v) = Len(s) - b + 1 /\ \A k \in 1 .. Len(s) - b + 1 : v[k] = s[b + k - 1]
  BY <1>0, SubSeqProperties
<1>3. <<e>> \in Seq(S) /\ Len(<<e>>) = 1 /\ <<e>>[1] = e
  OBVIOUS
<1>4. InsertAt(s, b, e) = w \o v
  BY DEF InsertAt
<1> DEFINE x == <<e>>
<1>5. x \in Seq(S) /\ Len(x) = 1 /\ x[1] = e /\ w = u \o x
  BY <1>3
<1> HIDE DEF u, v, w, x
<1>6. /\ w \in Seq(S) /\ Len(w) = Len(u) + Len(x)
      /\ \A k \in 1 .. Len(u) + Len(x) : w[k] = IF k <= Len(u) THEN u[k] ELSE x[k - Len(u)]
  BY <1>1, <1>5, ConcatProperties
<1>7. Len(w) = b /\ \A k \in 1 .. b : w[k] = IF k < b THEN s[k] ELSE e
  <2>1. Len(w) = b
    BY <1>1, <1>5, <1>6
  <2>2. ASSUME NEW k \in 1 .. b
        PROVE  w[k] = IF k < b THEN s[k] ELSE e
    <3>1. CASE k < b
      BY <1>1, <1>5, <1>6, <3>1
    <3>2. CASE ~ (k < b)
      <4>1. k = b /\ k - (b - 1) = 1 /\ ~ (k <= b - 1)
        BY <3>2
      <4>2. QED
        BY <1>1, <1>5, <1>6, <4>1
    <3>3. QED
      BY <3>1, <3>2
  <2>3. QED
    BY <2>1, <2>2
<1>8. /\ w \o v \in Seq(S) /\ Len(w \o v) = Len(w) + Len(v)
      /\ \A k \in 1 .. Len(w) + Len(v) : (w \o v)[k] = IF k <= Len(w) THEN w[k] ELSE v[k - Len(w)]
  <2>1. w \in Seq(S) /\ v \in Seq(S)
    BY <1>2, <1>6
  <2>2. QED
    BY <2>1, ConcatProperties
<1>9. Len(w) + Len(v) = Len(s) + 1
  BY <1>0, <1>2, <1>7
<1>10. ASSUME NEW k \in 1 .. Len(s) + 1
       PROVE  (w \o v)[k] = IF k < b THEN s[k] ELSE IF k = b THEN e ELSE s[k - 1]
  <2>1. CASE k <= b
    BY <1>0, <1>7, <1>8, <1>9, <2>1
  <2>2. CASE ~ (k <= b)
    <3>1. /\ k - b \in 1 .. Len(s) - b + 1 /\ b + (k - b) - 1 = k - 1
          /\ ~ (k < b) /\ k # b
      BY <1>0, <2>2
    <3>2. (w \o v)[k] = v[k - b]
      BY <1>7, <1>8, <1>9, <2>2
    <3>3. QED
      BY <1>2, <3>1, <3>2
  <2>3. QED
    BY <2>1, <2>2
<1>11. QED
  BY <1>4, <1>8, <1>9, <1>10

LEMMA SendInsnToIs ==
    ASSUME NEW S, NEW s \in Seq(S), NEW a \in 1 .. Len(s), NEW b \in 1 .. Len(s)
    PROVE  /\ SendInsnTo(s, a, b) \in Seq(S)
           /\ Len(SendInsnTo(s, a, b)) = Len(s)
           /\ \A k \in 1 .. Len(s) : SendInsnTo(s, a, b)[k] = s[From(a, b, k)]
<1> DEFINE e == s[a]
           r == RemoveAt(s, a)
           t == InsertAt(r, b, e)
<1>0. Len(s) \in Nat /\ e \in S
  BY LenProperties, ElementOfSeq
<1>1. /\ r \in Seq(S) /\ Len(r) = Len(s) - 1
      /\ \A k \in 1 .. Len(s) - 1 : r[k] = IF k < a THEN s[k] ELSE s[k + 1]
  BY RemoveAtIs
<1>2. b \in 1 .. Len(r) + 1
  BY <1>0, <1>1
<1>3. SendInsnTo(s, a, b) = t
  BY DEF SendInsnTo
<1> HIDE DEF r, e
<1>4. /\ t \in Seq(S) /\ Len(t) = Len(r) + 1
      /\ \A k \in 1 .. Len(r) + 1 : t[k] = IF k < b THEN r[k] ELSE IF k = b THEN e ELSE r[k - 1]
  BY <1>0, <1>1, <1>2, InsertAtIs
<1> HIDE DEF t
<1>5. Len(t) = Len(s)
  BY <1>0, <1>1, <1>4
<1>6. ASSUME NEW k \in 1 .. Len(s)
      PROVE  t[k] = s[From(a, b, k)]
  <2>1. CASE k < b
    <3>1. k \in 1 .. Len(s) - 1 /\ t[k] = r[k]
      BY <1>0, <1>1, <1>4, <2>1
    <3>2. From(a, b, k) = IF k < a THEN k ELSE k + 1
      BY <1>0, <2>1 DEF From
    <3>3. QED
      BY <1>1, <3>1, <3>2
  <2>2. CASE k = b
    BY <1>0, <1>1, <1>4, <2>2 DEF From, e
  <2>3. CASE b < k
    <3>1. k - 1 \in 1 .. Len(s) - 1 /\ t[k] = r[k - 1]
      BY <1>0, <1>1, <1>4, <2>3
    <3>2. From(a, b, k) = IF k - 1 < a THEN k - 1 ELSE k
      BY <1>0, <2>3 DEF From
    <3>3. (k - 1) + 1 = k
      BY <1>0
    <3>4. QED
      BY <1>1, <3>1, <3>2, <3>3
  <2>4. QED
    BY <1>0, <2>1, <2>2, <2>3
<1>7. QED
  BY <1>3, <1>4, <1>5, <1>6

-----------------------------------------------------------------------------
(* The walks over a packet are defined step by step. *)

LEMMA CompareWalk ==
    ASSUME NEW s, LastInsn(s) \in Nat
    PROVE  \E walk : /\ walk[0] = [insns |-> s, flag |-> FALSE, changed |-> FALSE]
                     /\ \A i \in 1 .. LastInsn(s) : walk[i] = CompareStep(walk[i - 1], i)
                     /\ ShuffleCompares(s) = walk[LastInsn(s)]
<1> DEFINE n == LastInsn(s)
           c == [insns |-> s, flag |-> FALSE, changed |-> FALSE]
           Unfolds(g, m) == g = [i \in 0 .. m |-> IF i = 0 THEN c ELSE CompareStep(g[i - 1], i)]
           Defined == {m \in 0 .. n : \E g : Unfolds(g, m)}
           walk[i \in 0 .. n] == IF i = 0 THEN c ELSE CompareStep(walk[i - 1], i)
<1>1. ShuffleCompares(s) = walk[n]
  BY DEF ShuffleCompares
<1>2. walk = CHOOSE g : Unfolds(g, n)
  OBVIOUS
<1> HIDE DEF n, c, walk
<1>3. 0 \in Defined
  <2>1. Unfolds([i \in 0 .. 0 |-> c], 0)
    OBVIOUS
  <2>2. 0 \in 0 .. n
    BY DEF n
  <2> HIDE DEF Unfolds
  <2>3. QED
    BY <2>1, <2>2
<1>4. ASSUME NEW m \in 1 .. n, m - 1 \in Defined
      PROVE  m \in Defined
  <2>1. PICK g : Unfolds(g, m - 1)
    BY <1>4
  <2> DEFINE h == [i \in 0 .. m |-> IF i = m THEN CompareStep(g[m - 1], m) ELSE g[i]]
  <2>2. ASSUME NEW i \in 0 .. m
        PROVE  h[i] = IF i = 0 THEN c ELSE CompareStep(h[i - 1], i)
    <3>1. CASE i = m
      BY <3>1
    <3>2. CASE i # m
      BY <2>1, <3>2
    <3>3. QED
      BY <3>1, <3>2
  <2>3. Unfolds(h, m)
    BY <2>2
  <2>4. m \in 0 .. n
    BY DEF n
  <2> HIDE DEF Unfolds
  <2>5. QED
    BY <2>3, <2>4
<1>5. \E g : Unfolds(g, n)
  <2>1. n \in 0 .. n /\ n \in Nat
    BY DEF n
  <2>2. 0 .. n \subseteq Defined
    <3> HIDE DEF Defined
    <3> QED BY <1>3, <1>4, <2>1, InductionUpTo
  <2>3. QED
    BY <2>1, <2>2
<1>6. Unfolds(walk, n)
  BY <1>2, <1>5
<1>7. walk[0] = c /\ \A i \in 1 .. n : walk[i] = CompareStep(walk[i - 1], i)
  <2>1. 0 \in 0 .. n /\ 1 .. n \subseteq 0 .. n /\ \A i \in 1 .. n : i # 0
    BY DEF n
  <2>2. \A i \in 0 .. n : walk[i] = IF i = 0 THEN c ELSE CompareStep(walk[i - 1], i)
    BY <1>6
  <2>3. QED
    BY <2>1, <2>2
<1>8. QED
  BY <1>1, <1>7 DEF n, c

LEMMA ExtenderWalk ==
    ASSUME NEW s, Len(s) \in Nat
    PROVE  \E walk : /\ walk[0] = s
                     /\ \A i \in 1 .. Len(s) : walk[i] = ExtenderStep(walk[i - 1], i)
                     /\ RemoveExtenders(s) = walk[Len(s)]
<1> DEFINE n == Len(s)
           c == s
           Unfolds(g, m) == g = [i \in 0 .. m |-> IF i = 0 THEN c ELSE ExtenderStep(g[i - 1], i)]
           Defined == {m \in 0 .. n : \E g : Unfolds(g, m)}
           walk[i \in 0 .. n] == IF i = 0 THEN c ELSE ExtenderStep(walk[i - 1], i)
<1>1. RemoveExtenders(s) = walk[n]
  BY DEF RemoveExtenders
<1>2. walk = CHOOSE g : Unfolds(g, n)
  OBVIOUS
<1> HIDE DEF n, c, walk
<1>3. 0 \in Defined
  <2>1. Unfolds([i \in 0 .. 0 |-> c], 0)
    OBVIOUS
  <2>2. 0 \in 0 .. n
    BY DEF n
  <2> HIDE DEF Unfolds
  <2>3. QED
    BY <2>1, <2>2
<1>4. ASSUME NEW m \in 1 .. n, m - 1 \in Defined
      PROVE  m \in Defined
  <2>1. PICK g : Unfolds(g, m - 1)
    BY <1>4
  <2> DEFINE h == [i \in 0 .. m |-> IF i = m THEN ExtenderStep(g[m - 1], m) ELSE g[i]]
  <2>2. ASSUME NEW i \in 0 .. m
        PROVE  h[i] = IF i = 0 THEN c ELSE ExtenderStep(h[i - 1], i)
    <3>1. CASE i = m
      BY <3>1
    <3>2. CASE i # m
      BY <2>1, <3>2
    <3>3. QED
      BY <3>1, <3>2
  <2>3. Unfolds(h, m)
    BY <2>2
  <2>4. m \in 0 .. n
    BY DEF n
  <2> HIDE DEF Unfolds
  <2>5. QED
    BY <2>3, <2>4
<1>5. \E g : Unfolds(g, n)
  <2>1. n \in 0 .. n /\ n \in Nat
    BY DEF n
  <2>2. 0 .. n \subseteq Defined
    <3> HIDE DEF Defined
    <3> QED BY <1>3, <1>4, <2>1, InductionUpTo
  <2>3. QED
    BY <2>1, <2>2
<1>6. Unfolds(walk, n)
  BY <1>2, <1>5
<1>7. walk[0] = c /\ \A i \in 1 .. n : walk[i] = ExtenderStep(walk[i - 1], i)
  <2>1. 0 \in 0 .. n /\ 1 .. n \subseteq 0 .. n /\ \A i \in 1 .. n : i # 0
    BY DEF n
  <2>2. \A i \in 0 .. n : walk[i] = IF i = 0 THEN c ELSE ExtenderStep(walk[i - 1], i)
    BY <1>6
  <2>3. QED
    BY <2>1, <2>2
<1>8. QED
  BY <1>1, <1>7 DEF n, c

LEMMA HalfWalk ==
    ASSUME NEW s, Len(s) \in Nat
    PROVE  \E walk : /\ walk[0] = << >>
                     /\ \A i \in 1 .. Len(s) : walk[i] = HalfStep(walk[i - 1], s[i])
                     /\ CompareHalves(s) = walk[Len(s)]
<1> DEFINE n == Len(s)
           c == << >>
           Unfolds(g, m) == g = [i \in 0 .. m |-> IF i = 0 THEN c ELSE HalfStep(g[i - 1], s[i])]
           Defined == {m \in 0 .. n : \E g : Unfolds(g, m)}
           walk[i \in 0 .. n] == IF i = 0 THEN c ELSE HalfStep(walk[i - 1], s[i])
<1>1. CompareHalves(s) = walk[n]
  BY DEF CompareHalves
<1>2. walk = CHOOSE g : Unfolds(g, n)
  OBVIOUS
<1> HIDE DEF n, c, walk
<1>3. 0 \in Defined
  <2>1. Unfolds([i \in 0 .. 0 |-> c], 0)
    OBVIOUS
  <2>2. 0 \in 0 .. n
    BY DEF n
  <2> HIDE DEF Unfolds
  <2>3. QED
    BY <2>1, <2>2
<1>4. ASSUME NEW m \in 1 .. n, m - 1 \in Defined
      PROVE  m \in Defined
  <2>1. PICK g : Unfolds(g, m - 1)
    BY <1>4
  <2> DEFINE h == [i \in 0 .. m |-> IF i = m THEN HalfStep(g[m - 1], s[m]) ELSE g[i]]
  <2>2. ASSUME NEW i \in 0 .. m
        PROVE  h[i] = IF i = 0 THEN c ELSE HalfStep(h[i - 1], s[i])
    <3>1. CASE i = m
      BY <3>1
    <3>2. CASE i # m
      BY <2>1, <3>2
    <3>3. QED
      BY <3>1, <3>2
  <2>3. Unfolds(h, m)
    BY <2>2
  <2>4. m \in 0 .. n
    BY DEF n
  <2> HIDE DEF Unfolds
  <2>5. QED
    BY <2>3, <2>4
<1>5. \E g : Unfolds(g, n)
  <2>1. n \in 0 .. n /\ n \in Nat
    BY DEF n
  <2>2. 0 .. n \subseteq Defined
    <3> HIDE DEF Defined
    <3> QED BY <1>3, <1>4, <2>1, InductionUpTo
  <2>3. QED
    BY <2>1, <2>2
<1>6. Unfolds(walk, n)
  BY <1>2, <1>5
<1>7. walk[0] = c /\ \A i \in 1 .. n : walk[i] = HalfStep(walk[i - 1], s[i])
  <2>1. 0 \in 0 .. n /\ 1 .. n \subseteq 0 .. n /\ \A i \in 1 .. n : i # 0
    BY DEF n
  <2>2. \A i \in 0 .. n : walk[i] = IF i = 0 THEN c ELSE HalfStep(walk[i - 1], s[i])
    BY <1>6
  <2>3. QED
    BY <2>1, <2>2
<1>8. QED
  BY <1>1, <1>7 DEF n, c

LEMMA SlotWalk ==
    ASSUME NEW s, Len(s) \in Nat
    PROVE  \E walk : /\ walk[0] = 4
                     /\ \A i \in 1 .. Len(s) : walk[i] = SlotStep(walk[i - 1], s[i])
                     /\ FitsSlots(s) <=> walk[Len(s)] >= 0
<1> DEFINE n == Len(s)
           c == 4
           Unfolds(g, m) == g = [i \in 0 .. m |-> IF i = 0 THEN c ELSE SlotStep(g[i - 1], s[i])]
           Defined == {m \in 0 .. n : \E g : Unfolds(g, m)}
           walk[i \in 0 .. n] == IF i = 0 THEN c ELSE SlotStep(walk[i - 1], s[i])
<1>1. FitsSlots(s) <=> walk[n] >= 0
  BY DEF FitsSlots
<1>2. walk = CHOOSE g : Unfolds(g, n)
  OBVIOUS
<1> HIDE DEF n, c, walk
<1>3. 0 \in Defined
  <2>1. Unfolds([i \in 0 .. 0 |-> c], 0)
    OBVIOUS
  <2>2. 0 \in 0 .. n
    BY DEF n
  <2> HIDE DEF Unfolds
  <2>3. QED
    BY <2>1, <2>2
<1>4. ASSUME NEW m \in 1 .. n, m - 1 \in Defined
      PROVE  m \in Defined
  <2>1. PICK g : Unfolds(g, m - 1)
    BY <1>4
  <2> DEFINE h == [i \in 0 .. m |-> IF i = m THEN SlotStep(g[m - 1], s[m]) ELSE g[i]]
  <2>2. ASSUME NEW i \in 0 .. m
        PROVE  h[i] = IF i = 0 THEN c ELSE SlotStep(h[i - 1], s[i])
    <3>1. CASE i = m
      BY <3>1
    <3>2. CASE i # m
      BY <2>1, <3>2
    <3>3. QED
      BY <3>1, <3>2
  <2>3. Unfolds(h, m)
    BY <2>2
  <2>4. m \in 0 .. n
    BY DEF n
  <2> HIDE DEF Unfolds
  <2>5. QED
    BY <2>3, <2>4
<1>5. \E g : Unfolds(g, n)
  <2>1. n \in 0 .. n /\ n \in Nat
    BY DEF n
  <2>2. 0 .. n \subseteq Defined
    <3> HIDE DEF Defined
    <3> QED BY <1>3, <1>4, <2>1, InductionUpTo
  <2>3. QED
    BY <2>1, <2>2
<1>6. Unfolds(walk, n)
  BY <1>2, <1>5
<1>7. walk[0] = c /\ \A i \in 1 .. n : walk[i] = SlotStep(walk[i - 1], s[i])
  <2>1. 0 \in 0 .. n /\ 1 .. n \subseteq 0 .. n /\ \A i \in 1 .. n : i # 0
    BY DEF n
  <2>2. \A i \in 0 .. n : walk[i] = IF i = 0 THEN c ELSE SlotStep(walk[i - 1], s[i])
    BY <1>6
  <2>3. QED
    BY <2>1, <2>2
<1>8. QED
  BY <1>1, <1>7 DEF n, c

LEMMA StoreWalk ==
    ASSUME NEW s, LastInsn(s) \in Nat
    PROVE  \E walk : /\ walk[LastInsn(s) + 1] = [insns |-> s, flag |-> FALSE, mems |-> 0, changed |-> FALSE]
                     /\ \A i \in 1 .. LastInsn(s) : walk[i] = StoreStep(walk[i + 1], i, LastInsn(s))
                     /\ ShuffleStores(s) = walk[1]
<1> DEFINE n == LastInsn(s)
           c == [insns |-> s, flag |-> FALSE, mems |-> 0, changed |-> FALSE]
           Unfolds(g, m) == g = [i \in n + 1 - m .. n + 1 |-> IF i = n + 1 THEN c ELSE StoreStep(g[i + 1], i, n)]
           Defined == {m \in 0 .. n : \E g : Unfolds(g, m)}
           walk[i \in 1 .. n + 1] == IF i = n + 1 THEN c ELSE StoreStep(walk[i + 1], i, n)
<1>1. ShuffleStores(s) = walk[1]
  BY DEF ShuffleStores
<1>2. walk = CHOOSE g : Unfolds(g, n)
  <2>1. n + 1 - n = 1
    OBVIOUS
  <2>2. QED
    BY <2>1
<1> HIDE DEF n, c, walk
<1>3. 0 \in Defined
  <2>1. Unfolds([i \in n + 1 .. n + 1 |-> c], 0)
    OBVIOUS
  <2>2. 0 \in 0 .. n
    BY DEF n
  <2> HIDE DEF Unfolds
  <2>3. QED
    BY <2>1, <2>2
<1>4. ASSUME NEW m \in 1 .. n, m - 1 \in Defined
      PROVE  m \in Defined
  <2>1. PICK g : Unfolds(g, m - 1)
    BY <1>4
  <2> DEFINE h == [i \in n + 1 - m .. n + 1 |->
                       IF i = n + 1 - m THEN StoreStep(g[i + 1], i, n) ELSE g[i]]
  <2>2. ASSUME NEW i \in n + 1 - m .. n + 1
        PROVE  h[i] = IF i = n + 1 THEN c ELSE StoreStep(h[i + 1], i, n)
    <3>0. n \in Nat
      BY DEF n
    <3>1. CASE i = n + 1 - m
      <4>1. i # n + 1 /\ i + 1 \in n + 1 - m .. n + 1 /\ i + 1 # n + 1 - m
        BY <3>0, <3>1
      <4>2. h[i] = StoreStep(g[i + 1], i, n) /\ h[i + 1] = g[i + 1]
        BY <3>1, <4>1
      <4>3. QED
        BY <4>1, <4>2
    <3>2. CASE i # n + 1 - m
      <4>1. /\ i \in n + 1 - (m - 1) .. n + 1
            /\ i # n + 1 => i + 1 \in n + 1 - m .. n + 1 /\ i + 1 # n + 1 - m
        BY <3>0, <3>2
      <4>2. h[i] = g[i] /\ (i # n + 1 => h[i + 1] = g[i + 1])
        BY <3>2, <4>1
      <4>3. g[i] = IF i = n + 1 THEN c ELSE StoreStep(g[i + 1], i, n)
        BY <2>1, <4>1
      <4>4. QED
        BY <4>2, <4>3
    <3>3. QED
      BY <3>1, <3>2
  <2>3. Unfolds(h, m)
    BY <2>2
  <2>4. m \in 0 .. n
    BY DEF n
  <2> HIDE DEF Unfolds
  <2>5. QED
    BY <2>3, <2>4
<1>5. \E g : Unfolds(g, n)
  <2>1. n \in 0 .. n /\ n \in Nat
    BY DEF n
  <2>2. 0 .. n \subseteq Defined
    <3> HIDE DEF Defined
    <3> QED BY <1>3, <1>4, <2>1, InductionUpTo
  <2>3. QED
    BY <2>1, <2>2
<1>6. Unfolds(walk, n)
  BY <1>2, <1>5
<1>7. walk[n + 1] = c /\ \A i \in 1 .. n : walk[i] = StoreStep(walk[i + 1], i, n)
  <2>1. n + 1 \in 1 .. n + 1 /\ 1 .. n \subseteq 1 .. n + 1 /\ \A i \in 1 .. n : i # n + 1
    BY DEF n
  <2>2. n + 1 - n = 1
    BY DEF n
  <2>3. \A i \in 1 .. n + 1 :
            walk[i] = IF i = n + 1 THEN c ELSE StoreStep(walk[i + 1], i, n)
    BY <1>6, <2>2
  <2>4. QED
    BY <2>1, <2>3
<1>8. QED
  BY <1>1, <1>7 DEF n, c

-----------------------------------------------------------------------------
(* Packets, and their instructions in another order. *)

Ops == {"alu", "jump", "cmp", "spNloop", "load", "store", "return", "newstore", "newjump",
        "cmpjump", "rte", "ext", "endloop"}

\* Without operands, and with them.
Plain == [op : Ops, dotnew : BOOLEAN, at : Nat, part1 : BOOLEAN]
Instr == Plain \cup Instruction

Executes(insn) == ~IsExt(insn) /\ ~EndsLoop(insn)

\* The packet q as the decoder leaves it.
Entries(q) ==
    /\ q \in Seq(Instr)
    /\ \A i \in 1 .. Len(q) :
          /\ q[i].at = i /\ ~q[i].part1
          /\ EndsLoop(q[i]) => i = Len(q)
          /\ IsExt(q[i]) /\ i < Len(q) => ~IsExt(q[i + 1])

\* What an assembler makes: every instruction has a slot, two at most branch.
Decoded(q) == Entries(q) /\ FitsSlots(q) /\ FewBranches(q)

\* It is not empty and does not end in an extender.
Complete(q) == Len(q) >= 1 /\ ~IsExt(q[Len(q)])

\* s has the instructions of q but for the extenders, an endloop last.
Arranges(s, q) ==
    /\ s \in Seq(Instr) /\ Len(s) >= 1
    /\ \A i \in 1 .. Len(s) :
          /\ s[i].at \in 1 .. Len(q) /\ s[i] = q[s[i].at] /\ ~IsExt(s[i])
          /\ EndsLoop(s[i]) => i = Len(s)
    /\ \A i, j \in 1 .. Len(s) : s[i].at = s[j].at => i = j
    /\ \A k \in 1 .. Len(q) : ~IsExt(q[k]) => \E i \in 1 .. Len(s) : s[i].at = k

LEMMA LastInsnIs ==
    ASSUME NEW s \in Seq(Instr), Len(s) >= 1
    PROVE  /\ Len(s) \in Nat /\ LastInsn(s) \in Nat /\ LastInsn(s) <= Len(s)
           /\ EndsLoop(s[Len(s)]) => LastInsn(s) = Len(s) - 1
           /\ ~EndsLoop(s[Len(s)]) => LastInsn(s) = Len(s)
BY LenProperties DEF LastInsn

\* The instructions before LastInsn are those that execute.
LEMMA ExecutesIs ==
    ASSUME NEW s, NEW q, Arranges(s, q), NEW i \in 1 .. Len(s)
    PROVE  Executes(s[i]) <=> i <= LastInsn(s)
<1>1. /\ Len(s) \in Nat /\ LastInsn(s) \in Nat
      /\ EndsLoop(s[Len(s)]) => LastInsn(s) = Len(s) - 1
      /\ ~EndsLoop(s[Len(s)]) => LastInsn(s) = Len(s)
  BY LastInsnIs DEF Arranges
<1>2. ~IsExt(s[i]) /\ (EndsLoop(s[i]) => i = Len(s))
  BY DEF Arranges
<1>3. QED
  BY <1>1, <1>2 DEF Executes

LEMMA FromIs ==
    ASSUME NEW n \in Nat, NEW a \in 1 .. n, NEW b \in 1 .. n, NEW k \in 1 .. n
    PROVE  /\ From(a, b, k) \in 1 .. n
           /\ From(b, a, k) \in 1 .. n
           /\ From(a, b, From(b, a, k)) = k
           /\ From(b, a, From(a, b, k)) = k
           /\ From(a, b, k) = a <=> k = b
           /\ (a < k /\ b < k) \/ (k < a /\ k < b) => From(a, b, k) = k
BY DEF From

\* What is not moved keeps its order.
LEMMA FromKeepsOrder ==
    ASSUME NEW n \in Nat, NEW a \in 1 .. n, NEW b \in 1 .. n,
           NEW k \in 1 .. n, NEW l \in 1 .. n, k # b, l # b
    PROVE  k < l <=> From(a, b, k) < From(a, b, l)
BY DEF From

\* Moving an instruction about, but not past the endloop, rearranges the packet.
LEMMA MoveArranges ==
    ASSUME NEW s, NEW q, Arranges(s, q),
           NEW a \in 1 .. LastInsn(s), NEW b \in 1 .. LastInsn(s)
    PROVE  /\ Arranges(SendInsnTo(s, a, b), q)
           /\ Len(SendInsnTo(s, a, b)) = Len(s)
           /\ LastInsn(SendInsnTo(s, a, b)) = LastInsn(s)
           /\ \A k \in 1 .. Len(s) :
                 /\ From(a, b, k) \in 1 .. Len(s)
                 /\ SendInsnTo(s, a, b)[k] = s[From(a, b, k)]
<1> DEFINE t == SendInsnTo(s, a, b)
           n == Len(s)
<1>1. /\ s \in Seq(Instr) /\ n >= 1 /\ n \in Nat
      /\ LastInsn(s) \in Nat /\ LastInsn(s) <= n
      /\ EndsLoop(s[n]) => LastInsn(s) = n - 1
      /\ ~EndsLoop(s[n]) => LastInsn(s) = n
  BY LastInsnIs DEF Arranges
<1>2. a \in 1 .. n /\ b \in 1 .. n
  BY <1>1
<1>3. t \in Seq(Instr) /\ Len(t) = n /\ \A k \in 1 .. n : t[k] = s[From(a, b, k)]
  BY <1>1, <1>2, SendInsnToIs
<1> HIDE DEF t
<1>4. \A k \in 1 .. n : /\ From(a, b, k) \in 1 .. n /\ From(b, a, k) \in 1 .. n
                        /\ From(a, b, From(b, a, k)) = k /\ From(b, a, From(a, b, k)) = k
  BY <1>1, <1>2, FromIs
<1>5. /\ \A k \in 1 .. n : /\ s[k].at \in 1 .. Len(q) /\ s[k] = q[s[k].at] /\ ~IsExt(s[k])
                           /\ EndsLoop(s[k]) => k = n
      /\ \A k, l \in 1 .. n : s[k].at = s[l].at => k = l
      /\ \A k \in 1 .. Len(q) : ~IsExt(q[k]) => \E i \in 1 .. n : s[i].at = k
  BY DEF Arranges
<1>6. ASSUME NEW k \in 1 .. n
      PROVE  /\ t[k].at \in 1 .. Len(q) /\ t[k] = q[t[k].at] /\ ~IsExt(t[k])
             /\ EndsLoop(t[k]) => k = n
  <2>1. t[k] = s[From(a, b, k)] /\ From(a, b, k) \in 1 .. n
    BY <1>3, <1>4
  <2>2. ASSUME EndsLoop(t[k])
        PROVE  k = n
    <3>1. From(a, b, k) = n /\ EndsLoop(s[n])
      BY <1>5, <2>1, <2>2
    <3>2. a < n /\ b < n
      BY <1>1, <3>1
    <3>3. From(a, b, k) = n => k = n
      BY <1>1, <1>2, <3>2 DEF From
    <3>4. QED
      BY <3>1, <3>3
  <2>3. QED
    BY <1>5, <2>1, <2>2
<1>7. ASSUME NEW k \in 1 .. n, NEW l \in 1 .. n, t[k].at = t[l].at
      PROVE  k = l
  <2>1. /\ From(a, b, k) \in 1 .. n /\ t[k] = s[From(a, b, k)]
        /\ From(a, b, l) \in 1 .. n /\ t[l] = s[From(a, b, l)]
    BY <1>3, <1>4
  <2>2. s[From(a, b, k)].at = s[From(a, b, l)].at
    BY <1>7, <2>1
  <2>3. From(a, b, k) = From(a, b, l)
    BY <1>5, <2>1, <2>2
  <2>4. QED
    BY <1>4, <2>3
<1>8. ASSUME NEW k \in 1 .. Len(q), ~IsExt(q[k])
      PROVE  \E i \in 1 .. n : t[i].at = k
  <2>1. PICK i \in 1 .. n : s[i].at = k
    BY <1>5, <1>8
  <2>2. From(b, a, i) \in 1 .. n /\ t[From(b, a, i)] = s[i]
    BY <1>3, <1>4
  <2>3. QED
    BY <2>1, <2>2
<1>9. Arranges(t, q)
  BY <1>1, <1>3, <1>6, <1>7, <1>8 DEF Arranges
<1>10. LastInsn(t) = LastInsn(s)
  <2>1. EndsLoop(t[n]) <=> EndsLoop(s[n])
    <3>1. CASE EndsLoop(s[n])
      <4>1. a < n /\ b < n
        BY <1>1, <3>1
      <4>2. From(a, b, n) = n
        BY <1>1, <1>2, <4>1 DEF From
      <4>3. QED
        BY <1>1, <1>3, <4>2
    <3>2. CASE EndsLoop(t[n])
      <4>1. From(a, b, n) \in 1 .. n /\ EndsLoop(s[From(a, b, n)])
        BY <1>1, <1>3, <1>4, <3>2
      <4>2. From(a, b, n) = n
        BY <1>5, <4>1
      <4>3. QED
        BY <3>2, <4>1, <4>2
    <3>3. QED
      BY <3>1, <3>2
  <2>2. QED
    BY <1>3, <2>1 DEF LastInsn
<1>11. QED
  BY <1>3, <1>4, <1>9, <1>10 DEF t

-----------------------------------------------------------------------------
(* What the slots say of the packets there are. *)

LEMMA SlotsAre ==
    ASSUME NEW x \in Instr, Executes(x)
    PROVE  /\ Slots(x) \subseteq 0 .. 3
           /\ IsMemory(x) => Slots(x) \subseteq {0, 1}
           /\ IsNewValue(x) => Slots(x) = {0}
BY DEF Slots, Instr, Plain, Instruction, Ops, Executes, IsExt, EndsLoop, IsMemory, IsStore, IsLoad, IsNewValue

LEMMA MaxIs ==
    ASSUME NEW S \in SUBSET (0 .. 3), S # {}
    PROVE  Max(S) \in S /\ \A x \in S : x <= Max(S)
<1>1. \E m \in S : \A x \in S : x <= m
  <2>1. S \in SUBSET Nat /\ 3 \in Nat /\ \A x \in S : x <= 3
    OBVIOUS
  <2>2. QED
    BY <2>1, GreatestExists
<1>2. \E m \in S : \A x \in S : m >= x
  BY <1>1
<1>3. Max(S) \in S /\ \A x \in S : Max(S) >= x
  BY <1>2 DEF Max
<1>4. QED
  BY <1>3

LEMMA SlotStepIs ==
    ASSUME NEW x \in Instr, NEW v \in -1 .. 4
    PROVE  /\ SlotStep(v, x) \in -1 .. 4
           /\ SlotStep(v, x) <= v
           /\ Executes(x) /\ SlotStep(v, x) >= 0 =>
                 SlotStep(v, x) \in Slots(x) /\ SlotStep(v, x) < v
<1>1. CASE ~Executes(x)
  BY <1>1 DEF SlotStep, Executes
<1>2. CASE Executes(x)
  <2> DEFINE free == {y \in Slots(x) : y < v}
  <2>1. Slots(x) \subseteq 0 .. 3
    BY <1>2, SlotsAre
  <2>2. SlotStep(v, x) = IF free = {} THEN -1 ELSE Max(free)
    BY <1>2 DEF SlotStep, Executes
  <2>3. CASE free = {}
    BY <1>2, <2>2, <2>3
  <2>4. CASE free # {}
    <3>1. Max(free) \in free
      BY <2>1, <2>4, MaxIs
    <3>2. QED
      BY <2>1, <2>2, <2>4, <3>1
  <2>5. QED
    BY <2>3, <2>4
<1>3. QED
  BY <1>1, <1>2

\* In a packet that fits the slots the instructions that execute have slots of
\* their own, which decrease.
LEMMA SlotsDecrease ==
    ASSUME NEW q \in Seq(Instr), FitsSlots(q)
    PROVE  \E slot : \A i \in 1 .. Len(q) : Executes(q[i]) =>
               /\ slot[i] \in Slots(q[i]) /\ slot[i] \in 0 .. 3
               /\ \A k \in 1 .. i - 1 : slot[i] < slot[k] /\ slot[k] \in 0 .. 4
<1> DEFINE n == Len(q)
<1>0. n \in Nat /\ \A i \in 1 .. n : q[i] \in Instr
  BY LenProperties, ElementOfSeq
<1>1. PICK walk : /\ walk[0] = 4
                  /\ \A i \in 1 .. n : walk[i] = SlotStep(walk[i - 1], q[i])
                  /\ walk[n] >= 0
  BY <1>0, SlotWalk
<1> DEFINE Own(i) == /\ walk[i] \in 0 .. 4
                     /\ \A k \in 0 .. i - 1 : walk[i] <= walk[k]
                     /\ Executes(q[i]) =>
                           walk[i] \in Slots(q[i]) /\ \A k \in 0 .. i - 1 : walk[i] < walk[k]
           T == {j \in 0 .. n : /\ walk[j] \in -1 .. 4
                                /\ walk[j] >= 0 => \A i \in 1 .. j : Own(i)}
<1>2. 0 \in T
  BY <1>0, <1>1
<1>3. ASSUME NEW j \in 1 .. n, j - 1 \in T
      PROVE  j \in T
  <2>1. walk[j - 1] \in -1 .. 4 /\ (walk[j - 1] >= 0 => \A i \in 1 .. j - 1 : Own(i))
    BY <1>3
  <2>2. /\ walk[j] \in -1 .. 4 /\ walk[j] <= walk[j - 1]
        /\ Executes(q[j]) /\ walk[j] >= 0 => walk[j] \in Slots(q[j]) /\ walk[j] < walk[j - 1]
    BY <1>0, <1>1, <2>1, SlotStepIs
  <2>3. ASSUME walk[j] >= 0
        PROVE  Own(j) /\ \A i \in 1 .. j - 1 : Own(i)
    <3>1. walk[j - 1] >= 0 /\ \A i \in 1 .. j - 1 : Own(i)
      BY <2>1, <2>2, <2>3
    <3>2. ASSUME NEW k \in 0 .. j - 1
          PROVE  walk[j - 1] <= walk[k] /\ walk[k] \in Int
      <4>1. CASE k = j - 1
        BY <2>1, <4>1
      <4>2. CASE k # j - 1
        <5>1. j - 1 \in 1 .. j - 1 /\ k \in 0 .. (j - 1) - 1
          BY <4>2
        <5>2. walk[j - 1] <= walk[k]
          BY <3>1, <5>1
        <5>3. walk[k] \in Int
          BY <1>1, <3>1, <5>1
        <5>4. QED
          BY <5>2, <5>3
      <4>3. QED
        BY <4>1, <4>2
    <3>3. \A k \in 0 .. j - 1 : walk[j] <= walk[k]
      BY <2>1, <2>2, <3>2
    <3>4. ASSUME Executes(q[j])
          PROVE  walk[j] \in Slots(q[j]) /\ \A k \in 0 .. j - 1 : walk[j] < walk[k]
      BY <2>1, <2>2, <2>3, <3>2, <3>4
    <3>5. walk[j] \in 0 .. 4
      BY <2>2, <2>3
    <3>6. Own(j)
      BY <3>3, <3>4, <3>5
    <3>7. QED
      BY <3>1, <3>6
  <2>4. ASSUME walk[j] >= 0, NEW i \in 1 .. j
        PROVE  Own(i)
    <3>1. i = j \/ i \in 1 .. j - 1
      OBVIOUS
    <3> HIDE DEF Own
    <3>2. QED
      BY <2>3, <2>4, <3>1
  <2> HIDE DEF Own
  <2>5. QED
    BY <2>2, <2>4
<1>4. \A i \in 1 .. n : Own(i)
  <2>1. n \in T
    <3>1. n \in Nat /\ n \in 0 .. n
      BY <1>0
    <3> HIDE DEF T, n
    <3>2. 0 .. n \subseteq T
      BY <1>2, <1>3, <3>1, InductionUpTo
    <3>3. QED
      BY <3>1, <3>2
  <2> HIDE DEF Own
  <2>2. QED
    BY <1>1, <2>1
<1>5. ASSUME NEW i \in 1 .. n, Executes(q[i])
      PROVE  /\ walk[i] \in Slots(q[i]) /\ walk[i] \in 0 .. 3
             /\ \A k \in 1 .. i - 1 : walk[i] < walk[k] /\ walk[k] \in 0 .. 4
  <2>1. Slots(q[i]) \subseteq 0 .. 3
    BY <1>0, <1>5, SlotsAre
  <2>2. walk[i] \in Slots(q[i]) /\ \A k \in 0 .. i - 1 : walk[i] < walk[k]
    BY <1>4, <1>5
  <2>3. \A k \in 1 .. i - 1 : k \in 0 .. i - 1 /\ walk[k] \in 0 .. 4
    BY <1>4
  <2>4. QED
    BY <2>1, <2>2, <2>3
<1>6. QED
  BY <1>5

\* Of two memory accesses the second is the last instruction that executes,
\* and nothing executes between them.
LEMMA MemoryPair ==
    ASSUME NEW q, Entries(q), FitsSlots(q), NEW i \in 1 .. Len(q), NEW j \in 1 .. Len(q),
           NEW k \in 1 .. Len(q), i < j, i < k,
           IsMemory(q[i]), IsMemory(q[j]), Executes(q[k])
    PROVE  k = j
<1>1. q \in Seq(Instr) /\ FitsSlots(q)
  BY DEF Entries
<1>2. PICK slot : \A l \in 1 .. Len(q) : Executes(q[l]) =>
               /\ slot[l] \in Slots(q[l]) /\ slot[l] \in 0 .. 3
               /\ \A m \in 1 .. l - 1 : slot[l] < slot[m] /\ slot[m] \in 0 .. 4
  BY <1>1, SlotsDecrease
<1>3. q[i] \in Instr /\ q[j] \in Instr
  BY <1>1, ElementOfSeq
<1>4. Executes(q[i]) /\ Executes(q[j])
  BY DEF Executes, IsMemory, IsStore, IsLoad, IsExt, EndsLoop
<1>5. slot[i] \in {0, 1} /\ slot[j] \in {0, 1} /\ slot[k] \in 0 .. 3
  BY <1>2, <1>3, <1>4, SlotsAre
<1>6. i \in 1 .. j - 1 /\ i \in 1 .. k - 1
  OBVIOUS
<1>7. slot[j] < slot[i] /\ slot[k] < slot[i]
  BY <1>2, <1>4, <1>6
<1>8. slot[j] = 0 /\ slot[k] = 0
  BY <1>5, <1>7
<1>9. ASSUME k # j
      PROVE  FALSE
  <2>1. k \in 1 .. j - 1 \/ j \in 1 .. k - 1
    BY <1>9
  <2>2. slot[j] < slot[k] \/ slot[k] < slot[j]
    BY <1>2, <1>4, <2>1
  <2>3. QED
    BY <1>8, <2>2
<1>10. QED
  BY <1>9

\* A new-value instruction is the last that executes.
LEMMA NewValueIsLast ==
    ASSUME NEW q, Entries(q), FitsSlots(q), NEW i \in 1 .. Len(q), NEW k \in 1 .. Len(q),
           IsNewValue(q[i]), Executes(q[k])
    PROVE  k <= i
<1>1. q \in Seq(Instr) /\ FitsSlots(q)
  BY DEF Entries
<1>2. PICK slot : \A l \in 1 .. Len(q) : Executes(q[l]) =>
               /\ slot[l] \in Slots(q[l]) /\ slot[l] \in 0 .. 3
               /\ \A m \in 1 .. l - 1 : slot[l] < slot[m] /\ slot[m] \in 0 .. 4
  BY <1>1, SlotsDecrease
<1>3. q[i] \in Instr /\ Executes(q[i])
  BY <1>1, ElementOfSeq DEF Executes, IsNewValue, IsExt, EndsLoop
<1>4. slot[i] = 0
  BY <1>2, <1>3, SlotsAre
<1>5. ASSUME i < k
      PROVE  FALSE
  <2>1. i \in 1 .. k - 1
    BY <1>5
  <2>2. slot[k] < slot[i] /\ slot[k] \in 0 .. 3
    BY <1>2, <2>1
  <2>3. QED
    BY <1>4, <2>2
<1>6. QED
  BY <1>5

-----------------------------------------------------------------------------
(* Without its extenders. *)

Increasing(s) == \A i, j \in 1 .. Len(s) : i < j => s[i].at < s[j].at

\* The rest of q when the walk has passed its first i instructions.
Stripped(w, i, q) ==
    /\ w \in Seq(Instr) /\ Len(w) <= Len(q)
    /\ \A j \in 1 .. Len(w) :
          /\ w[j].at \in 1 .. Len(q) /\ w[j] = q[w[j].at]
          /\ j <= i => ~IsExt(w[j])
          /\ j > i => w[j].at = j + (Len(q) - Len(w))
    /\ Increasing(w)
    /\ \A k \in 1 .. Len(q) : ~IsExt(q[k]) => \E j \in 1 .. Len(w) : w[j].at = k

LEMMA ExtenderStepStrips ==
    ASSUME NEW q, Entries(q), Complete(q), NEW i \in 1 .. Len(q), NEW w,
           Stripped(w, i - 1, q)
    PROVE  Stripped(ExtenderStep(w, i), i, q)
<1>0. q \in Seq(Instr) /\ Len(q) \in Nat /\ w \in Seq(Instr) /\ Len(w) \in Nat
  BY LenProperties DEF Entries, Stripped
<1> DEFINE n == Len(w)
           d == Len(q) - Len(w)
<1>a. n \in Nat /\ Len(q) \in Nat /\ n <= Len(q)
  BY <1>0 DEF Stripped
<1>b. d \in Nat /\ Len(q) = n + d
  BY <1>a
<1>1. /\ \A j \in 1 .. n :
            /\ w[j].at \in 1 .. Len(q) /\ w[j] = q[w[j].at]
            /\ j <= i - 1 => ~IsExt(w[j])
            /\ j > i - 1 => w[j].at = j + d
      /\ \A j, k \in 1 .. n : j < k => w[j].at < w[k].at
      /\ \A k \in 1 .. Len(q) : ~IsExt(q[k]) => \E j \in 1 .. n : w[j].at = k
  BY <1>0 DEF Stripped, Increasing
<1>2. CASE i <= Len(w) /\ IsExt(w[i])
  <2> DEFINE t == RemoveAt(w, i)
  <2>1. ExtenderStep(w, i) = t
    BY <1>2 DEF ExtenderStep
  <2>2. i \in 1 .. n
    BY <1>0, <1>2
  <2>3. /\ t \in Seq(Instr) /\ Len(t) = n - 1
        /\ \A k \in 1 .. n - 1 : t[k] = IF k < i THEN w[k] ELSE w[k + 1]
    BY <1>0, <2>2, RemoveAtIs
  <2>4. w[i].at = i + d /\ w[i] = q[i + d] /\ i + d \in 1 .. Len(q)
    BY <1>1, <2>2
  <2>5. i + d < Len(q) /\ ~IsExt(q[i + d + 1])
    <3>1. i + d # Len(q)
      BY <1>2, <2>4 DEF Complete
    <3>2. i + d < Len(q)
      <4>1. i + d \in Int /\ i + d <= Len(q)
        BY <1>a, <2>4
      <4>2. QED
        BY <1>a, <3>1, <4>1
    <3>3. \A j \in 1 .. Len(q) : IsExt(q[j]) /\ j < Len(q) => ~IsExt(q[j + 1])
      BY DEF Entries
    <3>4. QED
      BY <1>2, <2>4, <3>2, <3>3
  <2>6. i < n
    BY <1>a, <1>b, <2>2, <2>5
  <2>7. ~IsExt(w[i + 1])
    <3>1. i + 1 \in 1 .. n /\ i + 1 > i - 1 /\ (i + 1) + d = i + d + 1
      BY <1>a, <1>b, <2>6
    <3>2. w[i + 1].at = i + d + 1 /\ w[i + 1] = q[w[i + 1].at]
      BY <1>1, <3>1
    <3>3. QED
      BY <2>5, <3>2
  <2> HIDE DEF t
  <2>8. ASSUME NEW j \in 1 .. n - 1
        PROVE  /\ t[j].at \in 1 .. Len(q) /\ t[j] = q[t[j].at]
               /\ j <= i => ~IsExt(t[j])
               /\ j > i => t[j].at = j + (Len(q) - (n - 1))
    <3>1. CASE j < i
      <4>1. j \in 1 .. n /\ j <= i - 1 /\ t[j] = w[j] /\ ~ (j > i)
        BY <1>a, <2>2, <2>3, <3>1
      <4>2. QED
        BY <1>1, <4>1
    <3>2. CASE ~ (j < i)
      <4>1. j + 1 \in 1 .. n /\ j + 1 > i - 1 /\ t[j] = w[j + 1]
        BY <1>a, <2>2, <2>3, <3>2
      <4>2. t[j].at = (j + 1) + d /\ (j + 1) + d = j + (Len(q) - (n - 1))
        <5>1. (j + 1) + d = j + (Len(q) - (n - 1))
          BY <1>a
        <5>2. QED
          BY <1>1, <4>1, <5>1
      <4>3. j <= i => j + 1 = i + 1
        BY <2>2, <3>2
      <4>4. QED
        BY <1>1, <2>7, <4>1, <4>2, <4>3
    <3>3. QED
      BY <3>1, <3>2
  <2>9. ASSUME NEW j \in 1 .. n - 1, NEW k \in 1 .. n - 1, j < k
        PROVE  t[j].at < t[k].at
    <3> DEFINE x == IF j < i THEN j ELSE j + 1
               y == IF k < i THEN k ELSE k + 1
    <3>1. x \in 1 .. n /\ y \in 1 .. n /\ x < y
      BY <1>a, <2>2, <2>9
    <3>2. t[j] = w[x] /\ t[k] = w[y]
      BY <2>3
    <3> HIDE DEF x, y
    <3>3. QED
      BY <1>1, <3>1, <3>2
  <2>10. ASSUME NEW k \in 1 .. Len(q), ~IsExt(q[k])
         PROVE  \E j \in 1 .. n - 1 : t[j].at = k
    <3>1. PICK j \in 1 .. n : w[j].at = k
      BY <1>1, <2>10
    <3>2. j # i
      BY <1>2, <2>4, <2>10, <3>1
    <3>3. CASE j < i
      <4>1. j \in 1 .. n - 1 /\ t[j] = w[j]
        BY <1>a, <2>2, <2>3, <3>3
      <4>2. QED
        BY <3>1, <4>1
    <3>4. CASE i < j
      <4>1. j - 1 \in 1 .. n - 1 /\ t[j - 1] = w[j]
        <5>1. j - 1 \in 1 .. n - 1 /\ ~ (j - 1 < i) /\ (j - 1) + 1 = j
          BY <1>a, <2>2, <3>4
        <5>2. QED
          BY <2>3, <5>1
      <4>2. QED
        BY <3>1, <4>1
    <3>5. QED
      BY <2>2, <3>2, <3>3, <3>4
  <2>11. Len(t) <= Len(q)
    BY <1>a, <2>3
  <2>12. Stripped(t, i, q)
    BY <2>3, <2>8, <2>9, <2>10, <2>11 DEF Stripped, Increasing
  <2>13. QED
    BY <2>1, <2>12
<1>3. CASE ~ (i <= Len(w) /\ IsExt(w[i]))
  <2>1. ExtenderStep(w, i) = w
    BY <1>3 DEF ExtenderStep
  <2>2. ASSUME NEW j \in 1 .. n
        PROVE  (j <= i => ~IsExt(w[j])) /\ (j > i => w[j].at = j + (Len(q) - n))
    <3>1. /\ j <= i => j <= i - 1 \/ (j = i /\ i <= n)
          /\ j > i => j > i - 1
      BY <1>a
    <3>2. QED
      BY <1>1, <1>3, <3>1
  <2>3. Stripped(w, i, q)
    BY <1>0, <1>a, <1>1, <2>2 DEF Stripped, Increasing
  <2>4. QED
    BY <2>1, <2>3
<1>4. QED
  BY <1>2, <1>3

\* decode_remove_extenders takes the extenders and nothing else, and leaves the
\* order of the packet.
LEMMA RemoveExtendersIs ==
    ASSUME NEW q, Entries(q), Complete(q)
    PROVE  Arranges(RemoveExtenders(q), q) /\ Increasing(RemoveExtenders(q))
<1> DEFINE n == Len(q)
           r == RemoveExtenders(q)
<1>0. q \in Seq(Instr) /\ n \in Nat /\ n >= 1
  BY LenProperties DEF Entries, Complete
<1>1. PICK walk : /\ walk[0] = q
                  /\ \A i \in 1 .. n : walk[i] = ExtenderStep(walk[i - 1], i)
                  /\ r = walk[n]
  BY <1>0, ExtenderWalk
<1> DEFINE T == {i \in 0 .. n : Stripped(walk[i], i, q)}
<1>2. 0 \in T
  <2>1. \A j \in 1 .. n : q[j].at = j /\ j > 0 /\ ~ (j <= 0) /\ j + (n - n) = j
    BY <1>0 DEF Entries
  <2>2. Increasing(q)
    BY <2>1 DEF Increasing
  <2>3. \A k \in 1 .. n : \E j \in 1 .. n : q[j].at = k
    BY <2>1
  <2>4. n <= n
    BY <1>0
  <2>5. Stripped(q, 0, q)
    BY <1>0, <2>1, <2>2, <2>3, <2>4 DEF Stripped
  <2>6. QED
    BY <1>0, <1>1, <2>5
<1>3. ASSUME NEW i \in 1 .. n, i - 1 \in T
      PROVE  i \in T
  <2>1. Stripped(walk[i - 1], i - 1, q)
    BY <1>3
  <2>2. Stripped(walk[i], i, q)
    BY <1>1, <2>1, ExtenderStepStrips
  <2>3. i \in 0 .. n
    BY <1>0
  <2>4. QED
    BY <2>2, <2>3
<1>4. Stripped(r, n, q)
  <2>1. n \in Nat /\ n \in 0 .. n
    BY <1>0
  <2> HIDE DEF T, n
  <2>2. 0 .. n \subseteq T
    BY <1>2, <1>3, <2>1, InductionUpTo
  <2>3. n \in T
    BY <2>1, <2>2
  <2>4. QED
    BY <1>1, <2>3 DEF T
<1> HIDE DEF r
<1>5. /\ r \in Seq(Instr) /\ Len(r) \in Nat /\ Len(r) <= n
      /\ \A j \in 1 .. Len(r) : r[j].at \in 1 .. n /\ r[j] = q[r[j].at] /\ ~IsExt(r[j])
      /\ \A j, k \in 1 .. Len(r) : j < k => r[j].at < r[k].at
      /\ \A k \in 1 .. n : ~IsExt(q[k]) => \E j \in 1 .. Len(r) : r[j].at = k
  <2>1. r \in Seq(Instr) /\ Len(r) \in Nat /\ Len(r) <= n
    BY <1>4, LenProperties DEF Stripped
  <2>2. \A j \in 1 .. Len(r) : j <= n
    BY <1>0, <2>1
  <2>3. QED
    BY <1>4, <2>1, <2>2 DEF Stripped, Increasing
<1>6. Len(r) >= 1
  <2>1. n \in 1 .. n /\ ~IsExt(q[n])
    BY <1>0 DEF Complete
  <2>2. PICK j \in 1 .. Len(r) : r[j].at = n
    BY <1>5, <2>1
  <2>3. QED
    BY <1>5
<1>7. ASSUME NEW j \in 1 .. Len(r), EndsLoop(r[j])
      PROVE  j = Len(r)
  <2>1. r[j].at = n
    BY <1>5, <1>7 DEF Entries
  <2>2. Len(r) \in 1 .. Len(r) /\ r[Len(r)].at \in 1 .. n
    BY <1>5, <1>6
  <2>3. ~ (j < Len(r))
    <3>1. j < Len(r) => r[j].at < r[Len(r)].at
      BY <1>5, <2>2
    <3>2. QED
      BY <1>0, <2>1, <2>2, <3>1
  <2>4. QED
    BY <1>5, <2>3
<1>8. ASSUME NEW j \in 1 .. Len(r), NEW k \in 1 .. Len(r), r[j].at = r[k].at
      PROVE  j = k
  <2>1. r[j].at \in Nat /\ r[k].at \in Nat
    BY <1>0, <1>5
  <2>2. ~ (j < k) /\ ~ (k < j)
    BY <1>5, <1>8, <2>1
  <2>3. QED
    BY <1>5, <2>2
<1>9. Arranges(r, q) /\ Increasing(r)
  BY <1>5, <1>6, <1>7, <1>8 DEF Arranges, Increasing
<1>10. QED
  BY <1>9 DEF r

-----------------------------------------------------------------------------
(* What keeps its order. *)

MemoryInsns == {x \in Instr : IsMemory(x)}
BranchInsns == {x \in Instr : IsBranch(x)}

\* The instructions of a class are in the order of the encoding.
InOrder(s, C) ==
    \A i, j \in 1 .. Len(s) :
        i < j /\ s[i] \in C /\ s[j] \in C => s[i].at < s[j].at

\* There is one memory access, or two in order behind everything else.
MemoryTail(s) ==
    \A i, j \in 1 .. Len(s) :
        i < j /\ IsMemory(s[i]) /\ IsMemory(s[j]) =>
            i = LastInsn(s) - 1 /\ j = LastInsn(s) /\ s[i].at < s[j].at

ComparesFirst(s) ==
    \A i, j \in 1 .. Len(s) : i < j /\ IsCompare(s[j]) => IsCompare(s[i])

\* An instruction whose result a new-value instruction could read.
Feeds(x) == Executes(x) /\ ~IsNewValue(x) /\ ~IsRte(x)

\* Nothing that a new-value instruction could read is behind it.
NewValueAfter(s) ==
    \A i, j \in 1 .. Len(s) : Feeds(s[i]) /\ IsNewValue(s[j]) => i < j

\* A new-value instruction is behind whatever was encoded before it and writes a
\* register.
Behind(s) ==
    \A i, j \in 1 .. Len(s) :
        WritesReg(s[i]) /\ IsNewValue(s[j]) /\ s[i].at < s[j].at => i < j

\* It is still there when what moves writes none, and a new-value instruction
\* moves to the end only.
LEMMA MoveBehind ==
    ASSUME NEW s, NEW q, Arranges(s, q), Behind(s),
           NEW a \in 1 .. LastInsn(s), NEW b \in 1 .. LastInsn(s),
           ~WritesReg(s[a]), a <= b \/ ~IsNewValue(s[a])
    PROVE  Behind(SendInsnTo(s, a, b))
<1> DEFINE n == Len(s)
           t == SendInsnTo(s, a, b)
<1>1. n \in Nat /\ LastInsn(s) \in Nat /\ LastInsn(s) <= n /\ a \in 1 .. n /\ b \in 1 .. n
  BY LastInsnIs DEF Arranges
<1>2. /\ Len(t) = n
      /\ \A k \in 1 .. n : From(a, b, k) \in 1 .. n /\ t[k] = s[From(a, b, k)]
  BY MoveArranges
<1>3. \A k, l \in 1 .. n : WritesReg(s[k]) /\ IsNewValue(s[l]) /\ s[k].at < s[l].at => k < l
  BY DEF Behind
<1> HIDE DEF t
<1>4. ASSUME NEW k \in 1 .. n, NEW l \in 1 .. n,
             WritesReg(t[k]), IsNewValue(t[l]), t[k].at < t[l].at
      PROVE  k < l
  <2> DEFINE x == From(a, b, k)
             y == From(a, b, l)
  <2>1. x \in 1 .. n /\ y \in 1 .. n /\ t[k] = s[x] /\ t[l] = s[y]
    BY <1>2
  <2>2. (k = b => x = a) /\ (l = b => y = a)
    BY <1>1 DEF From
  <2> HIDE DEF x, y
  <2>3. k # b /\ x < y
    BY <1>3, <1>4, <2>1, <2>2
  <2>4. CASE l # b
    BY <1>1, <2>3, <2>4, FromKeepsOrder DEF x, y
  <2>5. CASE l = b
    <3>1. y = a /\ x < a /\ a <= b
      BY <1>4, <2>1, <2>2, <2>3, <2>5
    <3>2. k < b
      BY <1>1, <3>1 DEF x, From
    <3>3. QED
      BY <2>5, <3>2
  <2>6. QED
    BY <2>4, <2>5
<1>5. QED
  BY <1>2, <1>4 DEF Behind, t

\* A class keeps its order when an instruction that is not of it moves, or when
\* its last one goes to the end.
LEMMA MoveInOrder ==
    ASSUME NEW s, NEW q, Arranges(s, q), NEW C, InOrder(s, C),
           NEW a \in 1 .. LastInsn(s), NEW b \in 1 .. LastInsn(s),
           \/ s[a] \notin C
           \/ /\ b = LastInsn(s)
              /\ \A k \in 1 .. LastInsn(s) : s[k].at <= s[a].at
              /\ \A k \in 1 .. Len(s) : s[k] \in C => k <= LastInsn(s)
    PROVE  InOrder(SendInsnTo(s, a, b), C)
<1> DEFINE n == Len(s)
           t == SendInsnTo(s, a, b)
<1>1. /\ n \in Nat /\ LastInsn(s) \in Nat /\ LastInsn(s) <= n
      /\ a \in 1 .. n /\ b \in 1 .. n
  BY LastInsnIs DEF Arranges
<1>2. /\ Len(t) = n
      /\ \A k \in 1 .. n : From(a, b, k) \in 1 .. n /\ t[k] = s[From(a, b, k)]
  BY MoveArranges
<1>3. /\ \A k \in 1 .. n : s[k].at \in Nat
      /\ \A k, l \in 1 .. n : s[k].at = s[l].at => k = l
  BY <1>1 DEF Arranges
<1>4. \A k, l \in 1 .. n : k < l /\ s[k] \in C /\ s[l] \in C => s[k].at < s[l].at
  BY DEF InOrder
<1> HIDE DEF t
<1>5. ASSUME NEW k \in 1 .. n, NEW l \in 1 .. n, k < l, t[k] \in C, t[l] \in C
      PROVE  t[k].at < t[l].at
  <2> DEFINE x == From(a, b, k)
             y == From(a, b, l)
  <2>1. x \in 1 .. n /\ y \in 1 .. n /\ t[k] = s[x] /\ t[l] = s[y]
    BY <1>2
  <2>2. CASE k # b /\ l # b
    <3>1. x < y
      BY <1>1, <1>5, <2>2, FromKeepsOrder
    <3> HIDE DEF x, y
    <3>2. QED
      BY <1>4, <1>5, <2>1, <3>1
  <2>3. CASE k = b
    <3>1. x = a
      BY <1>1, <2>3 DEF From
    <3>2. b = LastInsn(s) /\ \A m \in 1 .. n : s[m] \in C => m <= LastInsn(s)
      BY <1>5, <2>1, <3>1
    <3>3. y = l
      BY <1>1, <1>5, <2>3, <3>2 DEF From
    <3>4. l <= LastInsn(s)
      BY <1>5, <2>1, <3>2, <3>3
    <3>5. QED
      BY <1>1, <1>5, <2>3, <3>2, <3>4
  <2>4. CASE l = b
    <3>1. y = a
      BY <1>1, <2>4 DEF From
    <3>2. b = LastInsn(s) /\ \A m \in 1 .. LastInsn(s) : s[m].at <= s[a].at
      BY <1>5, <2>1, <3>1
    <3>3. x \in 1 .. LastInsn(s) /\ x # a
      BY <1>1, <1>5, <2>4, <3>2 DEF From
    <3>4. s[x].at <= s[a].at /\ s[x].at # s[a].at
      <4> HIDE DEF x, y
      <4> QED BY <1>1, <1>3, <2>1, <3>2, <3>3
    <3>5. QED
      <4> HIDE DEF x, y
      <4> QED BY <1>1, <1>3, <2>1, <3>1, <3>4
  <2>5. QED
    BY <2>2, <2>3, <2>4
<1>6. QED
  BY <1>2, <1>5 DEF InOrder, t

\* Compares stay first when something else goes to the end.
LEMMA MoveComparesFirst ==
    ASSUME NEW s, NEW q, Arranges(s, q), ComparesFirst(s),
           NEW a \in 1 .. LastInsn(s), ~IsCompare(s[a])
    PROVE  ComparesFirst(SendInsnTo(s, a, LastInsn(s)))
<1> DEFINE n == Len(s)
           b == LastInsn(s)
           t == SendInsnTo(s, a, b)
<1>1. /\ n \in Nat /\ b \in Nat /\ b <= n
      /\ a \in 1 .. n /\ b \in 1 .. n /\ b \in 1 .. b /\ a <= b
  BY LastInsnIs DEF Arranges
<1>2. /\ Len(t) = n
      /\ \A k \in 1 .. n : From(a, b, k) \in 1 .. n /\ t[k] = s[From(a, b, k)]
  BY <1>1, MoveArranges
<1>3. \A k, l \in 1 .. n : k < l /\ IsCompare(s[l]) => IsCompare(s[k])
  BY DEF ComparesFirst
<1>4. ASSUME NEW k \in 1 .. n, k > b
      PROVE  ~IsCompare(s[k])
  <2>1. ~Executes(s[k])
    BY <1>1, <1>4, ExecutesIs
  <2>2. QED
    BY <2>1 DEF Executes, IsExt, EndsLoop, IsCompare
<1> HIDE DEF t, b
<1>5. ASSUME NEW k \in 1 .. n, NEW l \in 1 .. n, k < l, IsCompare(t[l])
      PROVE  IsCompare(t[k])
  <2> DEFINE x == From(a, b, k)
             y == From(a, b, l)
  <2>1. x \in 1 .. n /\ y \in 1 .. n /\ t[k] = s[x] /\ t[l] = s[y]
    BY <1>2
  <2>2. l # b
    <3>1. l = b => y = a
      BY <1>1 DEF From
    <3>2. QED
      BY <1>5, <2>1, <3>1
  <2>3. k # b
    <3>1. k = b => y = l /\ l > b
      BY <1>1, <1>5 DEF From
    <3>2. QED
      BY <1>4, <1>5, <2>1, <3>1
  <2>4. x < y
    BY <1>1, <1>5, <2>2, <2>3, FromKeepsOrder
  <2> HIDE DEF x, y
  <2>5. QED
    BY <1>3, <1>5, <2>1, <2>4
<1>6. ComparesFirst(t)
  BY <1>2, <1>5 DEF ComparesFirst
<1>7. QED
  BY <1>6 DEF t, b

\* So do new-value instructions behind what they read, when something else
\* goes to the end.
LEMMA MoveNewValueAfter ==
    ASSUME NEW s, NEW q, Arranges(s, q), NewValueAfter(s),
           NEW a \in 1 .. LastInsn(s), ~Feeds(s[a]), ~IsNewValue(s[a])
    PROVE  NewValueAfter(SendInsnTo(s, a, LastInsn(s)))
<1> DEFINE n == Len(s)
           b == LastInsn(s)
           t == SendInsnTo(s, a, b)
<1>1. n \in Nat /\ b \in Nat /\ b <= n /\ a \in 1 .. n /\ b \in 1 .. n /\ b \in 1 .. b
  BY LastInsnIs DEF Arranges
<1>2. /\ Len(t) = n
      /\ \A k \in 1 .. n : From(a, b, k) \in 1 .. n /\ t[k] = s[From(a, b, k)]
  BY <1>1, MoveArranges
<1>3. \A k, l \in 1 .. n : Feeds(s[k]) /\ IsNewValue(s[l]) => k < l
  BY DEF NewValueAfter
<1> HIDE DEF t, b
<1>4. ASSUME NEW k \in 1 .. n, NEW l \in 1 .. n, Feeds(t[k]), IsNewValue(t[l])
      PROVE  k < l
  <2> DEFINE x == From(a, b, k)
             y == From(a, b, l)
  <2>1. x \in 1 .. n /\ y \in 1 .. n /\ t[k] = s[x] /\ t[l] = s[y]
    BY <1>2
  <2>2. (k = b => x = a) /\ (l = b => y = a)
    BY <1>1 DEF From
  <2> HIDE DEF x, y
  <2>3. k # b /\ l # b
    BY <1>4, <2>1, <2>2
  <2>4. x < y
    BY <1>3, <1>4, <2>1
  <2>5. QED
    BY <1>1, <2>3, <2>4, FromKeepsOrder DEF x, y
<1>5. NewValueAfter(t)
  BY <1>2, <1>4 DEF NewValueAfter
<1>6. QED
  BY <1>5 DEF t, b

-----------------------------------------------------------------------------
(* The shuffle. *)

\* What both passes keep.  Where the memory accesses are is what the slots say.
Shuffled(s, q) ==
    /\ Arranges(s, q) /\ Behind(s) /\ InOrder(s, BranchInsns)
    /\ FitsSlots(q) => MemoryTail(s)

LEMMA IncreasingIsShuffled ==
    ASSUME NEW s, NEW q, Entries(q), Arranges(s, q), Increasing(s)
    PROVE  Shuffled(s, q)
<1> DEFINE n == Len(s)
           last == LastInsn(s)
<1>1. n \in Nat /\ last \in Nat /\ last <= n
  BY LastInsnIs DEF Arranges
<1>2. /\ \A k \in 1 .. n : s[k].at \in 1 .. Len(q) /\ s[k] = q[s[k].at]
      /\ \A k, l \in 1 .. n : s[k].at = s[l].at => k = l
  BY DEF Arranges
<1>3. \A k, l \in 1 .. n : k < l => s[k].at < s[l].at
  BY DEF Increasing
<1>4. ASSUME FitsSlots(q),
             NEW i \in 1 .. n, NEW j \in 1 .. n, i < j, IsMemory(s[i]), IsMemory(s[j])
      PROVE  i = last - 1 /\ j = last /\ s[i].at < s[j].at
  <2>1. s[i].at < s[j].at
    BY <1>3, <1>4
  <2>2. ASSUME NEW k \in i + 1 .. last
        PROVE  k = j
    <3>1. k \in 1 .. n /\ i < k
      BY <1>1
    <3>2. Executes(s[k])
      BY <1>1, <3>1, ExecutesIs
    <3>3. s[i].at < s[k].at
      BY <1>3, <3>1
    <3>4. /\ s[i].at \in 1 .. Len(q) /\ s[j].at \in 1 .. Len(q) /\ s[k].at \in 1 .. Len(q)
          /\ s[i] = q[s[i].at] /\ s[j] = q[s[j].at] /\ s[k] = q[s[k].at]
      BY <1>2, <3>1
    <3>5. s[k].at = s[j].at
      BY <1>4, <2>1, <3>2, <3>3, <3>4, MemoryPair
    <3>6. QED
      BY <1>2, <3>1, <3>5
  <2>3. j <= last
    <3>1. Executes(s[j])
      BY <1>4 DEF Executes, IsMemory, IsStore, IsLoad, IsExt, EndsLoop
    <3>2. QED
      BY <3>1, ExecutesIs
  <2>4. i + 1 \in i + 1 .. last /\ last \in i + 1 .. last
    BY <1>1, <1>4, <2>3
  <2>5. i + 1 = j /\ last = j
    BY <2>2, <2>4
  <2>6. QED
    BY <1>1, <2>1, <2>5
<1>5. FitsSlots(q) => MemoryTail(s)
  BY <1>4 DEF MemoryTail
<1>6. InOrder(s, BranchInsns)
  BY <1>3 DEF InOrder
<1>7. Behind(s)
  <2>1. ASSUME NEW k \in 1 .. n, NEW l \in 1 .. n, s[k].at < s[l].at
        PROVE  k < l
    <3>1. s[k].at \in Nat /\ s[l].at \in Nat
      BY <1>2
    <3>2. k # l /\ ~ (l < k)
      BY <1>3, <2>1, <3>1
    <3>3. QED
      BY <1>1, <3>2
  <2>2. QED
    BY <2>1 DEF Behind
<1>8. QED
  BY <1>5, <1>6, <1>7 DEF Shuffled

\* The walk from the end when it has passed the instruction at i: when it has
\* met something that is not a memory access, that one is not at the end of the
\* packet behind a pair of them.
StoresAt(p, i, last, q) ==
    /\ p \in [insns : Seq(Instr), flag : BOOLEAN, mems : Nat, changed : BOOLEAN]
    /\ Shuffled(p.insns, q) /\ LastInsn(p.insns) = last
    /\ p.mems + i <= last + 1
    /\ p.flag => /\ p.mems + i <= last
                 /\ \E j \in i .. last : ~IsMemory(p.insns[j])

\* A store that moves is the only memory access.
LEMMA OneMemory ==
    ASSUME NEW s, MemoryTail(s), Len(s) \in Nat, LastInsn(s) \in Nat, LastInsn(s) <= Len(s),
           NEW i \in 1 .. LastInsn(s), NEW j \in i + 1 .. LastInsn(s),
           IsMemory(s[i]), ~IsMemory(s[j]), NEW k \in 1 .. Len(s), IsMemory(s[k])
    PROVE  k = i
<1>1. i \in 1 .. Len(s)
  OBVIOUS
<1>2. \A l, m \in 1 .. Len(s) : l < m /\ IsMemory(s[l]) /\ IsMemory(s[m]) =>
          l = LastInsn(s) - 1 /\ m = LastInsn(s)
  BY DEF MemoryTail
<1>3. ~ (i < k)
  <2>1. ASSUME i < k
        PROVE  FALSE
    <3>1. i = LastInsn(s) - 1 /\ k = LastInsn(s)
      BY <1>1, <1>2, <2>1
    <3>2. j = k
      BY <3>1
    <3>3. QED
      BY <3>2
  <2>2. QED
    BY <2>1
<1>4. ~ (k < i)
  <2>1. ASSUME k < i
        PROVE  FALSE
    <3>1. i = LastInsn(s)
      BY <1>1, <1>2, <2>1
    <3>2. QED
      BY <3>1
  <2>2. QED
    BY <2>1
<1>5. QED
  BY <1>3, <1>4

LEMMA StoreMoves ==
    ASSUME NEW q, NEW s, Shuffled(s, q), NEW i \in 1 .. LastInsn(s),
           NEW b \in i + 1 .. LastInsn(s), IsStore(s[i]),
           \E j \in i + 1 .. LastInsn(s) : ~IsMemory(s[j])
    PROVE  /\ Shuffled(SendInsnTo(s, i, b), q)
           /\ LastInsn(SendInsnTo(s, i, b)) = LastInsn(s)
           /\ \E j \in i .. LastInsn(s) : ~IsMemory(SendInsnTo(s, i, b)[j])
<1> DEFINE n == Len(s)
           last == LastInsn(s)
           t == SendInsnTo(s, i, b)
<1>1. /\ n \in Nat /\ last \in Nat /\ last <= n
      /\ i \in 1 .. n /\ b \in 1 .. n /\ b \in 1 .. last /\ i < b
  BY LastInsnIs DEF Arranges, Shuffled
<1>2. /\ Arranges(s, q) /\ Behind(s) /\ InOrder(s, BranchInsns)
      /\ FitsSlots(q) => MemoryTail(s)
  BY DEF Shuffled
<1>3. /\ Arranges(t, q) /\ Len(t) = n /\ LastInsn(t) = last
      /\ \A k \in 1 .. n : From(i, b, k) \in 1 .. n /\ t[k] = s[From(i, b, k)]
  <2>1. i \in 1 .. LastInsn(s) /\ b \in 1 .. LastInsn(s)
    BY <1>1
  <2>2. Arranges(s, q)
    BY <1>2
  <2>3. QED
    BY ONLY <2>1, <2>2, MoveArranges
<1>4. InOrder(t, BranchInsns)
  <2>1. s[i] \notin BranchInsns
    BY DEF BranchInsns, IsStore, IsBranch
  <2>2. QED
    BY <1>1, <1>2, <2>1, MoveInOrder
<1>5. Behind(t)
  <2>1. ~WritesReg(s[i]) /\ i <= b
    BY <1>1 DEF IsStore, WritesReg
  <2>2. QED
    BY <1>1, <1>2, <2>1, MoveBehind
<1>6. PICK j \in i + 1 .. last : ~IsMemory(s[j])
  OBVIOUS
<1>7. ASSUME FitsSlots(q), NEW k \in 1 .. n, IsMemory(s[k])
      PROVE  k = i
  <2>1. IsMemory(s[i])
    BY DEF IsMemory
  <2>2. QED
    BY <1>1, <1>2, <1>6, <1>7, <2>1, OneMemory
<1> HIDE DEF t, last
<1>8. ASSUME FitsSlots(q), NEW k \in 1 .. n, IsMemory(t[k])
      PROVE  k = b
  <2>1. From(i, b, k) = i
    BY <1>3, <1>7, <1>8
  <2>2. QED
    BY <1>1, <2>1, FromIs
<1>9. FitsSlots(q) => MemoryTail(t)
  <2>1. ASSUME FitsSlots(q),
               NEW k \in 1 .. n, NEW l \in 1 .. n, k < l, IsMemory(t[k]), IsMemory(t[l])
        PROVE  FALSE
    <3>1. k = b /\ l = b
      BY <1>8, <2>1
    <3>2. QED
      BY <1>1, <2>1, <3>1
  <2>2. QED
    BY <1>3, <2>1 DEF MemoryTail
\* What is not a memory access and was behind the store moves up, not further
\* than to the store's place.
<1>10. \E k \in i .. last : ~IsMemory(t[k])
  <2> DEFINE k == From(b, i, j)
  <2>1. j \in 1 .. n /\ j \in Int /\ i < j /\ j <= last
    BY <1>1, <1>6
  <2>2. k \in 1 .. n /\ From(i, b, k) = j
    BY <1>1, <2>1, FromIs
  <2>3. k \in i .. last
    BY <1>1, <2>1 DEF From
  <2> HIDE DEF k
  <2>4. t[k] = s[j]
    BY <1>3, <2>2
  <2>5. QED
    BY <1>6, <2>3, <2>4
<1>11. /\ Shuffled(t, q) /\ LastInsn(t) = last
       /\ \E k \in i .. last : ~IsMemory(t[k])
  BY <1>3, <1>4, <1>5, <1>9, <1>10 DEF Shuffled
<1>12. QED
  BY <1>11 DEF t, last

LEMMA StoreStepIs ==
    ASSUME NEW q, NEW last \in Nat, NEW i \in 1 .. last, NEW p, StoresAt(p, i + 1, last, q)
    PROVE  StoresAt(StoreStep(p, i, last), i, last, q)
<1> DEFINE s == p.insns
           x == s[i]
<1>0. p \in [insns : Seq(Instr), flag : BOOLEAN, mems : Nat, changed : BOOLEAN]
  BY DEF StoresAt
<1>1. /\ Shuffled(s, q) /\ LastInsn(s) = last
      /\ p.flag \in BOOLEAN
      /\ p.mems \in Nat /\ p.mems + (i + 1) <= last + 1
      /\ p.flag => /\ p.mems + (i + 1) <= last
                   /\ \E j \in i + 1 .. last : ~IsMemory(s[j])
  BY DEF StoresAt
<1>2. i + 1 .. last \subseteq i .. last
  OBVIOUS
<1>3. CASE IsStore(x) /\ p.flag
  <2> DEFINE b == last - p.mems
             t == SendInsnTo(s, i, b)
             r == [insns |-> t, flag |-> TRUE, mems |-> p.mems + 1, changed |-> TRUE]
  <2>1. StoreStep(p, i, last) = r
    BY <1>3 DEF StoreStep
  <2>2. b \in i + 1 .. last
    BY <1>1, <1>3
  <2>3. /\ Shuffled(t, q) /\ LastInsn(t) = last
        /\ \E j \in i .. last : ~IsMemory(t[j])
    BY <1>1, <1>3, <2>2, StoreMoves
  <2> HIDE DEF t
  <2>4. /\ r.insns = t /\ r.flag = TRUE /\ r.mems = p.mems + 1
        /\ r \in [insns : Seq(Instr), flag : BOOLEAN, mems : Nat, changed : BOOLEAN]
    <3>1. t \in Seq(Instr)
      BY <2>3 DEF Shuffled, Arranges
    <3>2. QED
      BY <1>1, <3>1
  <2>5. p.mems + 1 \in Nat /\ (p.mems + 1) + i <= last /\ (p.mems + 1) + i <= last + 1
    BY <1>1, <1>3
  <2> HIDE DEF r
  <2>6. StoresAt(r, i, last, q)
    BY <2>3, <2>4, <2>5 DEF StoresAt
  <2>7. QED
    BY <2>1, <2>6
<1>4. CASE ~ (IsStore(x) /\ p.flag) /\ IsMemory(x)
  <2> DEFINE r == [p EXCEPT !.mems = p.mems + 1]
  <2>1. StoreStep(p, i, last) = r
    BY <1>4 DEF StoreStep
  <2>2. /\ r.insns = s /\ r.flag = p.flag /\ r.mems = p.mems + 1
        /\ r \in [insns : Seq(Instr), flag : BOOLEAN, mems : Nat, changed : BOOLEAN]
    BY <1>0
  <2>3. /\ (p.mems + 1) + i <= last + 1
        /\ p.flag => (p.mems + 1) + i <= last
    BY <1>1
  <2> HIDE DEF r
  <2>4. StoresAt(r, i, last, q)
    BY <1>1, <1>2, <2>2, <2>3 DEF StoresAt
  <2>5. QED
    BY <2>1, <2>4
<1>5. CASE ~IsMemory(x) /\ IsNewValue(x)
  <2>1. StoreStep(p, i, last) = p
    BY <1>5 DEF StoreStep, IsMemory
  <2>2. /\ p.mems + i <= last + 1
        /\ p.flag => p.mems + i <= last
    BY <1>1
  <2>3. StoresAt(p, i, last, q)
    BY <1>0, <1>1, <1>2, <2>2 DEF StoresAt
  <2>4. QED
    BY <2>1, <2>3
<1>6. CASE ~IsMemory(x) /\ ~IsNewValue(x)
  <2> DEFINE r == [p EXCEPT !.flag = TRUE]
  <2>1. StoreStep(p, i, last) = r
    BY <1>6 DEF StoreStep, IsMemory
  <2>2. /\ r.insns = s /\ r.flag = TRUE /\ r.mems = p.mems
        /\ r \in [insns : Seq(Instr), flag : BOOLEAN, mems : Nat, changed : BOOLEAN]
    BY <1>0
  <2>3. p.mems + i <= last + 1 /\ p.mems + i <= last /\ i \in i .. last
    BY <1>1
  <2> HIDE DEF r
  <2>4. \E j \in i .. last : ~IsMemory(s[j])
    BY <1>6, <2>3
  <2>5. StoresAt(r, i, last, q)
    BY <1>1, <2>2, <2>3, <2>4 DEF StoresAt
  <2>6. QED
    BY <2>1, <2>5
<1>7. QED
  BY <1>3, <1>4, <1>5, <1>6 DEF IsMemory

\* A store goes behind everything else.
Stays(insn) == IsMemory(insn) \/ IsNewValue(insn)

StoresLast(s) ==
    \A j, k \in 1 .. LastInsn(s) : j < k /\ IsStore(s[j]) => Stays(s[k])

\* What the walk from the end has passed has its stores last.
StoresPast(p, i, last, s) ==
    /\ p.mems > 0 => \E j \in i .. last : IsMemory(p.insns[j])
    /\ ~p.flag => \A j \in i .. last : Stays(p.insns[j])
    /\ \A j, k \in i .. last : j < k /\ IsStore(p.insns[j]) => Stays(p.insns[k])
    /\ ComparesFirst(s) => ComparesFirst(p.insns)

LEMMA StoreStepPasses ==
    ASSUME NEW q, FitsSlots(q), NEW s, NEW last \in Nat, NEW i \in 1 .. last, NEW p,
           StoresAt(p, i + 1, last, q), StoresPast(p, i + 1, last, s)
    PROVE  StoresPast(StoreStep(p, i, last), i, last, s)
<1> DEFINE u == p.insns
           x == u[i]
<1>1. /\ p \in [insns : Seq(Instr), flag : BOOLEAN, mems : Nat, changed : BOOLEAN]
      /\ Shuffled(u, q) /\ LastInsn(u) = last
      /\ p.mems \in Nat /\ p.mems + (i + 1) <= last + 1
      /\ p.flag => p.mems + (i + 1) <= last /\ \E j \in i + 1 .. last : ~IsMemory(u[j])
  BY DEF StoresAt
<1>2. /\ p.mems > 0 => \E j \in i + 1 .. last : IsMemory(u[j])
      /\ ~p.flag => \A j \in i + 1 .. last : Stays(u[j])
      /\ \A j, k \in i + 1 .. last : j < k /\ IsStore(u[j]) => Stays(u[k])
      /\ ComparesFirst(s) => ComparesFirst(u)
  BY DEF StoresPast
<1>3. /\ \A j \in i .. last : j = i \/ j \in i + 1 .. last
      /\ i + 1 .. last \subseteq i .. last /\ i \in i .. last
  OBVIOUS
<1>4. CASE IsStore(x) /\ p.flag
  <2> DEFINE b == last - p.mems
             t == SendInsnTo(u, i, b)
             r == [insns |-> t, flag |-> TRUE, mems |-> p.mems + 1, changed |-> TRUE]
             n == Len(u)
  <2>1. StoreStep(p, i, last) = r
    BY <1>4 DEF StoreStep
  <2>2. /\ Arranges(u, q) /\ MemoryTail(u) /\ n \in Nat /\ last <= n
        /\ i \in 1 .. n /\ last \in 1 .. n /\ last \in 1 .. last
    BY <1>1, LastInsnIs DEF Shuffled, Arranges
  <2>3. \A k \in 1 .. n : IsMemory(u[k]) => k = i
    <3>1. PICK j \in i + 1 .. last : ~IsMemory(u[j])
      BY <1>1, <1>4
    <3>2. IsMemory(u[i])
      BY <1>4 DEF IsMemory
    <3> HIDE DEF u
    <3>3. QED
      BY <1>1, <2>2, <3>1, <3>2, OneMemory
  <2>4. b = last
    <3>1. \A j \in i + 1 .. last : j \in 1 .. n /\ j # i
      BY <2>2
    <3>2. ~ (p.mems > 0)
      BY <1>2, <2>3, <3>1
    <3>3. QED
      BY <1>1, <3>2
  <2>5. \A k \in 1 .. n : From(i, last, k) \in 1 .. n /\ t[k] = u[From(i, last, k)]
    <3>1. t = SendInsnTo(u, i, last) /\ i \in 1 .. LastInsn(u) /\ last \in 1 .. LastInsn(u)
      BY <1>1, <2>2, <2>4
    <3> HIDE DEF t, u
    <3>2. QED
      BY <2>2, <3>1, MoveArranges
  <2>6. ComparesFirst(s) => ComparesFirst(t)
    <3>1. ~IsCompare(x)
      BY <1>4 DEF IsStore, IsCompare
    <3>2. QED
      BY <1>1, <1>2, <2>2, <2>4, <3>1, MoveComparesFirst
  <2> HIDE DEF t
  <2>7. \A k \in 1 .. n : IsMemory(t[k]) <=> k = last
    <3>1. ASSUME NEW k \in 1 .. n
          PROVE  From(i, last, k) = i <=> k = last
      <4>1. n \in Nat /\ i \in 1 .. last /\ last \in 1 .. n
        BY <2>2
      <4> HIDE DEF n
      <4>2. QED
        BY <4>1 DEF From
    <3>2. IsMemory(u[i])
      BY <1>4 DEF IsMemory
    <3>3. QED
      BY <2>2, <2>3, <2>5, <3>1, <3>2
  <2>8. ASSUME NEW j \in i .. last, NEW k \in i .. last, j < k, IsStore(t[j])
        PROVE  FALSE
    <3>1. j \in 1 .. n /\ j # last
      BY <2>2, <2>8
    <3>2. QED
      BY <2>7, <2>8, <3>1 DEF IsMemory
  <2>9. last \in i .. last /\ IsMemory(t[last])
    BY <2>2, <2>7
  <2>10. r.insns = t /\ r.flag = TRUE
    OBVIOUS
  <2> HIDE DEF r
  <2>11. StoresPast(r, i, last, s)
    BY <2>6, <2>8, <2>9, <2>10 DEF StoresPast
  <2>12. QED
    BY <2>1, <2>11
<1>5. CASE ~ (IsStore(x) /\ p.flag) /\ IsMemory(x)
  <2> DEFINE r == [p EXCEPT !.mems = p.mems + 1]
  <2>1. StoreStep(p, i, last) = r
    BY <1>5 DEF StoreStep
  <2>2. r.insns = u /\ r.flag = p.flag
    BY <1>1
  <2> HIDE DEF r
  <2>3. ~p.flag => \A j \in i .. last : Stays(u[j])
    BY <1>2, <1>3, <1>5 DEF Stays
  <2>4. ASSUME NEW j \in i .. last, NEW k \in i .. last, j < k, IsStore(u[j])
        PROVE  Stays(u[k])
    <3>1. CASE j = i
      BY <1>5, <2>3, <2>4, <3>1
    <3>2. CASE j # i
      <4>1. j \in i + 1 .. last /\ k \in i + 1 .. last
        BY <2>4, <3>2
      <4>2. QED
        BY <1>2, <2>4, <4>1
    <3>3. QED
      BY <3>1, <3>2
  <2>5. StoresPast(r, i, last, s)
    BY <1>2, <1>3, <1>5, <2>2, <2>3, <2>4 DEF StoresPast
  <2>6. QED
    BY <2>1, <2>5
<1>6. ASSUME ~IsMemory(x)
      PROVE  \A j, k \in i .. last : j < k /\ IsStore(u[j]) => Stays(u[k])
  <2> SUFFICES ASSUME NEW j \in i .. last, NEW k \in i .. last, j < k, IsStore(u[j])
               PROVE  Stays(u[k])
    OBVIOUS
  <2>1. j # i
    BY <1>6 DEF IsMemory
  <2>2. j \in i + 1 .. last /\ k \in i + 1 .. last
    BY <2>1
  <2>3. QED
    BY <1>2, <2>2
<1>7. CASE ~IsMemory(x) /\ IsNewValue(x)
  <2>1. StoreStep(p, i, last) = p
    BY <1>7 DEF StoreStep, IsMemory
  <2>2. ~p.flag => \A j \in i .. last : Stays(u[j])
    BY <1>2, <1>3, <1>7 DEF Stays
  <2>3. StoresPast(p, i, last, s)
    BY <1>2, <1>3, <1>6, <1>7, <2>2 DEF StoresPast
  <2>4. QED
    BY <2>1, <2>3
<1>8. CASE ~IsMemory(x) /\ ~IsNewValue(x)
  <2> DEFINE r == [p EXCEPT !.flag = TRUE]
  <2>1. StoreStep(p, i, last) = r
    BY <1>8 DEF StoreStep, IsMemory
  <2>2. r.insns = u /\ r.flag = TRUE /\ r.mems = p.mems
    BY <1>1
  <2> HIDE DEF r
  <2>3. StoresPast(r, i, last, s)
    BY <1>2, <1>3, <1>6, <1>8, <2>2 DEF StoresPast
  <2>4. QED
    BY <2>1, <2>3
<1>9. QED
  BY <1>4, <1>5, <1>7, <1>8 DEF IsMemory

\* Neither memory accesses, if they are where the slots want them, nor branches
\* overtake one another when stores go behind what is not a memory access, and
\* after one walk they are there.
LEMMA ShuffleStoresIs ==
    ASSUME NEW q, NEW s, Shuffled(s, q)
    PROVE  /\ Shuffled(ShuffleStores(s).insns, q)
           /\ FitsSlots(q) =>
                 /\ StoresLast(ShuffleStores(s).insns)
                 /\ ComparesFirst(s) => ComparesFirst(ShuffleStores(s).insns)
<1> DEFINE last == LastInsn(s)
<1>1. s \in Seq(Instr) /\ last \in Nat
  BY LastInsnIs DEF Shuffled, Arranges
<1>2. PICK walk : /\ walk[last + 1] = [insns |-> s, flag |-> FALSE, mems |-> 0, changed |-> FALSE]
                  /\ \A i \in 1 .. last : walk[i] = StoreStep(walk[i + 1], i, last)
                  /\ ShuffleStores(s) = walk[1]
  BY <1>1, StoreWalk
<1> DEFINE T == {m \in 0 .. last : /\ StoresAt(walk[last + 1 - m], last + 1 - m, last, q)
                                   /\ FitsSlots(q) => StoresPast(walk[last + 1 - m], last + 1 - m, last, s)}
<1>3. 0 \in T
  <2> DEFINE p == walk[last + 1]
  <2>1. /\ p.insns = s /\ p.flag = FALSE /\ p.mems = 0
        /\ p \in [insns : Seq(Instr), flag : BOOLEAN, mems : Nat, changed : BOOLEAN]
    BY <1>1, <1>2
  <2> HIDE DEF p
  <2>2. 0 + (last + 1) <= last + 1 /\ 0 \in 0 .. last /\ last + 1 - 0 = last + 1
    BY <1>1
  <2>3. StoresAt(p, last + 1, last, q)
    BY <2>1, <2>2 DEF StoresAt
  <2>4. last + 1 .. last = {}
    BY <1>1
  <2>5. StoresPast(p, last + 1, last, s)
    BY <2>1, <2>4 DEF StoresPast
  <2>6. QED
    BY <2>2, <2>3, <2>5 DEF p
<1>4. ASSUME NEW m \in 1 .. last, m - 1 \in T
      PROVE  m \in T
  <2> DEFINE i == last + 1 - m
  <2>1. i \in 1 .. last /\ last + 1 - (m - 1) = i + 1 /\ m \in 0 .. last
    BY <1>1
  <2>2. /\ StoresAt(walk[i + 1], i + 1, last, q)
        /\ FitsSlots(q) => StoresPast(walk[i + 1], i + 1, last, s)
    BY <1>4, <2>1
  <2> HIDE DEF i
  <2>3. StoresAt(walk[i], i, last, q)
    BY <1>1, <1>2, <2>1, <2>2, StoreStepIs
  <2>4. FitsSlots(q) => StoresPast(walk[i], i, last, s)
    BY <1>1, <1>2, <2>1, <2>2, StoreStepPasses
  <2>5. QED
    BY <2>1, <2>3, <2>4 DEF i
<1>5. StoresAt(walk[1], 1, last, q) /\ (FitsSlots(q) => StoresPast(walk[1], 1, last, s))
  <2>1. last \in 0 .. last /\ last + 1 - last = 1
    BY <1>1
  <2> HIDE DEF T, last
  <2>2. 0 .. last \subseteq T
    BY <1>1, <1>3, <1>4, InductionUpTo
  <2>3. QED
    BY <2>1, <2>2 DEF T
<1>6. QED
  BY <1>2, <1>5 DEF StoresAt, StoresPast, StoresLast

\* Once they are, they stay.
LEMMA StoresStay ==
    ASSUME NEW q, NEW s, Shuffled(s, q), StoresLast(s)
    PROVE  ShuffleStores(s).insns = s
<1> DEFINE last == LastInsn(s)
           Rec == [insns : Seq(Instr), flag : BOOLEAN, mems : Nat, changed : BOOLEAN]
<1>1. s \in Seq(Instr) /\ last \in Nat
  BY LastInsnIs DEF Shuffled, Arranges
<1>2. PICK walk : /\ walk[last + 1] = [insns |-> s, flag |-> FALSE, mems |-> 0, changed |-> FALSE]
                  /\ \A i \in 1 .. last : walk[i] = StoreStep(walk[i + 1], i, last)
                  /\ ShuffleStores(s) = walk[1]
  BY <1>1, StoreWalk
<1> DEFINE Still(p, i) == /\ p \in Rec /\ p.insns = s
                          /\ p.flag => \E j \in i .. last : ~Stays(s[j])
           T == {m \in 0 .. last : Still(walk[last + 1 - m], last + 1 - m)}
<1>3. 0 \in T
  <2>1. 0 \in 0 .. last /\ last + 1 - 0 = last + 1
    BY <1>1
  <2>2. walk[last + 1] \in Rec /\ walk[last + 1].insns = s /\ walk[last + 1].flag = FALSE
    BY <1>1, <1>2
  <2>3. Still(walk[last + 1], last + 1)
    BY <2>2
  <2> HIDE DEF Still
  <2>4. QED
    BY <2>1, <2>3
<1>4. ASSUME NEW i \in 1 .. last, NEW p, Still(p, i + 1)
      PROVE  Still(StoreStep(p, i, last), i)
  <2>1. p \in Rec /\ p.insns = s /\ (p.flag => \E j \in i + 1 .. last : ~Stays(s[j]))
    BY <1>4
  <2>2. i + 1 .. last \subseteq i .. last /\ i \in i .. last /\ i \in 1 .. last
        /\ \A j \in i + 1 .. last : j \in 1 .. last /\ i < j
    BY <1>1
  <2>3. ~ (IsStore(s[i]) /\ p.flag)
    BY <2>1, <2>2 DEF StoresLast
  <2>4. CASE IsMemory(s[i])
    <3>1. StoreStep(p, i, last) = [p EXCEPT !.mems = p.mems + 1]
      BY <2>1, <2>3, <2>4 DEF StoreStep
    <3>2. /\ StoreStep(p, i, last) \in Rec /\ StoreStep(p, i, last).insns = s
          /\ StoreStep(p, i, last).flag = p.flag
      BY <2>1, <3>1
    <3>3. QED
      BY <2>1, <2>2, <3>2
  <2>5. CASE ~IsMemory(s[i]) /\ IsNewValue(s[i])
    <3>1. StoreStep(p, i, last) = p
      BY <2>1, <2>5 DEF StoreStep, IsMemory
    <3>2. QED
      BY <2>1, <2>2, <3>1
  <2>6. CASE ~Stays(s[i])
    <3>1. StoreStep(p, i, last) = [p EXCEPT !.flag = TRUE]
      BY <2>1, <2>6 DEF StoreStep, IsMemory, Stays
    <3>2. StoreStep(p, i, last) \in Rec /\ StoreStep(p, i, last).insns = s
      BY <2>1, <3>1
    <3>3. QED
      BY <2>2, <2>6, <3>2
  <2>7. QED
    BY <2>4, <2>5, <2>6 DEF Stays
<1>5. ASSUME NEW m \in 1 .. last, m - 1 \in T
      PROVE  m \in T
  <2> DEFINE i == last + 1 - m
  <2>1. i \in 1 .. last /\ last + 1 - (m - 1) = i + 1 /\ m \in 0 .. last
    BY <1>1
  <2> HIDE DEF Still
  <2>2. Still(walk[i + 1], i + 1)
    BY <1>5, <2>1
  <2> HIDE DEF i
  <2>3. Still(walk[i], i)
    BY <1>2, <1>4, <2>1, <2>2
  <2>4. QED
    BY <2>1, <2>3 DEF i
<1>6. Still(walk[1], 1)
  <2>1. last \in 0 .. last /\ last + 1 - last = 1
    BY <1>1
  <2> HIDE DEF T, last
  <2>2. 0 .. last \subseteq T
    BY <1>1, <1>3, <1>5, InductionUpTo
  <2> HIDE DEF Still
  <2>3. QED
    BY <2>1, <2>2 DEF T
<1>7. QED
  BY <1>2, <1>6

-----------------------------------------------------------------------------
\* The walk from the front when it has passed the instruction at i: the compares
\* that it has passed are at the front.
ComparesAt(p, i, s, q) ==
    /\ p \in [insns : Seq(Instr), flag : BOOLEAN, changed : BOOLEAN]
    /\ Shuffled(p.insns, q) /\ LastInsn(p.insns) = LastInsn(s)
    /\ \A j \in 1 .. i, k \in 1 .. i : k < j /\ IsCompare(p.insns[j]) => IsCompare(p.insns[k])
    /\ ~p.flag => \A j \in 1 .. i : IsCompare(p.insns[j])
    /\ ~p.changed => p.insns = s

LEMMA CompareMoves ==
    ASSUME NEW q, NEW s, Shuffled(s, q), NEW i \in 1 .. LastInsn(s), IsCompare(s[i])
    PROVE  Shuffled(SendInsnTo(s, i, 1), q) /\ LastInsn(SendInsnTo(s, i, 1)) = LastInsn(s)
<1> DEFINE n == Len(s)
           last == LastInsn(s)
           t == SendInsnTo(s, i, 1)
<1>1. /\ n \in Nat /\ last \in Nat /\ last <= n
      /\ i \in 1 .. n /\ 1 \in 1 .. n /\ 1 \in 1 .. last
  BY LastInsnIs DEF Arranges, Shuffled
<1>2. /\ Arranges(s, q) /\ Behind(s) /\ InOrder(s, BranchInsns)
      /\ FitsSlots(q) => MemoryTail(s)
  BY DEF Shuffled
<1>3. /\ Arranges(t, q) /\ Len(t) = n /\ LastInsn(t) = last
      /\ \A k \in 1 .. n : From(i, 1, k) \in 1 .. n /\ t[k] = s[From(i, 1, k)]
  BY <1>1, <1>2, MoveArranges
<1>4. InOrder(t, BranchInsns)
  <2>1. s[i] \notin BranchInsns
    BY DEF BranchInsns, IsCompare, IsBranch
  <2>2. QED
    BY <1>1, <1>2, <2>1, MoveInOrder
<1>5. FitsSlots(q) => \A k, l \in 1 .. n : k < l /\ IsMemory(s[k]) /\ IsMemory(s[l]) =>
          k = last - 1 /\ l = last /\ s[k].at < s[l].at
  BY <1>2 DEF MemoryTail
<1>6. ~IsMemory(s[i])
  BY DEF IsMemory, IsStore, IsLoad, IsCompare
<1> HIDE DEF t, last, n
<1>6a. Behind(t)
  <2>1. ~WritesReg(s[i]) /\ ~IsNewValue(s[i])
    BY DEF WritesReg, IsNewValue, IsCompare
  <2>2. QED
    BY <1>1, <1>2, <2>1, MoveBehind DEF t, last
<1>7. ASSUME FitsSlots(q),
             NEW k \in 1 .. n, NEW l \in 1 .. n, k < l, IsMemory(t[k]), IsMemory(t[l])
      PROVE  k = last - 1 /\ l = last /\ t[k].at < t[l].at
  <2> DEFINE x == From(i, 1, k)
             y == From(i, 1, l)
  <2>1. x \in 1 .. n /\ y \in 1 .. n /\ t[k] = s[x] /\ t[l] = s[y]
    BY <1>3
  <2>2. k # 1 /\ l # 1
    <3>1. (k = 1 => x = i) /\ (l = 1 => y = i)
      BY <1>1 DEF From
    <3> HIDE DEF x, y
    <3>2. QED
      BY <1>6, <1>7, <2>1, <3>1
  <2>3. x < y
    BY <1>1, <1>7, <2>2, FromKeepsOrder
  <2>4. x = last - 1 /\ y = last /\ s[x].at < s[y].at
    <3> HIDE DEF x, y
    <3> QED BY <1>5, <1>7, <2>1, <2>3
  <2>5. i # last - 1 /\ i # last
    BY <1>6, <1>7, <2>1, <2>4
  <2>6. k = last - 1 /\ l = last
    <3>1. i < last - 1
      <4>1. i <= last
        BY <1>1 DEF last
      <4>2. QED
        BY <1>1, <2>5, <4>1
    <3>2. QED
      BY <1>1, <2>2, <2>4, <3>1 DEF From
  <2>7. QED
    BY <2>1, <2>4, <2>6
<1>8. FitsSlots(q) => MemoryTail(t)
  BY <1>3, <1>7 DEF MemoryTail
<1>9. Shuffled(t, q) /\ LastInsn(t) = last
  BY <1>3, <1>4, <1>6a, <1>8 DEF Shuffled
<1>10. QED
  BY <1>9 DEF t, last

LEMMA CompareStepIs ==
    ASSUME NEW q, NEW s, LastInsn(s) \in Nat, NEW i \in 1 .. LastInsn(s), NEW p,
           ComparesAt(p, i - 1, s, q)
    PROVE  ComparesAt(CompareStep(p, i), i, s, q)
<1> DEFINE u == p.insns
           x == u[i]
           Rec == [insns : Seq(Instr), flag : BOOLEAN, changed : BOOLEAN]
<1>1. /\ p \in Rec /\ Shuffled(u, q) /\ LastInsn(u) = LastInsn(s)
      /\ \A j \in 1 .. i - 1, k \in 1 .. i - 1 : k < j /\ IsCompare(u[j]) => IsCompare(u[k])
      /\ ~p.flag => \A j \in 1 .. i - 1 : IsCompare(u[j])
      /\ ~p.changed => u = s
  BY DEF ComparesAt
<1>2. /\ \A j \in 1 .. i : j = i \/ j \in 1 .. i - 1
      /\ \A j \in 1 .. i, k \in 1 .. i : k < j => k \in 1 .. i - 1
  OBVIOUS
<1>3. CASE ~IsCompare(x)
  <2> DEFINE r == [p EXCEPT !.flag = TRUE]
  <2>1. CompareStep(p, i) = r
    BY <1>3 DEF CompareStep
  <2>2. r \in Rec /\ r.insns = u /\ r.flag = TRUE /\ r.changed = p.changed
    BY <1>1
  <2> HIDE DEF r
  <2>3. ASSUME NEW j \in 1 .. i, NEW k \in 1 .. i, k < j, IsCompare(u[j])
        PROVE  IsCompare(u[k])
    <3>1. j # i
      BY <1>3, <2>3
    <3>2. j \in 1 .. i - 1 /\ k \in 1 .. i - 1
      BY <1>2, <2>3, <3>1
    <3>3. QED
      BY <1>1, <2>3, <3>2
  <2>4. ComparesAt(r, i, s, q)
    BY <1>1, <2>2, <2>3 DEF ComparesAt
  <2>5. QED
    BY <2>1, <2>4
<1>4. CASE IsCompare(x) /\ p.flag
  <2> DEFINE t == SendInsnTo(u, i, 1)
             r == [insns |-> t, flag |-> TRUE, changed |-> TRUE]
  <2>1. CompareStep(p, i) = r
    BY <1>4 DEF CompareStep
  <2>2. Shuffled(t, q) /\ LastInsn(t) = LastInsn(s)
    BY <1>1, <1>4, CompareMoves
  <2>3. /\ \A k \in 1 .. i : t[k] = u[From(i, 1, k)]
    <3> HIDE DEF u
    <3>1. Arranges(u, q) /\ i \in 1 .. LastInsn(u)
      BY <1>1 DEF Shuffled
    <3>2. LastInsn(u) \in Nat /\ Len(u) \in Nat /\ LastInsn(u) <= Len(u)
      BY <3>1, LastInsnIs DEF Arranges
    <3> DEFINE last == LastInsn(u)
               len == Len(u)
    <3>3. last \in Nat /\ len \in Nat /\ last <= len /\ i \in 1 .. last
      BY <3>1, <3>2
    <3> HIDE DEF last, len
    <3>4. 1 \in 1 .. last /\ \A k \in 1 .. i : k \in 1 .. len
      BY <3>3
    <3>5. 1 \in 1 .. LastInsn(u) /\ \A k \in 1 .. i : k \in 1 .. Len(u)
      BY <3>4 DEF last, len
    <3>6. QED
      BY <3>1, <3>5, MoveArranges
  <2> HIDE DEF t
  <2>4. t[1] = x /\ \A k \in 2 .. i : t[k] = u[k - 1] /\ k - 1 \in 1 .. i - 1
    <3>1. From(i, 1, 1) = i /\ \A k \in 2 .. i : From(i, 1, k) = k - 1 /\ k - 1 \in 1 .. i - 1
      BY DEF From
    <3>2. 1 \in 1 .. i /\ \A k \in 2 .. i : k \in 1 .. i
      OBVIOUS
    <3>3. QED
      BY <2>3, <3>1, <3>2
  <2>5. ASSUME NEW j \in 1 .. i, NEW k \in 1 .. i, k < j, IsCompare(t[j])
        PROVE  IsCompare(t[k])
    <3>1. CASE k = 1
      BY <1>4, <2>4, <3>1
    <3>2. CASE k # 1
      <4>1. /\ j \in 2 .. i /\ k \in 2 .. i /\ k - 1 < j - 1
            /\ j - 1 \in 1 .. i - 1 /\ k - 1 \in 1 .. i - 1
        BY <2>5, <3>2
      <4>2. IsCompare(u[j - 1])
        BY <2>4, <2>5, <4>1
      <4>3. IsCompare(u[k - 1])
        BY <1>1, <4>1, <4>2
      <4>4. QED
        BY <2>4, <4>1, <4>3
    <3>3. QED
      BY <3>1, <3>2
  <2>6. r \in Rec /\ r.insns = t /\ r.flag = TRUE /\ r.changed = TRUE
    BY <2>2 DEF Shuffled, Arranges
  <2> HIDE DEF r
  <2>7. ComparesAt(r, i, s, q)
    BY <2>2, <2>5, <2>6 DEF ComparesAt
  <2>8. QED
    BY <2>1, <2>7
<1>5. CASE IsCompare(x) /\ ~p.flag
  <2>1. CompareStep(p, i) = p
    BY <1>5 DEF CompareStep
  <2>2. \A j \in 1 .. i : IsCompare(u[j])
    BY <1>1, <1>2, <1>5
  <2>3. ComparesAt(p, i, s, q)
    BY <1>1, <2>2 DEF ComparesAt
  <2>4. QED
    BY <2>1, <2>3
<1>6. p.flag \in BOOLEAN
  BY <1>1
<1>7. QED
  BY <1>3, <1>4, <1>5, <1>6

\* The same for compares that go to the front, all of which are there after
\* one walk.
LEMMA ShuffleComparesIs ==
    ASSUME NEW q, NEW s, Shuffled(s, q)
    PROVE  /\ Shuffled(ShuffleCompares(s).insns, q)
           /\ ComparesFirst(ShuffleCompares(s).insns)
           /\ ~ShuffleCompares(s).changed => ShuffleCompares(s).insns = s
<1> DEFINE last == LastInsn(s)
<1>1. /\ s \in Seq(Instr) /\ last \in Nat /\ last <= Len(s) /\ Len(s) \in Nat
      /\ Arranges(s, q)
  BY LastInsnIs DEF Shuffled, Arranges
<1>2. PICK walk : /\ walk[0] = [insns |-> s, flag |-> FALSE, changed |-> FALSE]
                  /\ \A i \in 1 .. last : walk[i] = CompareStep(walk[i - 1], i)
                  /\ ShuffleCompares(s) = walk[last]
  BY <1>1, CompareWalk
<1> DEFINE T == {i \in 0 .. last : ComparesAt(walk[i], i, s, q)}
<1>3. 0 \in T
  <2> DEFINE p == walk[0]
  <2>1. /\ p.insns = s /\ p.flag = FALSE /\ p.changed = FALSE
        /\ p \in [insns : Seq(Instr), flag : BOOLEAN, changed : BOOLEAN]
    BY <1>1, <1>2
  <2> HIDE DEF p
  <2>2. 0 \in 0 .. last /\ 1 .. 0 = {}
    BY <1>1
  <2>3. ComparesAt(p, 0, s, q)
    BY <2>1, <2>2 DEF ComparesAt
  <2>4. QED
    BY <2>2, <2>3 DEF p
<1>4. ASSUME NEW i \in 1 .. last, i - 1 \in T
      PROVE  i \in T
  <2>1. ComparesAt(walk[i - 1], i - 1, s, q)
    BY <1>4
  <2>2. ComparesAt(walk[i], i, s, q)
    BY <1>1, <1>2, <2>1, CompareStepIs
  <2>3. i \in 0 .. last
    BY <1>1
  <2>4. QED
    BY <2>2, <2>3
<1>5. ComparesAt(walk[last], last, s, q)
  <2>1. last \in 0 .. last
    BY <1>1
  <2> HIDE DEF T, last
  <2>2. 0 .. last \subseteq T
    BY <1>1, <1>3, <1>4, InductionUpTo
  <2>3. QED
    BY <2>1, <2>2 DEF T
<1> DEFINE t == walk[last].insns
<1>6. ComparesFirst(t)
  <2>1. /\ LastInsn(t) = last /\ Arranges(t, q)
        /\ \A j \in 1 .. last, k \in 1 .. last : k < j /\ IsCompare(t[j]) => IsCompare(t[k])
    BY <1>5 DEF ComparesAt, Shuffled
  <2> HIDE DEF t
  <2>2. ASSUME NEW j \in 1 .. Len(t), IsCompare(t[j])
        PROVE  j \in 1 .. last
    <3>1. Executes(t[j])
      BY <2>2 DEF Executes, IsCompare, IsExt, EndsLoop
    <3>2. j <= last
      BY <2>1, <3>1, ExecutesIs
    <3>3. QED
      BY <1>1, <3>2
  <2>3. ASSUME NEW k \in 1 .. Len(t), NEW j \in 1 .. Len(t), k < j, IsCompare(t[j])
        PROVE  IsCompare(t[k])
    <3>1. j \in 1 .. last
      BY <2>2, <2>3
    <3>2. k \in 1 .. last
      BY <1>1, <2>3, <3>1
    <3>3. QED
      BY <2>1, <2>3, <3>1, <3>2
  <2>4. QED
    BY <2>3 DEF ComparesFirst
<1>7. QED
  BY <1>2, <1>5, <1>6 DEF ComparesAt

\* And there they stay.
LEMMA ComparesStay ==
    ASSUME NEW q, NEW s, Shuffled(s, q), ComparesFirst(s)
    PROVE  ShuffleCompares(s).insns = s
<1> DEFINE last == LastInsn(s)
           Rec == [insns : Seq(Instr), flag : BOOLEAN, changed : BOOLEAN]
<1>1. s \in Seq(Instr) /\ last \in Nat /\ last <= Len(s) /\ Len(s) \in Nat
  BY LastInsnIs DEF Shuffled, Arranges
<1>2. PICK walk : /\ walk[0] = [insns |-> s, flag |-> FALSE, changed |-> FALSE]
                  /\ \A i \in 1 .. last : walk[i] = CompareStep(walk[i - 1], i)
                  /\ ShuffleCompares(s) = walk[last]
  BY <1>1, CompareWalk
<1> DEFINE Still(p, i) == /\ p \in Rec /\ p.insns = s
                          /\ p.flag => \E j \in 1 .. i : ~IsCompare(s[j])
           T == {i \in 0 .. last : Still(walk[i], i)}
<1>3. 0 \in T
  <2>1. 0 \in 0 .. last
    BY <1>1
  <2>2. walk[0] \in Rec /\ walk[0].insns = s /\ walk[0].flag = FALSE
    BY <1>1, <1>2
  <2>3. Still(walk[0], 0)
    BY <2>2
  <2> HIDE DEF Still
  <2>4. QED
    BY <2>1, <2>3
<1>4. ASSUME NEW i \in 1 .. last, NEW p, Still(p, i - 1)
      PROVE  Still(CompareStep(p, i), i)
  <2>1. p \in Rec /\ p.insns = s /\ (p.flag => \E j \in 1 .. i - 1 : ~IsCompare(s[j]))
    BY <1>4
  <2>2. 1 .. i - 1 \subseteq 1 .. i /\ i \in 1 .. i /\ i \in 1 .. Len(s)
        /\ \A j \in 1 .. i - 1 : j \in 1 .. Len(s) /\ j < i
    BY <1>1
  <2>3. CASE ~IsCompare(s[i])
    <3>1. CompareStep(p, i) = [p EXCEPT !.flag = TRUE]
      BY <2>1, <2>3 DEF CompareStep
    <3>2. CompareStep(p, i) \in Rec /\ CompareStep(p, i).insns = s
      BY <2>1, <3>1
    <3>3. QED
      BY <2>2, <2>3, <3>2
  <2>4. CASE IsCompare(s[i])
    <3>1. ~p.flag
      BY <2>1, <2>2, <2>4 DEF ComparesFirst
    <3>2. CompareStep(p, i) = p
      BY <2>1, <2>4, <3>1 DEF CompareStep
    <3>3. QED
      BY <2>1, <3>1, <3>2
  <2>5. QED
    BY <2>3, <2>4
<1>5. ASSUME NEW i \in 1 .. last, i - 1 \in T
      PROVE  i \in T
  <2> HIDE DEF Still
  <2>1. Still(walk[i - 1], i - 1) /\ i \in 0 .. last
    BY <1>1, <1>5
  <2>2. Still(walk[i], i)
    BY <1>2, <1>4, <2>1
  <2>3. QED
    BY <2>1, <2>2
<1>6. Still(walk[last], last)
  <2>1. last \in 0 .. last
    BY <1>1
  <2> HIDE DEF T, last
  <2>2. 0 .. last \subseteq T
    BY <1>1, <1>3, <1>5, InductionUpTo
  <2> HIDE DEF Still
  <2>3. QED
    BY <2>1, <2>2 DEF T
<1>7. QED
  BY <1>2, <1>6

-----------------------------------------------------------------------------
(* The last moves. *)

\* What they leave for the split.
Settled(s, q) ==
    /\ Arranges(s, q) /\ ComparesFirst(s) /\ Behind(s)
    /\ FitsSlots(q) =>
          /\ InOrder(s, MemoryInsns) /\ InOrder(s, BranchInsns)
          /\ NewValueAfter(s)

LEMMA LeastOf ==
    ASSUME NEW S \in SUBSET Nat, S # {}
    PROVE  (CHOOSE i \in S : \A j \in S : i <= j) \in S
<1>1. \E i \in S : \A j \in S : i <= j
  BY LeastExists
<1>2. QED
  BY <1>1

LEMMA NewValueLastIs ==
    ASSUME NEW q, NEW s, Entries(q), Shuffled(s, q), ComparesFirst(s)
    PROVE  Settled(NewValueLast(s), q)
<1> DEFINE n == Len(s)
           last == LastInsn(s)
           picks == {i \in 1 .. last - 1 : IsNewValue(s[i])}
           a == CHOOSE i \in picks : \A j \in picks : i <= j
           t == SendInsnTo(s, a, last)
<1>1. /\ Arranges(s, q) /\ Behind(s) /\ InOrder(s, BranchInsns)
      /\ FitsSlots(q) => MemoryTail(s)
  BY DEF Shuffled
<1>2. n \in Nat /\ last \in Nat /\ last <= n
  BY <1>1, LastInsnIs DEF Arranges
<1>3. NewValueLast(s) = IF picks = {} THEN s ELSE t
  BY DEF NewValueLast, FirstToLast
<1>4. FitsSlots(q) => InOrder(s, MemoryInsns)
  BY <1>1 DEF MemoryTail, InOrder, MemoryInsns
<1>5. \A k \in 1 .. n : Feeds(s[k]) \/ IsNewValue(s[k]) \/ IsMemory(s[k]) \/ IsBranch(s[k]) =>
          Executes(s[k]) /\ k <= last
  <2>1. ASSUME NEW k \in 1 .. n,
               Feeds(s[k]) \/ IsNewValue(s[k]) \/ IsMemory(s[k]) \/ IsBranch(s[k])
        PROVE  Executes(s[k])
    BY <2>1 DEF Feeds, IsNewValue, IsMemory, IsStore, IsLoad, IsBranch, Executes, IsExt, EndsLoop
  <2>2. QED
    BY <1>1, <2>1, ExecutesIs
<1>6. \A k \in 1 .. n : ~ (Feeds(s[k]) /\ IsNewValue(s[k]))
  BY DEF Feeds, IsNewValue
<1>7. CASE picks = {}
  <2>1. ASSUME NEW k \in 1 .. n, NEW l \in 1 .. n, Feeds(s[k]), IsNewValue(s[l])
        PROVE  k < l
    <3>1. k <= last /\ l <= last /\ k # l
      BY <1>5, <1>6, <2>1
    <3>2. l \notin 1 .. last - 1
      BY <1>7, <2>1
    <3>3. QED
      BY <1>2, <3>1, <3>2
  <2>2. NewValueAfter(s)
    BY <2>1 DEF NewValueAfter
  <2>3. Settled(s, q)
    BY <1>1, <1>4, <2>2 DEF Settled
  <2>4. QED
    BY <1>3, <1>7, <2>3
<1>8. CASE picks # {}
  <2>1. a \in picks
    <3>1. picks \in SUBSET Nat
      OBVIOUS
    <3> HIDE DEF picks
    <3>2. QED
      BY <1>8, <3>1, LeastOf
  <2>2. /\ a \in 1 .. last - 1 /\ IsNewValue(s[a]) /\ a \in 1 .. last /\ a \in 1 .. n
        /\ last \in 1 .. last /\ last \in 1 .. n
    BY <1>2, <2>1
  <2>3. NewValueLast(s) = t
    BY <1>3, <1>8
  <2> HIDE DEF a, picks
  <2>4. \A k \in 1 .. n : s[k].at \in 1 .. Len(q) /\ s[k] = q[s[k].at]
    BY <1>1 DEF Arranges
  <2>5. ASSUME FitsSlots(q), NEW k \in 1 .. n, Executes(s[k])
        PROVE  s[k].at <= s[a].at
    <3>1. /\ s[k].at \in 1 .. Len(q) /\ s[a].at \in 1 .. Len(q)
          /\ IsNewValue(q[s[a].at]) /\ Executes(q[s[k].at])
      BY <2>2, <2>4, <2>5
    <3>2. QED
      BY <2>5, <3>1, NewValueIsLast
  <2>6. ASSUME FitsSlots(q), NEW k \in 1 .. n, IsNewValue(s[k])
        PROVE  k = a
    <3>1. Executes(s[a]) /\ Executes(s[k])
      BY <1>5, <2>2, <2>6
    <3>2. /\ s[k].at \in 1 .. Len(q) /\ s[a].at \in 1 .. Len(q)
          /\ IsNewValue(q[s[k].at]) /\ Executes(q[s[a].at])
      BY <2>2, <2>4, <2>6, <3>1
    <3>3. s[a].at <= s[k].at
      BY <2>6, <3>2, NewValueIsLast
    <3>4. s[a].at = s[k].at
      BY <2>5, <2>6, <3>1, <3>2, <3>3
    <3>5. QED
      BY <1>1, <2>2, <3>4 DEF Arranges
  <2>7. FitsSlots(q) => \A k \in 1 .. last : s[k].at <= s[a].at
    <3>1. ASSUME FitsSlots(q), NEW k \in 1 .. last
          PROVE  s[k].at <= s[a].at
      <4>1. k \in 1 .. n /\ k <= last
        BY <1>2
      <4>2. Executes(s[k])
        BY <1>1, <4>1, ExecutesIs
      <4>3. QED
        BY <2>5, <3>1, <4>1, <4>2
    <3>2. QED
      BY <3>1
  <2>8. /\ Arranges(t, q) /\ Len(t) = n
        /\ \A k \in 1 .. n : From(a, last, k) \in 1 .. n /\ t[k] = s[From(a, last, k)]
    BY <1>1, <2>2, MoveArranges
  <2>9. FitsSlots(q) => InOrder(t, MemoryInsns)
    <3>1. \A k \in 1 .. n : s[k] \in MemoryInsns => k <= last
      BY <1>5 DEF MemoryInsns
    <3>2. QED
      BY <1>1, <1>4, <2>2, <2>7, <3>1, MoveInOrder
  <2>10. FitsSlots(q) => InOrder(t, BranchInsns)
    <3>1. \A k \in 1 .. n : s[k] \in BranchInsns => k <= last
      BY <1>5 DEF BranchInsns
    <3>2. QED
      BY <1>1, <2>2, <2>7, <3>1, MoveInOrder
  <2>11. ComparesFirst(t)
    <3>1. ~IsCompare(s[a])
      BY <2>2 DEF IsNewValue, IsCompare
    <3>2. QED
      BY <1>1, <2>2, <3>1, MoveComparesFirst
  <2>11a. Behind(t)
    <3>1. ~WritesReg(s[a]) /\ a <= last
      BY <1>2, <2>2 DEF IsNewValue, WritesReg
    <3>2. QED
      BY <1>1, <2>2, <3>1, MoveBehind
  <2> HIDE DEF t
  <2>12. FitsSlots(q) => NewValueAfter(t)
    <3>1. ASSUME FitsSlots(q), NEW k \in 1 .. n, NEW l \in 1 .. n, Feeds(t[k]), IsNewValue(t[l])
          PROVE  k < l
      <4>1. From(a, last, l) = a
        BY <2>6, <2>8, <3>1
      <4>2. l = last
        BY <1>2, <2>2, <4>1, FromIs
      <4>3. From(a, last, k) <= last /\ From(a, last, k) \in 1 .. n
        BY <1>5, <2>8, <3>1
      <4>4. k <= last
        BY <1>2, <2>2, <4>3 DEF From
      <4>5. k # l
        BY <1>6, <2>8, <3>1, <4>1
      <4>6. QED
        BY <1>2, <4>2, <4>4, <4>5
    <3>2. QED
      BY <2>8, <3>1 DEF NewValueAfter
  <2>13. Settled(t, q)
    BY <2>8, <2>9, <2>10, <2>11, <2>11a, <2>12 DEF Settled
  <2>14. QED
    BY <2>3, <2>13
<1>9. QED
  BY <1>7, <1>8

LEMMA RteLastIs ==
    ASSUME NEW q, NEW s, Settled(s, q)
    PROVE  Settled(RteLast(s), q)
<1> DEFINE last == LastInsn(s)
           picks == {i \in 1 .. last - 1 : IsRte(s[i])}
           a == CHOOSE i \in picks : \A j \in picks : i <= j
           t == SendInsnTo(s, a, last)
<1>1. /\ Arranges(s, q) /\ ComparesFirst(s) /\ Behind(s)
      /\ FitsSlots(q) =>
            InOrder(s, MemoryInsns) /\ InOrder(s, BranchInsns) /\ NewValueAfter(s)
  BY DEF Settled
<1>2. last \in Nat
  BY <1>1, LastInsnIs DEF Arranges
<1>3. RteLast(s) = IF picks = {} THEN s ELSE t
  BY DEF RteLast, FirstToLast
<1>4. CASE picks = {}
  BY <1>3, <1>4
<1>5. CASE picks # {}
  <2>1. a \in picks
    <3>1. picks \in SUBSET Nat
      OBVIOUS
    <3> HIDE DEF picks
    <3>2. QED
      BY <1>5, <3>1, LeastOf
  <2>2. IsRte(s[a]) /\ a \in 1 .. last /\ last \in 1 .. last
    BY <1>2, <2>1
  <2>3. RteLast(s) = t
    BY <1>3, <1>5
  <2> HIDE DEF a, picks
  <2>4. /\ ~WritesReg(s[a]) /\ ~IsCompare(s[a]) /\ ~Feeds(s[a]) /\ ~IsNewValue(s[a])
        /\ s[a] \notin MemoryInsns /\ s[a] \notin BranchInsns
    BY <2>2 DEF IsRte, WritesReg, IsCompare, Feeds, IsNewValue, MemoryInsns, BranchInsns, IsMemory, IsStore,
                IsLoad, IsBranch
  <2>5. Arranges(t, q)
    BY <1>1, <2>2, MoveArranges
  <2>6. FitsSlots(q) => InOrder(t, MemoryInsns)
    BY <1>1, <2>2, <2>4, MoveInOrder
  <2>7. FitsSlots(q) => InOrder(t, BranchInsns)
    BY <1>1, <2>2, <2>4, MoveInOrder
  <2>8. ComparesFirst(t)
    BY <1>1, <2>2, <2>4, MoveComparesFirst
  <2>9. FitsSlots(q) => NewValueAfter(t)
    BY <1>1, <2>2, <2>4, MoveNewValueAfter
  <2>9a. Behind(t)
    BY <1>1, <2>2, <2>4, MoveBehind
  <2>10. Settled(t, q)
    BY <2>5, <2>6, <2>7, <2>8, <2>9, <2>9a DEF Settled
  <2>11. QED
    BY <2>3, <2>10
<1>6. QED
  BY <1>4, <1>5

-----------------------------------------------------------------------------
(* The split. *)

\* The compares of the first m instructions of s that are compare-jumps.
Halves(h, m, s) ==
    /\ h \in Seq(Instr)
    /\ \A i \in 1 .. Len(h) : \E k \in 1 .. m : IsCmpJump(s[k]) /\ h[i] = CompareHalf(s[k])
    /\ \A k \in 1 .. m : IsCmpJump(s[k]) => \E i \in 1 .. Len(h) : h[i].at = s[k].at
    /\ \A i, j \in 1 .. Len(h) : h[i].at = h[j].at => i = j

LEMMA CompareHalfIs ==
    ASSUME NEW x \in Instr
    PROVE  /\ CompareHalf(x) \in Instr
           /\ CompareHalf(x).op = x.op /\ CompareHalf(x).at = x.at
           /\ CompareHalf(x).part1 = TRUE
           /\ x \in Plain => CompareHalf(x).dotnew = x.dotnew
           /\ x \in Instruction =>
                 /\ CompareHalf(x) \in Instruction
                 /\ CompareHalf(x).from = x.from /\ CompareHalf(x).to = x.to
                 /\ CompareHalf(x).guard = x.guard /\ CompareHalf(x).cof = x.cof
<1>1. CASE x \notin Instruction
  BY <1>1 DEF CompareHalf, Instr, Plain
<1>2. CASE x \in Instruction
  <2> DEFINE y == CompareHalf(x)
  <2>1. /\ y.op = x.op /\ y.from = x.from /\ y.to = x.to /\ y.guard = x.guard
        /\ y.cof = x.cof /\ y.at = x.at /\ y.part1 = TRUE
        /\ x.part1 \in BOOLEAN
    BY <1>2 DEF CompareHalf, Instruction
  <2>2. y \in [op : {x.op}, from : {x.from}, to : {x.to}, guard : {x.guard},
               cof : {x.cof}, at : {x.at}, part1 : BOOLEAN]
    BY <1>2 DEF CompareHalf, Instruction
  <2> HIDE DEF y
  <2>3. OperandsFit(y) <=> OperandsFit(x)
    BY <2>1 DEF OperandsFit, IsMemory, IsStore, IsLoad, EndsLoop, IsCmpJump, IsNewValue
  <2>4. PredicatesFit(y) <=> PredicatesFit(x)
    BY <2>1 DEF PredicatesFit, IsCompare, IsCmpJump, EndsLoop, Guarded
  <2>5. y \in Instruction
    BY <1>2, <2>1, <2>2, <2>3, <2>4 DEF Instruction
  <2>6. QED
    BY <1>2, <2>1, <2>5 DEF Instr, Plain, Instruction, y
<1>3. QED
  BY <1>1, <1>2 DEF Instr

LEMMA HalfStepIs ==
    ASSUME NEW s \in Seq(Instr), NEW m \in 1 .. Len(s), NEW h, Halves(h, m - 1, s),
           \A k, l \in 1 .. Len(s) : s[k].at = s[l].at => k = l
    PROVE  Halves(HalfStep(h, s[m]), m, s)
<1>0. /\ Len(s) \in Nat /\ \A k \in 1 .. Len(s) : s[k] \in Instr
      /\ h \in Seq(Instr) /\ Len(h) \in Nat
  BY LenProperties, ElementOfSeq DEF Halves
<1>1. /\ \A i \in 1 .. Len(h) : \E k \in 1 .. m - 1 : IsCmpJump(s[k]) /\ h[i] = CompareHalf(s[k])
      /\ \A k \in 1 .. m - 1 : IsCmpJump(s[k]) => \E i \in 1 .. Len(h) : h[i].at = s[k].at
      /\ \A i, j \in 1 .. Len(h) : h[i].at = h[j].at => i = j
  BY DEF Halves
<1>2. /\ \A k \in 1 .. m : k = m \/ k \in 1 .. m - 1
      /\ 1 .. m - 1 \subseteq 1 .. m /\ m \in 1 .. m /\ 1 .. m \subseteq 1 .. Len(s)
  BY <1>0
<1>3. CASE ~IsCmpJump(s[m])
  <2>1. HalfStep(h, s[m]) = h
    BY <1>3 DEF HalfStep
  <2>2. Halves(h, m, s)
    BY <1>0, <1>1, <1>2, <1>3 DEF Halves
  <2>3. QED
    BY <2>1, <2>2
<1>4. CASE IsCmpJump(s[m])
  <2> DEFINE x == CompareHalf(s[m])
             u == <<x>>
             t == u \o h
             n == Len(h)
  <2>1. HalfStep(h, s[m]) = t
    BY <1>4 DEF HalfStep
  <2>2. x \in Instr /\ x.at = s[m].at
    BY <1>0, CompareHalfIs
  <2> HIDE DEF x
  <2>3. u \in Seq(Instr) /\ Len(u) = 1 /\ u[1] = x
    BY <2>2
  <2> HIDE DEF u
  <2>4. /\ t \in Seq(Instr) /\ Len(t) = Len(u) + Len(h)
        /\ \A i \in 1 .. Len(u) + Len(h) : t[i] = IF i <= Len(u) THEN u[i] ELSE h[i - Len(u)]
    <3>1. h \in Seq(Instr)
      BY <1>0
    <3>2. u \in Seq(Instr)
      BY <2>3
    <3>3. QED
      BY ONLY <3>1, <3>2, ConcatProperties, Zenon
  <2> HIDE DEF t
  <2>5. /\ n \in Nat /\ Len(t) = n + 1 /\ 1 \in 1 .. n + 1
        /\ \A i \in 1 .. n + 1 : i = 1 \/ i - 1 \in 1 .. n
        /\ \A i \in 1 .. n : i + 1 \in 1 .. n + 1
    BY <1>0, <2>3, <2>4
  <2>6. t[1] = x
    BY <2>3, <2>4, <2>5
  <2>7. \A i \in 1 .. n + 1 : i # 1 => t[i] = h[i - 1]
    <3>1. ASSUME NEW i \in 1 .. n + 1, i # 1
          PROVE  t[i] = h[i - 1]
      <4>1. ~ (i <= 1) /\ i \in 1 .. 1 + n
        BY <2>5, <3>1
      <4>2. QED
        BY <2>3, <2>4, <4>1
    <3>2. QED
      BY <3>1
  <2>8. \A i \in 1 .. n : t[i + 1] = h[i]
    <3>1. ASSUME NEW i \in 1 .. n
          PROVE  t[i + 1] = h[i]
      <4>1. i + 1 \in 1 .. n + 1 /\ i + 1 # 1 /\ (i + 1) - 1 = i
        BY <2>5
      <4>2. QED
        BY <2>7, <4>1
    <3>2. QED
      BY <3>1
  <2> HIDE DEF n
  <2>9. ASSUME NEW i \in 1 .. n + 1
        PROVE  \E k \in 1 .. m : IsCmpJump(s[k]) /\ t[i] = CompareHalf(s[k])
    <3>1. CASE i = 1
      BY <1>2, <1>4, <2>6, <3>1 DEF x
    <3>2. CASE i # 1
      <4>1. i - 1 \in 1 .. Len(h) /\ t[i] = h[i - 1]
        BY <2>5, <2>7, <3>2 DEF n
      <4>2. PICK k \in 1 .. m - 1 : IsCmpJump(s[k]) /\ h[i - 1] = CompareHalf(s[k])
        BY <1>1, <4>1
      <4>3. k \in 1 .. m
        BY <1>2
      <4>4. QED
        BY <4>1, <4>2, <4>3
    <3>3. QED
      BY <3>1, <3>2
  <2>10. ASSUME NEW k \in 1 .. m, IsCmpJump(s[k])
         PROVE  \E i \in 1 .. n + 1 : t[i].at = s[k].at
    <3>1. CASE k = m
      BY <2>2, <2>5, <2>6, <3>1
    <3>2. CASE k \in 1 .. m - 1
      <4>1. PICK i \in 1 .. n : h[i].at = s[k].at
        BY <1>1, <2>10, <3>2 DEF n
      <4>2. QED
        BY <2>5, <2>8, <4>1
    <3>3. QED
      BY <1>2, <3>1, <3>2
  <2>11. ASSUME NEW i \in 1 .. n
         PROVE  h[i].at # x.at
    <3>1. PICK k \in 1 .. m - 1 : IsCmpJump(s[k]) /\ h[i] = CompareHalf(s[k])
      BY <1>1 DEF n
    <3>2. k \in 1 .. Len(s) /\ s[k] \in Instr /\ k # m
      BY <1>0, <1>2
    <3>3. h[i].at = s[k].at
      BY <3>1, <3>2, CompareHalfIs
    <3>4. QED
      BY <2>2, <3>2, <3>3
  <2>12. ASSUME NEW i \in 1 .. n + 1, NEW j \in 1 .. n + 1, t[i].at = t[j].at
         PROVE  i = j
    <3>1. CASE i = 1 /\ j = 1
      BY <3>1
    <3>2. CASE i = 1 /\ j # 1
      BY <2>5, <2>6, <2>7, <2>11, <2>12, <3>2
    <3>3. CASE i # 1 /\ j = 1
      BY <2>5, <2>6, <2>7, <2>11, <2>12, <3>3
    <3>4. CASE i # 1 /\ j # 1
      <4>1. i - 1 \in 1 .. n /\ j - 1 \in 1 .. n /\ h[i - 1].at = h[j - 1].at
        BY <2>5, <2>7, <2>12, <3>4
      <4>2. i - 1 = j - 1
        BY <1>1, <4>1 DEF n
      <4>3. QED
        BY <2>5, <4>2
    <3>5. QED
      BY <3>1, <3>2, <3>3, <3>4
  <2>13. Halves(t, m, s)
    BY <2>4, <2>5, <2>9, <2>10, <2>12 DEF Halves
  <2>14. QED
    BY <2>1, <2>13
<1>5. QED
  BY <1>3, <1>4

LEMMA CompareHalvesIs ==
    ASSUME NEW s, NEW q, Arranges(s, q)
    PROVE  Halves(CompareHalves(s), Len(s), s)
<1> DEFINE n == Len(s)
<1>1. /\ s \in Seq(Instr) /\ n \in Nat
      /\ \A k, l \in 1 .. n : s[k].at = s[l].at => k = l
  BY LenProperties DEF Arranges
<1>2. PICK walk : /\ walk[0] = << >>
                  /\ \A i \in 1 .. n : walk[i] = HalfStep(walk[i - 1], s[i])
                  /\ CompareHalves(s) = walk[n]
  BY <1>1, HalfWalk
<1> DEFINE T == {i \in 0 .. n : Halves(walk[i], i, s)}
<1>3. 0 \in T
  <2> DEFINE h == << >>
  <2>1. h \in Seq(Instr) /\ Len(h) = 0 /\ 1 .. 0 = {} /\ 0 \in 0 .. n
    BY <1>1
  <2> HIDE DEF h
  <2>2. Halves(h, 0, s)
    BY <2>1 DEF Halves
  <2>3. QED
    BY <1>2, <2>1, <2>2 DEF h
<1>4. ASSUME NEW i \in 1 .. n, i - 1 \in T
      PROVE  i \in T
  <2>1. Halves(walk[i - 1], i - 1, s)
    BY <1>4
  <2>2. Halves(walk[i], i, s)
    BY <1>1, <1>2, <2>1, HalfStepIs
  <2>3. i \in 0 .. n
    BY <1>1
  <2>4. QED
    BY <2>2, <2>3
<1>5. n \in 0 .. n
  BY <1>1
<1> HIDE DEF T, n
<1>6. 0 .. n \subseteq T
  BY <1>1, <1>3, <1>4, InductionUpTo
<1>7. n \in T
  BY <1>5, <1>6
<1>8. Halves(CompareHalves(s), n, s)
  BY <1>2, <1>7 DEF T
<1>9. QED
  BY <1>8 DEF n

LEMMA CardinalityUpTo ==
    ASSUME NEW n \in Nat
    PROVE  IsFiniteSet(1 .. n) /\ Cardinality(1 .. n) = n
<1>1. /\ IsFiniteSet(1 .. n)
      /\ Cardinality(1 .. n) = IF 1 > n THEN 0 ELSE n - 1 + 1
  BY FS_Interval
<1>2. QED
  BY <1>1

LEMMA OneToOne ==
    ASSUME NEW S, NEW T, IsFiniteSet(T), NEW f \in [S -> T],
           \A x, y \in S : f[x] = f[y] => x = y
    PROVE  Cardinality(S) <= Cardinality(T)
<1>1. f \in Injection(S, T)
  BY DEF Injection, IsInjective
<1>2. QED
  BY <1>1, FS_Injection

\* Four slots, an endloop, and the compares of two branches.
LEMMA PreparedFits ==
    ASSUME NEW q, NEW s, Decoded(q), Arranges(s, q), NEW h, Halves(h, Len(s), s)
    PROVE  Len(s) <= 5 /\ Len(h) <= 2
<1> DEFINE last == LastInsn(s)
<1>1. /\ s \in Seq(Instr) /\ Len(s) \in Nat /\ last \in Nat /\ last <= Len(s) /\ Len(s) <= last + 1
      /\ h \in Seq(Instr) /\ Len(h) \in Nat
  BY LastInsnIs, LenProperties DEF Arranges, Halves
<1>2. /\ \A k \in 1 .. Len(s) : /\ s[k].at \in 1 .. Len(q) /\ s[k] = q[s[k].at] /\ s[k] \in Instr
      /\ \A k, l \in 1 .. Len(s) : s[k].at = s[l].at => k = l
  BY <1>1, ElementOfSeq DEF Arranges
<1>3. q \in Seq(Instr) /\ FitsSlots(q) /\ FewBranches(q) /\ Len(q) \in Nat
  BY LenProperties DEF Decoded, Entries
<1>4. last <= 4
  <2>1. PICK slot : \A i \in 1 .. Len(q) : Executes(q[i]) =>
               /\ slot[i] \in Slots(q[i]) /\ slot[i] \in 0 .. 3
               /\ \A k \in 1 .. i - 1 : slot[i] < slot[k] /\ slot[k] \in 0 .. 4
    BY <1>3, SlotsDecrease
  <2> DEFINE f == [k \in 1 .. last |-> slot[s[k].at] + 1]
  <2>2. ASSUME NEW k \in 1 .. last
        PROVE  /\ s[k].at \in 1 .. Len(q) /\ Executes(q[s[k].at])
               /\ k \in 1 .. Len(s) /\ slot[s[k].at] \in 0 .. 3
    <3>1. k \in 1 .. Len(s) /\ k <= last
      BY <1>1
    <3>2. Executes(s[k])
      BY <3>1, ExecutesIs
    <3>3. QED
      BY <1>2, <2>1, <3>1, <3>2
  <2>3. ASSUME NEW k \in 1 .. last, NEW l \in 1 .. last, slot[s[k].at] = slot[s[l].at]
        PROVE  k = l
    <3> DEFINE x == s[k].at
               y == s[l].at
    <3>1. /\ x \in 1 .. Len(q) /\ Executes(q[x]) /\ slot[x] \in 0 .. 3
          /\ y \in 1 .. Len(q) /\ Executes(q[y]) /\ slot[y] \in 0 .. 3
          /\ k \in 1 .. Len(s) /\ l \in 1 .. Len(s) /\ slot[x] = slot[y]
      BY <2>2, <2>3
    <3> HIDE DEF x, y
    <3>2. ~ (x < y)
      <4>1. x < y => x \in 1 .. y - 1
        BY <3>1
      <4>2. x < y => slot[y] < slot[x]
        BY <2>1, <3>1, <4>1
      <4>3. QED
        BY <3>1, <4>2
    <3>3. ~ (y < x)
      <4>1. y < x => y \in 1 .. x - 1
        BY <3>1
      <4>2. y < x => slot[x] < slot[y]
        BY <2>1, <3>1, <4>1
      <4>3. QED
        BY <3>1, <4>2
    <3>4. x = y
      BY <3>1, <3>2, <3>3
    <3>5. QED
      BY <1>2, <3>1, <3>4 DEF x, y
  <2>4. f \in [1 .. last -> 1 .. 4] /\ \A k, l \in 1 .. last : f[k] = f[l] => k = l
    <3>1. ASSUME NEW k \in 1 .. last
          PROVE  slot[s[k].at] + 1 \in 1 .. 4 /\ slot[s[k].at] \in Int
      BY <2>2
    <3>2. ASSUME NEW k \in 1 .. last, NEW l \in 1 .. last, f[k] = f[l]
          PROVE  k = l
      <4>1. slot[s[k].at] + 1 = slot[s[l].at] + 1
        BY <3>2
      <4>2. slot[s[k].at] = slot[s[l].at]
        BY <3>1, <4>1
      <4>3. QED
        BY <2>3, <4>2
    <3>3. f \in [1 .. last -> 1 .. 4]
      BY <3>1
    <3>4. QED
      BY <3>2, <3>3
  <2>5. IsFiniteSet(1 .. 4) /\ Cardinality(1 .. 4) = 4 /\ Cardinality(1 .. last) = last
    BY <1>1, CardinalityUpTo
  <2> HIDE DEF f, last
  <2>6. Cardinality(1 .. last) <= Cardinality(1 .. 4)
    BY <2>4, <2>5, OneToOne
  <2>7. QED
    BY <2>5, <2>6
<1>5. Len(h) <= 2
  <2> DEFINE B == {i \in 1 .. Len(q) : IsBranch(q[i])}
             f == [i \in 1 .. Len(h) |-> h[i].at]
  <2>1. ASSUME NEW i \in 1 .. Len(h)
        PROVE  h[i].at \in B
    <3>1. PICK k \in 1 .. Len(s) : IsCmpJump(s[k]) /\ h[i] = CompareHalf(s[k])
      BY DEF Halves
    <3>2. h[i].at = s[k].at /\ s[k].at \in 1 .. Len(q) /\ s[k] = q[s[k].at]
      BY <1>2, <3>1, CompareHalfIs
    <3>3. ~q[s[k].at].part1
      BY <3>2 DEF Decoded, Entries
    <3>4. IsBranch(q[s[k].at])
      BY <3>1, <3>2, <3>3 DEF IsBranch, IsCmpJump
    <3>5. QED
      BY <3>2, <3>4
  <2>2. \A i, j \in 1 .. Len(h) : h[i].at = h[j].at => i = j
    BY DEF Halves
  <2> HIDE DEF B
  <2>3. f \in [1 .. Len(h) -> B] /\ \A i, j \in 1 .. Len(h) : f[i] = f[j] => i = j
    BY <2>1, <2>2
  <2>4. IsFiniteSet(B) /\ Cardinality(B) \in Nat /\ Cardinality(B) <= 2
    <3>1. IsFiniteSet(1 .. Len(q)) /\ B \in SUBSET (1 .. Len(q))
      BY <1>3, FS_Interval DEF B
    <3>2. IsFiniteSet(B)
      BY <3>1, FS_Subset
    <3>3. QED
      BY <1>3, <3>2, FS_CardinalityType DEF FewBranches, B
  <2>5. Cardinality(1 .. Len(h)) = Len(h)
    BY <1>1, CardinalityUpTo
  <2> HIDE DEF f
  <2>6. Cardinality(1 .. Len(h)) <= Cardinality(B)
    BY <2>3, <2>4, OneToOne
  <2>7. QED
    BY <1>1, <2>4, <2>5, <2>6
<1>6. QED
  BY <1>1, <1>4, <1>5

\* The prepared packet: the m compares, then the n instructions of s.
Joins(t, m, n, s, q) ==
    /\ t \in Seq(Instr) /\ m \in Nat /\ n \in Nat /\ Len(t) = m + n
    /\ \A i \in 1 .. m + n : i \in 1 .. m \/ i - m \in 1 .. n
    /\ \A i \in 1 .. m :
          /\ IsCmpJump(t[i]) /\ t[i].part1 = TRUE
          /\ t[i].at \in 1 .. Len(q) /\ t[i] = CompareHalf(q[t[i].at])
          /\ IsCmpJump(q[t[i].at])
    /\ \A i \in 1 .. m + n : i \notin 1 .. m => t[i] = s[i - m]
    /\ \A j \in 1 .. n : m + j \in 1 .. m + n /\ m + j \notin 1 .. m /\ t[m + j] = s[j]
    /\ \A i, j \in 1 .. m : t[i].at = t[j].at => i = j
    /\ \A k \in 1 .. Len(q) : IsCmpJump(q[k]) => \E i \in 1 .. m : t[i].at = k

LEMMA SplitJoins ==
    ASSUME NEW q, NEW s, Entries(q), Arranges(s, q)
    PROVE  Joins(SplitCmpJump(s), Len(CompareHalves(s)), Len(s), s, q)
<1> DEFINE h == CompareHalves(s)
           m == Len(h)
           n == Len(s)
           t == h \o s
<1>1. Halves(h, n, s)
  BY CompareHalvesIs
<1>2. SplitCmpJump(s) = t
  BY DEF SplitCmpJump
<1> HIDE DEF h
<1>3. h \in Seq(Instr) /\ s \in Seq(Instr) /\ m \in Nat /\ n \in Nat
  BY <1>1, LenProperties DEF Halves, Arranges
<1>4. /\ t \in Seq(Instr) /\ Len(t) = m + n
      /\ \A i \in 1 .. m + n : t[i] = IF i <= m THEN h[i] ELSE s[i - m]
  BY <1>3, ConcatProperties
<1>5. /\ \A i \in 1 .. m : \E k \in 1 .. n : IsCmpJump(s[k]) /\ h[i] = CompareHalf(s[k])
      /\ \A k \in 1 .. n : IsCmpJump(s[k]) => \E i \in 1 .. m : h[i].at = s[k].at
      /\ \A i, j \in 1 .. m : h[i].at = h[j].at => i = j
  BY <1>1 DEF Halves
<1>6. /\ \A k \in 1 .. n : s[k].at \in 1 .. Len(q) /\ s[k] = q[s[k].at] /\ s[k] \in Instr
      /\ \A k \in 1 .. Len(q) : ~IsExt(q[k]) => \E i \in 1 .. n : s[i].at = k
  BY <1>3, ElementOfSeq DEF Arranges
<1> HIDE DEF m, n, t
<1>7. /\ \A i \in 1 .. m + n : i \in 1 .. m \/ i - m \in 1 .. n
      /\ \A i \in 1 .. m : i \in 1 .. m + n /\ i <= m
      /\ \A i \in 1 .. m + n : i \notin 1 .. m => ~ (i <= m)
      /\ \A j \in 1 .. n : /\ m + j \in 1 .. m + n /\ m + j \notin 1 .. m
                           /\ ~ (m + j <= m) /\ (m + j) - m = j
  BY <1>3
<1>8. /\ \A i \in 1 .. m : t[i] = h[i]
      /\ \A i \in 1 .. m + n : i \notin 1 .. m => t[i] = s[i - m]
  BY <1>4, <1>7
<1>9. \A j \in 1 .. n : t[m + j] = s[j]
  <2>1. ASSUME NEW j \in 1 .. n
        PROVE  t[m + j] = s[j]
    <3>1. m + j \in 1 .. m + n /\ m + j \notin 1 .. m /\ (m + j) - m = j
      BY <1>7
    <3>2. QED
      BY <1>8, <3>1
  <2>2. QED
    BY <2>1
<1>10. ASSUME NEW i \in 1 .. m
       PROVE  /\ IsCmpJump(t[i]) /\ t[i].part1 = TRUE
              /\ t[i].at \in 1 .. Len(q) /\ t[i] = CompareHalf(q[t[i].at])
              /\ IsCmpJump(q[t[i].at])
  <2>1. PICK k \in 1 .. n : IsCmpJump(s[k]) /\ h[i] = CompareHalf(s[k])
    BY <1>5
  <2>2. /\ t[i].op = s[k].op /\ t[i].at = s[k].at
        /\ t[i] = CompareHalf(s[k]) /\ t[i].part1 = TRUE
    <3>1. t[i] = CompareHalf(s[k]) /\ s[k] \in Instr
      BY <1>6, <1>8, <2>1
    <3>2. QED
      BY <3>1, CompareHalfIs
  <2>3. s[k].at \in 1 .. Len(q) /\ s[k] = q[s[k].at]
    BY <1>6
  <2>4. QED
    BY <2>1, <2>2, <2>3 DEF IsCmpJump
<1>11. \A i, j \in 1 .. m : t[i].at = t[j].at => i = j
  BY <1>5, <1>8
<1>12. ASSUME NEW k \in 1 .. Len(q), IsCmpJump(q[k])
       PROVE  \E i \in 1 .. m : t[i].at = k
  <2>1. ~IsExt(q[k])
    BY <1>12 DEF IsCmpJump, IsExt
  <2>2. PICK j \in 1 .. n : s[j].at = k
    BY <1>6, <2>1
  <2>3. IsCmpJump(s[j])
    BY <1>6, <1>12, <2>2
  <2>4. PICK i \in 1 .. m : h[i].at = s[j].at
    BY <1>5, <2>3
  <2>5. QED
    BY <1>8, <2>2, <2>4
<1>13. Joins(t, m, n, s, q)
  BY <1>3, <1>4, <1>7, <1>8, <1>9, <1>10, <1>11, <1>12 DEF Joins
<1>14. QED
  BY <1>2, <1>13 DEF h, m, n

-----------------------------------------------------------------------------
(* What a prepared packet is like. *)

\* The instructions of t that come from the one at `at`.
Copies(t, at, part1) ==
    {i \in 1 .. Len(t) : t[i].at = at /\ t[i].part1 = part1}

LEMMA JoinsCopies ==
    ASSUME NEW q, NEW s, NEW t, NEW m, Entries(q), Arranges(s, q),
           Joins(t, m, Len(s), s, q), NEW at \in 1 .. Len(q), NEW part1 \in BOOLEAN
    PROVE  Cardinality(Copies(t, at, part1))
             = IF IsExt(q[at]) \/ (part1 /\ ~IsCmpJump(q[at])) THEN 0 ELSE 1
<1> DEFINE n == Len(s)
           X == Copies(t, at, part1)
<1>1. /\ t \in Seq(Instr) /\ m \in Nat /\ n \in Nat /\ Len(t) = m + n
      /\ \A i \in 1 .. m + n : i \in 1 .. m \/ i - m \in 1 .. n
      /\ \A i \in 1 .. m :
            /\ IsCmpJump(t[i]) /\ t[i].part1 = TRUE
            /\ t[i].at \in 1 .. Len(q) /\ IsCmpJump(q[t[i].at])
      /\ \A i \in 1 .. m + n : i \notin 1 .. m => t[i] = s[i - m]
      /\ \A j \in 1 .. n : m + j \in 1 .. m + n /\ m + j \notin 1 .. m /\ t[m + j] = s[j]
      /\ \A i, j \in 1 .. m : t[i].at = t[j].at => i = j
      /\ \A k \in 1 .. Len(q) : IsCmpJump(q[k]) => \E i \in 1 .. m : t[i].at = k
  BY DEF Joins
<1>2. /\ \A k \in 1 .. n : /\ s[k].at \in 1 .. Len(q) /\ s[k] = q[s[k].at] /\ ~IsExt(s[k])
                           /\ s[k].part1 = FALSE
      /\ \A k, l \in 1 .. n : s[k].at = s[l].at => k = l
      /\ \A k \in 1 .. Len(q) : ~IsExt(q[k]) => \E i \in 1 .. n : s[i].at = k
  <2>1. \A k \in 1 .. Len(q) : q[k].part1 = FALSE
    <3>1. \A k \in 1 .. Len(q) : q[k] \in Instr /\ ~q[k].part1
      BY ElementOfSeq DEF Entries
    <3>2. QED
      BY <3>1 DEF Instr, Plain, Instruction
  <2>2. QED
    BY <2>1 DEF Arranges
<1>3. X = {i \in 1 .. m + n : t[i].at = at /\ t[i].part1 = part1}
  BY <1>1 DEF Copies
<1> HIDE DEF X, n
<1>4. CASE IsExt(q[at])
  <2>1. ASSUME NEW i \in X
        PROVE  FALSE
    <3>1. i \in 1 .. m + n /\ t[i].at = at
      BY <1>3
    <3>2. CASE i \in 1 .. m
      BY <1>1, <1>4, <3>1, <3>2 DEF IsExt, IsCmpJump
    <3>3. CASE i \notin 1 .. m
      <4>1. i - m \in 1 .. n /\ t[i] = s[i - m]
        BY <1>1, <3>1, <3>3
      <4>2. QED
        BY <1>2, <1>4, <3>1, <4>1
    <3>4. QED
      BY <3>2, <3>3
  <2>2. X = {}
    BY <2>1
  <2>3. QED
    BY <1>4, <2>2, FS_EmptySet DEF X
<1>5. CASE part1 /\ ~IsCmpJump(q[at])
  <2>1. ASSUME NEW i \in X
        PROVE  FALSE
    <3>1. i \in 1 .. m + n /\ t[i].at = at /\ t[i].part1 = TRUE
      BY <1>3, <1>5
    <3>2. CASE i \in 1 .. m
      BY <1>1, <1>5, <3>1, <3>2
    <3>3. CASE i \notin 1 .. m
      <4>1. i - m \in 1 .. n /\ t[i] = s[i - m]
        BY <1>1, <3>1, <3>3
      <4>2. QED
        BY <1>2, <3>1, <4>1
    <3>4. QED
      BY <3>2, <3>3
  <2>2. X = {}
    BY <2>1
  <2>3. QED
    BY <1>5, <2>2, FS_EmptySet DEF X
<1>6. CASE ~IsExt(q[at]) /\ part1 /\ IsCmpJump(q[at])
  <2>1. PICK i \in 1 .. m : t[i].at = at
    BY <1>1, <1>6
  <2>2. i \in X
    <3>1. i \in 1 .. m + n
      BY <1>1
    <3>2. QED
      BY <1>1, <1>3, <1>6, <2>1, <3>1
  <2>3. ASSUME NEW j \in X
        PROVE  j = i
    <3>1. j \in 1 .. m + n /\ t[j].at = at /\ t[j].part1 = TRUE
      BY <1>3, <1>6
    <3>2. CASE j \in 1 .. m
      BY <1>1, <2>1, <3>1, <3>2
    <3>3. CASE j \notin 1 .. m
      <4>1. j - m \in 1 .. n /\ t[j] = s[j - m]
        BY <1>1, <3>1, <3>3
      <4>2. QED
        BY <1>2, <3>1, <4>1
    <3>4. QED
      BY <3>2, <3>3
  <2>4. X = {i}
    BY <2>2, <2>3
  <2>5. QED
    BY <1>6, <2>4, FS_Singleton DEF X
<1>7. CASE ~IsExt(q[at]) /\ ~part1
  <2>1. PICK j \in 1 .. n : s[j].at = at
    BY <1>2, <1>7
  <2>2. m + j \in X
    <3>1. m + j \in 1 .. m + n /\ t[m + j] = s[j]
      BY <1>1
    <3>2. QED
      BY <1>2, <1>3, <1>7, <2>1, <3>1
  <2>3. ASSUME NEW i \in X
        PROVE  i = m + j
    <3>1. i \in 1 .. m + n /\ t[i].at = at /\ t[i].part1 = FALSE
      BY <1>3, <1>7
    <3>2. i \notin 1 .. m
      BY <1>1, <3>1
    <3>3. i - m \in 1 .. n /\ t[i] = s[i - m]
      BY <1>1, <3>1, <3>2
    <3>4. i - m = j
      BY <1>2, <2>1, <3>1, <3>3
    <3>5. QED
      BY <1>1, <3>1, <3>4
  <2>4. X = {m + j}
    BY <2>2, <2>3
  <2>5. QED
    BY <1>7, <2>4, FS_Singleton DEF X
<1>8. QED
  BY <1>4, <1>5, <1>6, <1>7

-----------------------------------------------------------------------------
(* The rounds of the shuffle's loop. *)

Stored(s)   == ShuffleStores(s).insns
Compared(s) == ShuffleCompares(s).insns

\* The first round, and where the loop stops: the compares move in the first
\* round only, the stores at most once more behind them.
FirstRound(s) == Compared(Stored(s))
AtRest(s)     == Stored(FirstRound(s))

LEMMA RoundsSettle ==
    ASSUME NEW q, FitsSlots(q), NEW s, Shuffled(s, q)
    PROVE  /\ Shuffled(Stored(s), q) /\ Shuffled(FirstRound(s), q) /\ Shuffled(AtRest(s), q)
           /\ Stored(Stored(s)) = Stored(s)
           /\ Stored(AtRest(s)) = AtRest(s) /\ Compared(AtRest(s)) = AtRest(s)
<1> DEFINE x == Stored(s)
           y == FirstRound(s)
           z == AtRest(s)
<1>1. Shuffled(x, q) /\ StoresLast(x)
  BY ShuffleStoresIs DEF Stored
<1>2. Shuffled(y, q) /\ ComparesFirst(y)
  BY <1>1, ShuffleComparesIs DEF FirstRound, Compared
<1>3. Shuffled(z, q) /\ StoresLast(z) /\ ComparesFirst(z)
  BY <1>2, ShuffleStoresIs DEF AtRest, Stored
<1>4. Stored(x) = x /\ Stored(z) = z /\ Compared(z) = z
  <2> HIDE DEF x, z
  <2> QED BY <1>1, <1>3, StoresStay, ComparesStay DEF Stored, Compared
<1>5. QED
  BY <1>1, <1>2, <1>3, <1>4

\* More walks over the stores than one change nothing.
LEMMA StoresSettledIs ==
    ASSUME NEW q, FitsSlots(q), NEW s, Shuffled(s, q)
    PROVE  StoresSettled(s) = Stored(s)
<1> DEFINE n == Len(s)
           t == Stored(s)
           Unfolds(g) == g = [i \in 0 .. n |-> IF i = 0 THEN s ELSE ShuffleStores(g[i - 1]).insns]
           round[i \in 0 .. n] == IF i = 0 THEN s ELSE ShuffleStores(round[i - 1]).insns
<1>1. n \in Nat /\ n >= 1
  BY LenProperties DEF Shuffled, Arranges
<1>2. StoresSettled(s) = round[n]
  BY DEF StoresSettled
<1>3. round = CHOOSE g : Unfolds(g)
  OBVIOUS
<1>4. ShuffleStores(s).insns = t /\ ShuffleStores(t).insns = t
  BY RoundsSettle DEF Stored
<1> HIDE DEF n, t, round
<1>5. \E g : Unfolds(g)
  <2> DEFINE h == [i \in 0 .. n |-> IF i = 0 THEN s ELSE t]
  <2>1. ASSUME NEW i \in 0 .. n
        PROVE  h[i] = IF i = 0 THEN s ELSE ShuffleStores(h[i - 1]).insns
    <3>1. CASE i = 0
      BY <3>1
    <3>2. CASE i # 0
      <4>1. i - 1 \in 0 .. n
        BY <1>1, <3>2
      <4>2. QED
        BY <1>4, <3>2, <4>1
    <3>3. QED
      BY <3>1, <3>2
  <2>2. Unfolds(h)
    BY <2>1
  <2> HIDE DEF h, Unfolds
  <2>3. QED
    BY <2>2
<1>6. Unfolds(round)
  <2> HIDE DEF Unfolds
  <2> QED BY <1>3, <1>5
<1>7. \A i \in 0 .. n : round[i] = IF i = 0 THEN s ELSE ShuffleStores(round[i - 1]).insns
  BY <1>6
<1> DEFINE T == {i \in 0 .. n : round[i] = IF i = 0 THEN s ELSE t}
<1>8. 0 \in T
  BY <1>1, <1>7
<1>9. ASSUME NEW i \in 1 .. n, i - 1 \in T
      PROVE  i \in T
  <2>1. i \in 0 .. n /\ i # 0 /\ round[i - 1] \in {s, t}
    BY <1>1, <1>9
  <2>2. round[i] = ShuffleStores(round[i - 1]).insns
    BY <1>7, <2>1
  <2>3. QED
    BY <1>4, <2>1, <2>2
<1>10. n \in T
  <2>1. n \in 0 .. n
    BY <1>1
  <2> HIDE DEF T
  <2>2. QED
    BY <1>1, <1>8, <1>9, <2>1, InductionUpTo
<1>11. QED
  BY <1>1, <1>2, <1>10 DEF t

\* Nor do more rounds than one, or two if there is more than one instruction.
LEMMA ShuffleForExecutionIs ==
    ASSUME NEW q, FitsSlots(q), NEW s, Shuffled(s, q)
    PROVE  ShuffleForExecution(s) = RteLast(NewValueLast(AtRest(s)))
<1> DEFINE n == Len(s)
           D(u) == ShuffleCompares(StoresSettled(u)).insns
           y == FirstRound(s)
           z == AtRest(s)
           Unfolds(g) == g = [i \in 0 .. n |-> IF i = 0 THEN s ELSE D(g[i - 1])]
           round[i \in 0 .. n] == IF i = 0 THEN s ELSE D(round[i - 1])
<1>1. n \in Nat /\ n >= 1
  BY LenProperties DEF Shuffled, Arranges
<1>2. ShuffleForExecution(s) = RteLast(NewValueLast(round[n]))
  BY DEF ShuffleForExecution
<1>3. round = CHOOSE g : Unfolds(g)
  OBVIOUS
<1>4. Shuffled(y, q) /\ Shuffled(z, q) /\ Stored(y) = z /\ Stored(z) = z /\ Compared(z) = z
  BY RoundsSettle DEF AtRest
<1>5. D(s) = y /\ D(y) = z /\ D(z) = z
  <2>1. D(s) = Compared(Stored(s))
    BY StoresSettledIs DEF Compared
  <2> HIDE DEF y, z
  <2>2. D(y) = Compared(Stored(y)) /\ D(z) = Compared(Stored(z))
    BY <1>4, StoresSettledIs DEF Compared
  <2>3. QED
    BY <1>4, <2>1, <2>2 DEF y, FirstRound
<1>6. n = 1 => y = z
  <2> SUFFICES ASSUME n = 1
               PROVE  StoresLast(y)
    <3> HIDE DEF y, z
    <3> QED BY <1>4, StoresStay DEF Stored
  <2>1. Arranges(s, q) /\ Arranges(y, q)
    BY <1>4 DEF Shuffled
  <2> HIDE DEF y
  <2>2. ASSUME NEW i \in 1 .. Len(y), NEW j \in 1 .. Len(y)
        PROVE  i = j
    <3>1. /\ y[i].at \in 1 .. Len(q) /\ ~IsExt(q[y[i].at])
          /\ y[j].at \in 1 .. Len(q) /\ ~IsExt(q[y[j].at])
      BY <2>1 DEF Arranges
    <3>2. y[i].at = s[1].at /\ y[j].at = s[1].at
      BY <2>1, <3>1 DEF Arranges
    <3>3. QED
      BY <2>1, <3>2 DEF Arranges
  <2>3. LastInsn(y) \in Nat /\ LastInsn(y) <= Len(y) /\ Len(y) \in Nat
    BY <2>1, LastInsnIs DEF Arranges
  <2>4. \A j \in 1 .. LastInsn(y) : j \in 1 .. Len(y)
    BY <2>3
  <2>5. QED
    BY <2>2, <2>4 DEF StoresLast
<1> HIDE DEF n, D, y, z, round
<1>7. \E g : Unfolds(g)
  <2> DEFINE h == [i \in 0 .. n |-> IF i = 0 THEN s ELSE IF i = 1 THEN y ELSE z]
  <2>1. ASSUME NEW i \in 0 .. n
        PROVE  h[i] = IF i = 0 THEN s ELSE D(h[i - 1])
    <3>1. CASE i = 0
      BY <3>1
    <3>2. CASE i = 1
      <4>1. i - 1 = 0 /\ 0 \in 0 .. n
        BY <1>1, <3>2
      <4>2. QED
        BY <1>5, <3>2, <4>1
    <3>3. CASE i = 2
      <4>1. i - 1 = 1 /\ 1 \in 0 .. n
        BY <1>1, <3>3
      <4>2. QED
        BY <1>5, <3>3, <4>1
    <3>4. CASE i \notin {0, 1, 2}
      <4>1. i - 1 \in 0 .. n /\ i - 1 \notin {0, 1}
        BY <1>1, <3>4
      <4>2. QED
        BY <1>5, <3>4, <4>1
    <3>5. QED
      BY <3>1, <3>2, <3>3, <3>4
  <2>2. Unfolds(h)
    BY <2>1
  <2> HIDE DEF h, Unfolds
  <2>3. QED
    BY <2>2
<1>8. Unfolds(round)
  <2>1. round = CHOOSE g : Unfolds(g)
    BY <1>3 DEF D, n
  <2> HIDE DEF Unfolds
  <2>2. QED
    BY <1>7, <2>1
<1>9. \A i \in 0 .. n : round[i] = IF i = 0 THEN s ELSE D(round[i - 1])
  BY <1>8
<1> DEFINE T == {i \in 0 .. n : round[i] = IF i = 0 THEN s ELSE IF i = 1 THEN y ELSE z}
<1>10. 0 \in T
  BY <1>1, <1>9
<1>11. ASSUME NEW i \in 1 .. n, i - 1 \in T
       PROVE  i \in T
  <2>1. i \in 0 .. n /\ i # 0 /\ (i - 1 = 0 <=> i = 1)
        /\ round[i - 1] = IF i - 1 = 0 THEN s ELSE IF i - 1 = 1 THEN y ELSE z
    BY <1>1, <1>11
  <2>2. round[i] = D(round[i - 1])
    BY <1>9, <2>1
  <2>3. round[i] = IF i = 1 THEN y ELSE z
    BY <1>5, <2>1, <2>2
  <2>4. QED
    BY <2>1, <2>3
<1>12. n \in T
  <2>1. n \in 0 .. n
    BY <1>1
  <2> HIDE DEF T
  <2>2. QED
    BY <1>1, <1>10, <1>11, <2>1, InductionUpTo
<1>13. round[n] = z
  BY <1>1, <1>6, <1>12
<1>14. QED
  BY <1>2, <1>13 DEF n, D, z, round
=============================================================================
