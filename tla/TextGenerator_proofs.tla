------------------------- MODULE TextGenerator_proofs -------------------------
(***************************************************************************)
(* The text generator: the pool of processes for any instructions, any     *)
(* number of processes, and whatever fails; the texts for any trees of the *)
(* grammar and any operands.                                               *)
(***************************************************************************)
EXTENDS TextGenerator, SequenceTheorems, FiniteSetTheorems, TLAPS

-----------------------------------------------------------------------------
(* The pool. *)

\* Until the script raises, an instruction that has been submitted is on its way, or its
\* function has been collected.
OnTheWay == pending \cup running \cup finished
Accounted ==
    pc \in {"submit", "collect"} =>
        \A t \in Submitted : t \in OnTheWay \/ (tag_to_fbody[t] = Body(t) /\ t \notin bad)

IInv ==
    /\ TypeOK
    /\ tags \in TagLists /\ bad \subseteq All
    /\ IsFiniteSet(running)
    /\ DOMAIN tag_to_fbody = All
    /\ finished \cap bad \subseteq failed
    /\ pc = "collect" => i = Len(tags) + 1
    /\ Accounted

LEMMA TagsAreSeq ==
    ASSUME tags \in TagLists
    PROVE  /\ Len(tags) \in Nat /\ DOMAIN tags = 1 .. Len(tags)
           /\ \A j, k \in DOMAIN tags : tags[j] = tags[k] => j = k
BY TagListsAssumption

\* Submitting an instruction adds it, and only it, to the submitted ones.
LEMMA SubmittedGrows ==
    ASSUME IInv, i <= Len(tags), i' = i + 1, UNCHANGED <<tags, empty>>
    PROVE  /\ Submitted' = Submitted \cup ({tags[i]} \ empty)
           /\ tags[i] \notin Submitted /\ tags[i] \in All
           /\ i \in DOMAIN tags
<1>1. i \in Nat /\ i \in DOMAIN tags
  BY TagsAreSeq DEF IInv, TypeOK
<1>2. {k \in DOMAIN tags : k < i + 1} = {k \in DOMAIN tags : k < i} \cup {i}
  BY <1>1, TagsAreSeq DEF IInv
<1>3. \A k \in DOMAIN tags : k < i => tags[k] # tags[i]
  BY <1>1, TagsAreSeq DEF IInv
<1>4. {tags[j] : j \in {k \in DOMAIN tags : k < i + 1}} =
      {tags[j] : j \in {k \in DOMAIN tags : k < i}} \cup {tags[i]}
  BY <1>2
<1>5. Submitted' = Submitted \cup ({tags[i]} \ empty)
  BY <1>4 DEF Submitted
<1>6. tags[i] \notin Submitted
  BY <1>3 DEF Submitted
<1>7. QED
  BY <1>1, <1>5, <1>6 DEF All

LEMMA InitIInv == Init => IInv
<1> SUFFICES ASSUME Init
             PROVE  IInv
  OBVIOUS
<1>1. Len(tags) \in Nat /\ DOMAIN tags = 1 .. Len(tags) /\ tags \in TagLists
  BY TagsAreSeq DEF Init
<1>2. Submitted = {}
  BY <1>1 DEF Init, Submitted
<1>3. Cardinality({}) = 0 /\ IsFiniteSet({})
  BY FS_EmptySet
<1>4. TypeOK
  <2>1. i \in 1 .. Len(tags) + 1
    BY <1>1 DEF Init
  <2>2. Cardinality(running) <= Workers
    BY <1>3, WorkersAssumption DEF Init
  <2>3. QED
    BY <1>2, <2>1, <2>2 DEF Init, TypeOK
<1>5. QED
  BY <1>1, <1>2, <1>3, <1>4 DEF Init, IInv, Accounted

LEMMA NextIInv == IInv /\ [Next]_vars => IInv'
<1> SUFFICES ASSUME IInv, [Next]_vars
             PROVE  IInv'
  OBVIOUS
<1> USE DEF IInv
<1>1. CASE Submit
  <2>1. /\ Submitted' = Submitted \cup ({tags[i]} \ empty)
        /\ tags[i] \notin Submitted /\ i \in DOMAIN tags
    BY <1>1, SubmittedGrows DEF Submit
  <2>2. i' \in 1 .. Len(tags) + 1
    BY <1>1, <2>1, TagsAreSeq DEF Submit
  <2>3. pending' \subseteq pending \cup ({tags[i]} \ empty)
        /\ pending \cup ({tags[i]} \ empty) \subseteq pending'
    BY <1>1 DEF Submit
  <2>4. TypeOK'
    BY <1>1, <2>1, <2>2, <2>3 DEF Submit, TypeOK
  <2>5. Accounted'
    BY <1>1, <2>1, <2>3 DEF Submit, Accounted, OnTheWay
  <2>6. QED
    BY <1>1, <2>4, <2>5 DEF Submit, All
<1>2. CASE SubmitBroken
  BY <1>2 DEF SubmitBroken, futures, TypeOK, Accounted, Submitted, All
<1>3. CASE Collect
  <2>1. i = Len(tags) + 1
    BY <1>3, TagsAreSeq DEF Collect, TypeOK
  <2>2. QED
    BY <1>3, <2>1 DEF Collect, futures, TypeOK, Accounted, OnTheWay, Submitted, All
<1>4. ASSUME NEW t \in All, Start(t)
      PROVE  IInv'
  <2>1. IsFiniteSet(running') /\ Cardinality(running') <= Workers
    <3>1. t \notin running /\ Cardinality(running) < Workers
      BY <1>4 DEF Start, TypeOK
    <3>2. Cardinality(running) \in Nat
      BY FS_CardinalityType
    <3>3. IsFiniteSet(running \cup {t}) /\ Cardinality(running \cup {t}) = Cardinality(running) + 1
      BY <3>1, FS_AddElement
    <3>4. QED
      BY <1>4, <3>1, <3>2, <3>3, WorkersAssumption DEF Start
  <2>2. TypeOK'
    BY <1>4, <2>1 DEF Start, TypeOK, Submitted
  <2>3. Accounted'
    BY <1>4 DEF Start, Accounted, OnTheWay, Submitted
  <2>4. QED
    BY <1>4, <2>1, <2>2, <2>3 DEF Start, All
<1>5. ASSUME NEW t \in All, Finish(t)
      PROVE  IInv'
  <2>1. IsFiniteSet(running') /\ Cardinality(running') <= Workers
    <3>1. IsFiniteSet(running \ {t}) /\ Cardinality(running \ {t}) = Cardinality(running) - 1
      BY <1>5, FS_RemoveElement DEF Finish
    <3>2. Cardinality(running) \in Nat
      BY FS_CardinalityType
    <3>3. QED
      BY <1>5, <3>1, <3>2, WorkersAssumption DEF Finish, TypeOK
  <2>2. TypeOK'
    BY <1>5, <2>1 DEF Finish, TypeOK, Submitted
  <2>3. Accounted'
    BY <1>5 DEF Finish, Accounted, OnTheWay, Submitted
  <2>4. QED
    BY <1>5, <2>1, <2>2, <2>3 DEF Finish, All
<1>6. CASE Crash
  <2>1. IsFiniteSet(running') /\ Cardinality(running') <= Workers
    BY <1>6, FS_EmptySet, WorkersAssumption DEF Crash
  <2>2. TypeOK'
    BY <1>6, <2>1 DEF Crash, TypeOK, Submitted
  <2>3. Accounted'
    BY <1>6 DEF Crash, Accounted, OnTheWay, Submitted
  <2>4. QED
    BY <1>6, <2>1, <2>2, <2>3 DEF Crash, All
<1>7. ASSUME NEW t \in All, Take(t)
      PROVE  IInv'
  <2>1. t \notin bad
    BY <1>7 DEF Take
  <2>2. TypeOK'
    BY <1>7 DEF Take, TypeOK, Submitted
  <2>3. Submitted \subseteq All
    BY DEF Submitted, All
  <2>4. Accounted'
    BY <1>7, <2>1, <2>3 DEF Take, Accounted, OnTheWay, Submitted
  <2>5. QED
    BY <1>7, <2>2, <2>4 DEF Take, All
<1>8. ASSUME NEW t \in All, TakeFailed(t)
      PROVE  IInv'
  BY <1>8 DEF TakeFailed, TypeOK, Accounted, Submitted, All
<1>9. CASE Raise
  BY <1>9 DEF Raise, futures, TypeOK, Accounted, Submitted, All
<1>10. CASE Write
  BY <1>10 DEF Write, futures, TypeOK, Accounted, Submitted, All
<1>11. CASE UNCHANGED vars
  BY <1>11 DEF vars, futures, TypeOK, Accounted, OnTheWay, Submitted, All
<1>12. QED
  BY <1>1, <1>2, <1>3, <1>4, <1>5, <1>6, <1>7, <1>8, <1>9, <1>10, <1>11 DEF Next, Pool, Main

LEMMA IInvHolds == Spec => []IInv
BY InitIInv, NextIInv, PTL DEF Spec

\* TypeOK for any instructions and any number of processes: no more run than there are
\* processes, no future is in two places (process_all_tags).
THEOREM TypeCorrect == Spec => []TypeOK
<1>1. IInv => TypeOK
  BY DEF IInv
<1>2. QED
  BY IInvHolds, <1>1, PTL

\* Writing the file is generating one function after another.
LEMMA WriteGenerates ==
    ASSUME IInv, Write
    PROVE  Generated!Generate
<1>1. Submitted = All \ empty
  <2>1. i = Len(tags) + 1 /\ DOMAIN tags = 1 .. Len(tags) /\ Len(tags) \in Nat
    BY TagsAreSeq DEF Write, IInv
  <2>2. {k \in DOMAIN tags : k < i} = DOMAIN tags
    BY <2>1
  <2>3. QED
    BY <2>2 DEF Submitted, All
<1>2. \A t \in All \ empty : tag_to_fbody[t] = Body(t) /\ t \notin bad
  BY <1>1 DEF Write, IInv, Accounted, OnTheWay
<1>3. bad \subseteq empty
  BY <1>2 DEF IInv
<1>4. empty = {} => Functions = Generated!InOrder(tags)
  BY <1>2 DEF Functions, Generated!InOrder, All
<1>5. QED
  BY <1>3, <1>4 DEF Write, Generated!Generate

\* Only the end of the script shows in the file.
LEMMA PoolIsHidden ==
    ASSUME Submit \/ SubmitBroken \/ Collect \/ Crash
             \/ \E t \in All : Start(t) \/ Finish(t) \/ Take(t) \/ TakeFailed(t)
    PROVE  UNCHANGED Generated!vars
<1>1. CASE \E t \in All : Start(t) \/ Finish(t) \/ Take(t) \/ TakeFailed(t)
  BY <1>1 DEF Start, Finish, Take, TakeFailed, Generated!vars
<1>2. CASE Submit \/ SubmitBroken \/ Collect \/ Crash
  BY <1>2 DEF Submit, SubmitBroken, Collect, Crash, Generated!vars
<1>3. QED
  BY <1>1, <1>2

\* Implements for any instructions and any number of processes: the order in which
\* functions are finished, a function that cannot be generated and a process that dies do
\* not show in the file (process_all_tags, main).
THEOREM ImplementsGeneration == Spec => Implements
<1>1. Init => Generated!Init
  BY DEF Init, Generated!Init
<1>2. ASSUME IInv, [Next]_vars
      PROVE  [Generated!Next]_(Generated!vars)
  <2>1. Write => Generated!Next
    BY <1>2, WriteGenerates DEF Generated!Next
  <2>2. Raise => Generated!Next
    BY DEF Raise, Generated!Raise, Generated!Next
  <2>3. UNCHANGED vars => UNCHANGED Generated!vars
    BY DEF vars, Generated!vars
  <2>4. QED
    BY <1>2, <2>1, <2>2, <2>3, PoolIsHidden DEF Next, Pool, Main
<1>3. QED
  BY IInvHolds, <1>1, <1>2, PTL DEF Spec, Implements, Generated!Spec

-----------------------------------------------------------------------------
(* Sequences put together. *)

LEMMA LeastExists ==
    ASSUME NEW S \in SUBSET Nat, S # {}
    PROVE  \E j \in S : \A n \in S : j <= n
<1> DEFINE T == {0 .. (k - 1) : k \in S}
<1>1. T # {}
  OBVIOUS
<1>2. ASSUME NEW k \in S
      PROVE  0 .. (k - 1) \in FiniteSubsetsOf(Nat)
  <2>1. IsFiniteSet(0 .. (k - 1))
    BY FS_Interval
  <2>2. QED
    BY <2>1 DEF FiniteSubsetsOf
<1>3. T \subseteq FiniteSubsetsOf(Nat)
  BY <1>2
<1>4. PICK x \in T : \A y \in T : ~ (<<y, x>> \in StrictSubsetOrdering(Nat))
  <2> HIDE DEF T
  <2> QED BY <1>1, <1>3, FS_StrictSubsetOrderingWellFounded, WFMin
<1>5. PICK j \in S : x = 0 .. (j - 1)
  OBVIOUS
<1>6. ASSUME NEW n \in S, n < j
      PROVE  FALSE
  <2>1. <<0 .. (n - 1), 0 .. (j - 1)>> \in StrictSubsetOrdering(Nat)
    <3>1. n \in 0 .. (j - 1) /\ n \notin 0 .. (n - 1)
      BY <1>6
    <3>2. 0 .. (n - 1) \subseteq 0 .. (j - 1) /\ 0 .. (j - 1) \subseteq Nat
      BY <1>6
    <3>3. QED
      BY <3>1, <3>2 DEF StrictSubsetOrdering
  <2>2. QED
    BY <1>4, <1>5, <2>1
<1>7. QED
  BY <1>6

LEMMA InductionUpTo ==
    ASSUME NEW last \in Nat, NEW T, 0 \in T,
           \A n \in 1 .. last : n - 1 \in T => n \in T
    PROVE  0 .. last \subseteq T
<1> DEFINE Bad == {n \in 0 .. last : n \notin T}
<1>1. SUFFICES ASSUME Bad # {}
               PROVE  FALSE
  OBVIOUS
<1>2. Bad \in SUBSET Nat
  OBVIOUS
<1>3. PICK j \in Bad : \A n \in Bad : j <= n
  <2> HIDE DEF Bad
  <2> QED BY <1>1, <1>2, LeastExists
<1>4. j # 0 /\ j \in 1 .. last
  OBVIOUS
<1>5. j - 1 \in T
  <2>1. j - 1 \in 0 .. last /\ ~ (j <= j - 1)
    BY <1>4
  <2>2. QED
    BY <1>3, <2>1
<1>6. QED
  BY <1>4, <1>5

LEMMA FlattenWalk ==
    ASSUME NEW seqs, Len(seqs) \in Nat, Len(seqs) >= 1
    PROVE  \E walk : /\ walk[1] = seqs[1]
                     /\ \A n \in 2 .. Len(seqs) : walk[n] = walk[n - 1] \o seqs[n]
                     /\ FlattenSeq(seqs) = walk[Len(seqs)]
<1> DEFINE len == Len(seqs)
           Step(g, n) == IF n = 1 THEN seqs[n] ELSE g[n - 1] \o seqs[n]
           Unfolds(g, m) == g = [n \in 1 .. m |-> Step(g, n)]
           Defined == {m \in 0 .. len : \E g : Unfolds(g, m)}
           walk[n \in 1 .. len] == IF n = 1 THEN seqs[n] ELSE walk[n - 1] \o seqs[n]
<1>1. FlattenSeq(seqs) = walk[len]
  BY DEF FlattenSeq
<1>2. walk = CHOOSE g : Unfolds(g, len)
  OBVIOUS
<1> HIDE DEF len, walk
<1>3. 0 \in Defined
  <2>1. Unfolds([n \in 1 .. 0 |-> 0], 0)
    OBVIOUS
  <2>2. 0 \in 0 .. len
    BY DEF len
  <2> HIDE DEF Unfolds
  <2>3. QED
    BY <2>1, <2>2
<1>4. ASSUME NEW m \in 1 .. len, m - 1 \in Defined
      PROVE  m \in Defined
  <2>1. PICK g : Unfolds(g, m - 1)
    BY <1>4
  <2> DEFINE h == [n \in 1 .. m |-> IF n = m THEN Step(g, m) ELSE g[n]]
  <2>2. ASSUME NEW n \in 1 .. m
        PROVE  h[n] = Step(h, n)
    <3>1. CASE n = m
      BY <3>1
    <3>2. CASE n # m
      <4>1. n \in 1 .. m - 1
        BY <3>2
      <4>2. h[n] = g[n]
        BY <3>2
      <4>3. g[n] = Step(g, n)
        <5> HIDE DEF Step, h
        <5> QED BY <2>1, <4>1
      <4>4. n = 1 \/ h[n - 1] = g[n - 1]
        BY <4>1
      <4>5. QED
        BY <4>2, <4>3, <4>4
    <3>3. QED
      BY <3>1, <3>2
  <2>3. Unfolds(h, m)
    BY <2>2
  <2>4. m \in 0 .. len
    BY DEF len
  <2> HIDE DEF Unfolds
  <2>5. QED
    BY <2>3, <2>4
<1>5. \E g : Unfolds(g, len)
  <2>1. len \in 0 .. len /\ len \in Nat
    BY DEF len
  <2>2. 0 .. len \subseteq Defined
    <3> HIDE DEF Defined
    <3> QED BY <1>3, <1>4, <2>1, InductionUpTo
  <2>3. QED
    BY <2>1, <2>2
<1>6. Unfolds(walk, len)
  BY <1>2, <1>5
<1>7. walk[1] = seqs[1] /\ \A n \in 2 .. len : walk[n] = walk[n - 1] \o seqs[n]
  <2>1. 1 \in 1 .. len /\ 2 .. len \subseteq 1 .. len /\ \A n \in 2 .. len : n # 1
    BY DEF len
  <2>2. \A n \in 1 .. len : walk[n] = IF n = 1 THEN seqs[n] ELSE walk[n - 1] \o seqs[n]
    BY <1>6
  <2>3. QED
    BY <2>1, <2>2
<1>8. QED
  BY <1>1, <1>7 DEF len

IsSeq(v) == v \in Seq(Range(v))

\* Sequences over any set are meant.
LEMMA SeqIsSeq ==
    ASSUME NEW S, NEW v \in Seq(S)
    PROVE  IsSeq(v)
<1>1. \A n \in 1 .. Len(v) : v[n] \in Range(v)
  BY DEF Range
<1>2. QED
  BY <1>1 DEF IsSeq

\* Two sequences in a row are one.
LEMMA ConcatIsSeq ==
    ASSUME NEW a, NEW b, IsSeq(a), IsSeq(b)
    PROVE  IsSeq(a \o b)
<1> DEFINE S == Range(a) \cup Range(b)
<1>1. a \in Seq(S) /\ b \in Seq(S)
  BY DEF IsSeq
<1> HIDE DEF S
<1>2. a \o b \in Seq(S)
  BY <1>1, ConcatProperties
<1>3. QED
  BY <1>2, SeqIsSeq

\* Nothing is added by an empty sequence.
LEMMA ConcatNothing ==
    ASSUME NEW a, IsSeq(a)
    PROVE  a \o << >> = a /\ << >> \o a = a
BY ConcatEmptySeq DEF IsSeq

\* The empty sequence is one of them.
LEMMA EmptyIsSeq == IsSeq(<< >>)
<1> DEFINE S == {}
<1>1. << >> \in Seq(S)
  OBVIOUS
<1> HIDE DEF S
<1>2. QED
  BY <1>1, SeqIsSeq

\* No sequences flatten to the empty one.
LEMMA FlattenNone ==
    ASSUME NEW g
    PROVE  FlattenSeq([j \in 1 .. 0 |-> g[j]]) = << >>
<1>1. [j \in 1 .. 0 |-> g[j]] = << >>
  OBVIOUS
<1>2. Len(<< >>) = 0
  OBVIOUS
<1>3. QED
  BY <1>1, <1>2 DEF FlattenSeq

\* One sequence more.
LEMMA FlattenMore ==
    ASSUME NEW g, NEW m \in Nat, m >= 1, \A j \in 1 .. m : IsSeq(g[j])
    PROVE  FlattenSeq([j \in 1 .. m |-> g[j]]) = FlattenSeq([j \in 1 .. m - 1 |-> g[j]]) \o g[m]
<1> DEFINE s == [j \in 1 .. m |-> g[j]]
           u == [j \in 1 .. m - 1 |-> g[j]]
<1>1. Len(s) = m /\ Len(u) = m - 1 /\ m - 1 \in Nat
  OBVIOUS
<1>2. s[m] = g[m] /\ \A j \in 1 .. m - 1 : s[j] = u[j]
  OBVIOUS
<1> HIDE DEF s, u
<1>3. PICK w : w[1] = s[1] /\ (\A n \in 2 .. m : w[n] = w[n - 1] \o s[n]) /\ FlattenSeq(s) = w[m]
  BY <1>1, FlattenWalk
<1>4. CASE m = 1
  <2>1. FlattenSeq(u) = << >>
    BY <1>4, FlattenNone DEF u
  <2>2. FlattenSeq(s) = g[m]
    BY <1>2, <1>3, <1>4
  <2>3. << >> \o g[m] = g[m]
    BY <1>4, ConcatNothing
  <2>4. QED
    BY <2>1, <2>2, <2>3 DEF s, u
<1>5. CASE m # 1
  <2>1. m - 1 >= 1 /\ m \in 2 .. m
    BY <1>5
  <2>2. PICK v : /\ v[1] = u[1] /\ (\A n \in 2 .. m - 1 : v[n] = v[n - 1] \o u[n])
                 /\ FlattenSeq(u) = v[m - 1]
    BY <1>1, <2>1, FlattenWalk
  <2> DEFINE T == {n \in 0 .. m - 1 : n = 0 \/ v[n] = w[n]}
  <2>3. 0 \in T
    BY <1>1
  <2>4. ASSUME NEW n \in 1 .. m - 1, n - 1 \in T
        PROVE  n \in T
    <3>1. CASE n = 1
      <4>1. v[1] = w[1]
        BY <1>2, <1>3, <2>1, <2>2
      <4>2. QED
        BY <3>1, <4>1
    <3>2. CASE n # 1
      <4>1. n \in 2 .. m - 1 /\ n \in 2 .. m /\ n - 1 # 0
        BY <3>2
      <4>2. v[n - 1] = w[n - 1]
        BY <2>4, <4>1
      <4>3. s[n] = u[n]
        BY <1>2
      <4>4. v[n] = w[n]
        BY <1>3, <2>2, <4>1, <4>2, <4>3
      <4>5. QED
        BY <4>4
    <3>3. QED
      BY <3>1, <3>2
  <2>5. 0 .. m - 1 \subseteq T
    <3> DEFINE k == m - 1
    <3>1. 0 \in T /\ \A n \in 1 .. k : n - 1 \in T => n \in T
      BY <2>3, <2>4
    <3>2. k \in Nat
      BY <1>1
    <3> HIDE DEF T, k
    <3>3. 0 .. k \subseteq T
      BY <3>1, <3>2, InductionUpTo
    <3>4. QED
      BY <3>3 DEF k
  <2>6. v[m - 1] = w[m - 1]
    <3>1. m - 1 \in 0 .. m - 1 /\ m - 1 # 0
      BY <2>1
    <3>2. QED
      BY <2>5, <3>1
  <2>7. FlattenSeq(s) = FlattenSeq(u) \o g[m]
    BY <1>2, <1>3, <2>1, <2>2, <2>6
  <2>8. QED
    BY <2>7 DEF s, u
<1>6. QED
  BY <1>4, <1>5

\* Sequences flatten to a sequence.
LEMMA FlattenIsSeq ==
    ASSUME NEW g, NEW l \in Nat, \A j \in 1 .. l : IsSeq(g[j])
    PROVE  IsSeq(FlattenSeq([j \in 1 .. l |-> g[j]]))
<1> DEFINE F(m) == FlattenSeq([j \in 1 .. m |-> g[j]])
           T == {m \in 0 .. l : IsSeq(F(m))}
<1>1. 0 \in T
  BY FlattenNone, EmptyIsSeq
<1>2. ASSUME NEW m \in 1 .. l, m - 1 \in T
      PROVE  m \in T
  <2>1. F(m) = F(m - 1) \o g[m]
    <3>1. m \in Nat /\ m >= 1 /\ \A j \in 1 .. m : IsSeq(g[j])
      OBVIOUS
    <3>2. QED
      BY <3>1, FlattenMore
  <2>2. IsSeq(F(m - 1)) /\ IsSeq(g[m])
    BY <1>2
  <2> HIDE DEF F
  <2>3. IsSeq(F(m))
    BY <2>1, <2>2, ConcatIsSeq
  <2>4. QED
    BY <2>3
<1>3. 0 .. l \subseteq T
  <2> HIDE DEF T
  <2> QED BY <1>1, <1>2, InductionUpTo
<1>4. l \in 0 .. l
  OBVIOUS
<1>5. QED
  BY <1>3, <1>4

LEMMA ConcatAssociates ==
    ASSUME NEW a, NEW b, NEW c, IsSeq(a), IsSeq(b), IsSeq(c)
    PROVE  (a \o b) \o c = a \o (b \o c)
<1> DEFINE S == Range(a) \cup Range(b) \cup Range(c)
<1>1. a \in Seq(S) /\ b \in Seq(S) /\ c \in Seq(S)
  BY DEF IsSeq
<1> HIDE DEF S
<1>2. QED
  BY <1>1, ConcatAssociative

\* The first l of them put together.
Joined(g, l) == FlattenSeq([j \in 1 .. l |-> g[j]])

\* What f makes of the elements of a sequence, put together.
Each(f, s) == FlattenSeq([n \in 1 .. Len(s) |-> f[s[n]]])

LEMMA JoinedNone == ASSUME NEW g PROVE Joined(g, 0) = << >>
BY FlattenNone DEF Joined

LEMMA JoinedMore ==
    ASSUME NEW g, NEW m \in Nat, m >= 1, \A j \in 1 .. m : IsSeq(g[j])
    PROVE  Joined(g, m) = Joined(g, m - 1) \o g[m]
BY FlattenMore DEF Joined

LEMMA JoinedSame ==
    ASSUME NEW g, NEW h, NEW l \in Nat, \A j \in 1 .. l : g[j] = h[j]
    PROVE  Joined(g, l) = Joined(h, l)
<1>1. [j \in 1 .. l |-> g[j]] = [j \in 1 .. l |-> h[j]]
  OBVIOUS
<1>2. QED
  BY <1>1 DEF Joined

LEMMA JoinedInSeq ==
    ASSUME NEW S, NEW g, NEW l \in Nat, \A j \in 1 .. l : g[j] \in Seq(S)
    PROVE  Joined(g, l) \in Seq(S)
<1> DEFINE T == {m \in 0 .. l : Joined(g, m) \in Seq(S)}
<1>1. 0 \in T
  <2>1. << >> \in Seq(S) /\ 0 \in 0 .. l
    OBVIOUS
  <2>2. Joined(g, 0) = << >>
    BY JoinedNone
  <2>3. Joined(g, 0) \in Seq(S)
    BY <2>1, <2>2, Zenon
  <2>4. QED
    BY <2>1, <2>3
<1>2. ASSUME NEW m \in 1 .. l, m - 1 \in T
      PROVE  m \in T
  <2>1. m \in Nat /\ m >= 1 /\ \A j \in 1 .. m : IsSeq(g[j])
    BY SeqIsSeq
  <2>2. Joined(g, m) = Joined(g, m - 1) \o g[m]
    BY <2>1, JoinedMore
  <2>3. Joined(g, m - 1) \in Seq(S) /\ g[m] \in Seq(S)
    BY <1>2
  <2>4. Joined(g, m) \in Seq(S)
    BY <2>2, <2>3, ConcatProperties
  <2>5. QED
    BY <2>4
<1>3. 0 .. l \subseteq T
  <2> HIDE DEF T
  <2> QED BY <1>1, <1>2, InductionUpTo
<1>4. l \in 0 .. l
  OBVIOUS
<1>5. QED
  BY <1>3, <1>4

\* Place p of the first m together is that of an element of one of them.
Comes(g, p, m) == \E k \in 1 .. m : \E n \in 1 .. Len(g[k]) : p = Len(Joined(g, k - 1)) + n

\* The nth of g[k] stands after the sequences before it.
Lands(g, k, n, m) ==
    /\ Len(Joined(g, k - 1)) + n \in 1 .. Len(Joined(g, m))
    /\ Joined(g, m)[Len(Joined(g, k - 1)) + n] = g[k][n]

\* Where the elements of the sequences are in the whole: those of g[k] after those of the
\* sequences before, and nothing else.
LEMMA JoinedElements ==
    ASSUME NEW S, NEW g, NEW l \in Nat, \A j \in 1 .. l : g[j] \in Seq(S)
    PROVE  /\ \A k \in 1 .. l : \A n \in 1 .. Len(g[k]) : Lands(g, k, n, l)
           /\ \A p \in 1 .. Len(Joined(g, l)) : Comes(g, p, l)
<1> DEFINE Placed(m) ==
              \A k \in 1 .. m : \A n \in 1 .. Len(g[k]) :
                 /\ Len(Joined(g, k - 1)) + n \in 1 .. Len(Joined(g, m))
                 /\ Joined(g, m)[Len(Joined(g, k - 1)) + n] = g[k][n]
           Covered(m) ==
              \A p \in 1 .. Len(Joined(g, m)) : \E k \in 1 .. m : \E n \in 1 .. Len(g[k]) :
                 p = Len(Joined(g, k - 1)) + n
           T == {m \in 0 .. l : Placed(m) /\ Covered(m)}
<1>1. 0 \in T
  <2>1. Len(Joined(g, 0)) = 0
    BY JoinedNone
  <2>2. QED
    BY <2>1
<1>2. ASSUME NEW m \in 1 .. l, m - 1 \in T
      PROVE  m \in T
  <2>1. m \in Nat /\ m >= 1 /\ \A j \in 1 .. m : IsSeq(g[j])
    BY SeqIsSeq
  <2>2. Joined(g, m) = Joined(g, m - 1) \o g[m]
    BY <2>1, JoinedMore
  <2>3. Joined(g, m - 1) \in Seq(S) /\ g[m] \in Seq(S)
    <3>1. m - 1 \in Nat /\ \A j \in 1 .. m - 1 : g[j] \in Seq(S)
      OBVIOUS
    <3>2. QED
      BY <3>1, JoinedInSeq
  <2> DEFINE a == Joined(g, m - 1)
             b == g[m]
             w == Joined(g, m)
  <2>4. /\ Len(a) \in Nat /\ Len(b) \in Nat /\ Len(w) = Len(a) + Len(b)
        /\ \A n \in 1 .. Len(a) : w[n] = a[n]
        /\ \A n \in 1 .. Len(b) : w[Len(a) + n] = b[n]
    BY <2>2, <2>3, ConcatProperties, LenProperties
  <2>5. /\ \A k \in 1 .. m - 1 : \A n \in 1 .. Len(g[k]) :
               /\ Len(Joined(g, k - 1)) + n \in 1 .. Len(a)
               /\ a[Len(Joined(g, k - 1)) + n] = g[k][n]
        /\ \A p \in 1 .. Len(a) : \E k \in 1 .. m - 1 : \E n \in 1 .. Len(g[k]) :
               p = Len(Joined(g, k - 1)) + n
    BY <1>2
  <2>6. \A k \in 1 .. m : k \in 1 .. m - 1 \/ k = m
    OBVIOUS
  <2>7. 1 .. m - 1 \subseteq 1 .. m /\ m \in 1 .. m
    OBVIOUS
  <2> HIDE DEF w, a, b
  <2>8. ASSUME NEW k \in 1 .. m, NEW n \in 1 .. Len(g[k])
        PROVE  Len(Joined(g, k - 1)) + n \in 1 .. Len(w) /\ w[Len(Joined(g, k - 1)) + n] = g[k][n]
    <3>1. CASE k \in 1 .. m - 1
      <4>1. Len(Joined(g, k - 1)) + n \in 1 .. Len(a) /\ a[Len(Joined(g, k - 1)) + n] = g[k][n]
        BY <2>5, <3>1
      <4>2. \A p \in 1 .. Len(a) : p \in 1 .. Len(w)
        BY <2>4
      <4>3. QED
        BY <2>4, <4>1, <4>2
    <3>2. CASE k = m
      <4>1. Joined(g, k - 1) = a /\ g[k] = b
        BY <3>2 DEF a, b
      <4>2. \A p \in 1 .. Len(b) : Len(a) + p \in 1 .. Len(w)
        BY <2>4
      <4>3. QED
        BY <2>4, <4>1, <4>2
    <3>3. QED
      BY <2>6, <3>1, <3>2
  <2>9. ASSUME NEW p \in 1 .. Len(w)
        PROVE  \E k \in 1 .. m : \E n \in 1 .. Len(g[k]) : p = Len(Joined(g, k - 1)) + n
    <3>1. CASE p \in 1 .. Len(a)
      BY <2>5, <2>7, <3>1
    <3>2. CASE p \notin 1 .. Len(a)
      <4>1. p - Len(a) \in 1 .. Len(b) /\ p = Len(a) + (p - Len(a))
        BY <2>4, <3>2
      <4>2. QED
        BY <2>7, <4>1 DEF a, b
    <3>3. QED
      BY <3>1, <3>2
  <2>10. Placed(m) /\ Covered(m)
    BY <2>8, <2>9 DEF w
  <2> HIDE DEF Placed, Covered
  <2>11. QED
    BY <2>10
<1>3. 0 .. l \subseteq T
  <2> HIDE DEF T
  <2> QED BY <1>1, <1>2, InductionUpTo
<1>4. l \in T
  <2>1. l \in 0 .. l
    OBVIOUS
  <2> HIDE DEF T
  <2>2. QED
    BY <1>3, <2>1
<1>5. QED
  BY <1>4 DEF Comes, Lands

LEMMA EachIsJoined ==
    ASSUME NEW f, NEW s
    PROVE  Each(f, s) = Joined([n \in 1 .. Len(s) |-> f[s[n]]], Len(s))
<1> DEFINE g == [n \in 1 .. Len(s) |-> f[s[n]]]
<1>1. g = [j \in 1 .. Len(s) |-> g[j]]
  OBVIOUS
<1>2. QED
  BY <1>1 DEF Each, Joined

LEMMA EachNone == ASSUME NEW f PROVE Each(f, << >>) = << >>
<1>1. Len(<< >>) = 0
  OBVIOUS
<1>2. QED
  BY <1>1, EachIsJoined, JoinedNone

\* What f makes of an element is a sequence.
Makes(f, S) == \A x \in S : IsSeq(f[x])

LEMMA EachIsSeq ==
    ASSUME NEW S, NEW f, Makes(f, S), NEW s \in Seq(S)
    PROVE  IsSeq(Each(f, s))
<1> DEFINE g == [n \in 1 .. Len(s) |-> f[s[n]]]
<1>1. Len(s) \in Nat /\ \A n \in 1 .. Len(s) : IsSeq(g[n])
  BY LenProperties, ElementOfSeq DEF Makes
<1> HIDE DEF g
<1>2. IsSeq(Joined(g, Len(s)))
  BY <1>1, FlattenIsSeq DEF Joined
<1>3. QED
  BY <1>2, EachIsJoined DEF g

LEMMA EachConcat ==
    ASSUME NEW S, NEW f, Makes(f, S), NEW a \in Seq(S), NEW b \in Seq(S)
    PROVE  Each(f, a \o b) = Each(f, a) \o Each(f, b)
<1> DEFINE c == a \o b
           ga == [n \in 1 .. Len(a) |-> f[a[n]]]
           gb == [n \in 1 .. Len(b) |-> f[b[n]]]
           gc == [n \in 1 .. Len(c) |-> f[c[n]]]
           T == {m \in 0 .. Len(b) : Joined(gc, Len(a) + m) = Joined(ga, Len(a)) \o Joined(gb, m)}
<1>1. /\ Len(a) \in Nat /\ Len(b) \in Nat /\ Len(c) = Len(a) + Len(b)
      /\ \A n \in 1 .. Len(a) : c[n] = a[n] /\ a[n] \in S
      /\ \A n \in 1 .. Len(b) : c[Len(a) + n] = b[n] /\ b[n] \in S
  BY ConcatProperties, LenProperties, ElementOfSeq
<1>2. /\ \A n \in 1 .. Len(a) : n \in 1 .. Len(c)
      /\ \A n \in 1 .. Len(b) : Len(a) + n \in 1 .. Len(c)
      /\ \A n \in 1 .. Len(c) : n \in 1 .. Len(a) \/ (n - Len(a) \in 1 .. Len(b) /\ n = Len(a) + (n - Len(a)))
  BY <1>1
<1>3. /\ \A n \in 1 .. Len(a) : ga[n] = gc[n] /\ IsSeq(ga[n])
      /\ \A n \in 1 .. Len(b) : gb[n] = gc[Len(a) + n] /\ IsSeq(gb[n])
  BY <1>1, <1>2 DEF Makes
<1>4. \A n \in 1 .. Len(c) : IsSeq(gc[n])
  <2> HIDE DEF ga, gb, gc, c
  <2> QED BY <1>2, <1>3
<1> HIDE DEF ga, gb, gc, c
<1>5. IsSeq(Joined(ga, Len(a)))
  BY <1>1, <1>3, FlattenIsSeq DEF Joined
<1>6. 0 \in T
  <2>1. Joined(gc, Len(a)) = Joined(ga, Len(a))
    BY <1>1, <1>3, JoinedSame
  <2>2. Joined(ga, Len(a)) \o Joined(gb, 0) = Joined(ga, Len(a))
    BY <1>5, JoinedNone, ConcatNothing
  <2>3. Len(a) + 0 = Len(a)
    BY <1>1
  <2>4. QED
    BY <1>1, <2>1, <2>2, <2>3
<1>7. ASSUME NEW m \in 1 .. Len(b), m - 1 \in T
      PROVE  m \in T
  <2>1. Joined(gc, Len(a) + m) = Joined(gc, Len(a) + (m - 1)) \o gc[Len(a) + m]
    <3> DEFINE k == Len(a) + m
    <3>1. k \in Nat /\ k >= 1 /\ k - 1 = Len(a) + (m - 1) /\ \A n \in 1 .. k : n \in 1 .. Len(c)
      BY <1>1
    <3> HIDE DEF k
    <3>2. Joined(gc, k) = Joined(gc, k - 1) \o gc[k]
      BY <1>4, <3>1, JoinedMore
    <3>3. QED
      BY <3>1, <3>2 DEF k
  <2>2. Joined(gb, m) = Joined(gb, m - 1) \o gb[m]
    <3>1. m \in Nat /\ m >= 1 /\ \A n \in 1 .. m : n \in 1 .. Len(b)
      BY <1>1
    <3>2. QED
      BY <1>3, <3>1, JoinedMore
  <2>3. Joined(gc, Len(a) + (m - 1)) = Joined(ga, Len(a)) \o Joined(gb, m - 1)
    BY <1>7
  <2>4. gc[Len(a) + m] = gb[m]
    BY <1>3
  <2>5. IsSeq(Joined(gb, m - 1)) /\ IsSeq(gb[m])
    <3>1. m - 1 \in Nat /\ \A n \in 1 .. m - 1 : n \in 1 .. Len(b)
      BY <1>1
    <3>2. IsSeq(Joined(gb, m - 1))
      BY <1>3, <3>1, FlattenIsSeq DEF Joined
    <3>3. QED
      BY <1>3, <3>2
  <2>6. (Joined(ga, Len(a)) \o Joined(gb, m - 1)) \o gb[m] = Joined(ga, Len(a)) \o (Joined(gb, m - 1) \o gb[m])
    <3> DEFINE u == Joined(ga, Len(a))
               v == Joined(gb, m - 1)
               w == gb[m]
    <3>1. IsSeq(u) /\ IsSeq(v) /\ IsSeq(w)
      BY <1>5, <2>5
    <3> HIDE DEF u, v, w
    <3>2. (u \o v) \o w = u \o (v \o w)
      BY <3>1, ConcatAssociates
    <3>3. QED
      BY <3>2 DEF u, v, w
  <2>7. m \in 0 .. Len(b)
    BY <1>1
  <2>8. QED
    BY <2>6, <2>7, <2>1, <2>2, <2>3, <2>4
<1>8. 0 .. Len(b) \subseteq T
  <2> HIDE DEF T
  <2> QED BY <1>1, <1>6, <1>7, InductionUpTo
<1>9. Len(b) \in 0 .. Len(b)
  BY <1>1
<1>10. Joined(gc, Len(c)) = Joined(ga, Len(a)) \o Joined(gb, Len(b))
  BY <1>1, <1>8, <1>9
<1>11. /\ Each(f, a \o b) = Joined(gc, Len(c))
       /\ Each(f, a) = Joined(ga, Len(a))
       /\ Each(f, b) = Joined(gb, Len(b))
  BY EachIsJoined DEF ga, gb, gc, c
<1>12. QED
  BY <1>10, <1>11

\* What f makes of sequences put together.
LEMMA EachJoined ==
    ASSUME NEW S, NEW f, Makes(f, S),
           NEW g, NEW l \in Nat, \A j \in 1 .. l : g[j] \in Seq(S),
           NEW h, \A j \in 1 .. l : h[j] = Each(f, g[j])
    PROVE  Each(f, Joined(g, l)) = Joined(h, l)
<1> DEFINE T == {m \in 0 .. l : Each(f, Joined(g, m)) = Joined(h, m)}
<1>1. 0 \in T
  BY JoinedNone, EachNone
<1>2. ASSUME NEW m \in 1 .. l, m - 1 \in T
      PROVE  m \in T
  <2>1. m \in Nat /\ m >= 1 /\ m - 1 \in Nat /\ \A j \in 1 .. m : j \in 1 .. l
    OBVIOUS
  <2>2. Joined(g, m) = Joined(g, m - 1) \o g[m]
    BY <2>1, JoinedMore, SeqIsSeq
  <2>3. Joined(g, m - 1) \in Seq(S) /\ g[m] \in Seq(S)
    BY <2>1, JoinedInSeq
  <2>4. Each(f, Joined(g, m)) = Each(f, Joined(g, m - 1)) \o Each(f, g[m])
    BY <2>2, <2>3, EachConcat
  <2>5. \A j \in 1 .. m : IsSeq(h[j])
    BY <2>1, EachIsSeq
  <2>6. Joined(h, m) = Joined(h, m - 1) \o h[m]
    BY <2>1, <2>5, JoinedMore
  <2>7. h[m] = Each(f, g[m]) /\ Each(f, Joined(g, m - 1)) = Joined(h, m - 1)
    BY <1>2
  <2>8. QED
    BY <2>1, <2>4, <2>6, <2>7
<1>3. 0 .. l \subseteq T
  <2> HIDE DEF T
  <2> QED BY <1>1, <1>2, InductionUpTo
<1>4. l \in 0 .. l
  OBVIOUS
<1>5. QED
  BY <1>3, <1>4

\* Of a few elements.
LEMMA JoinedOne ==
    ASSUME NEW g, IsSeq(g[1])
    PROVE  Joined(g, 1) = g[1]
<1>1. Joined(g, 1) = Joined(g, 0) \o g[1]
  <2>1. 1 - 1 = 0 /\ 1 \in Nat /\ 1 >= 1 /\ \A j \in 1 .. 1 : IsSeq(g[j])
    OBVIOUS
  <2>2. Joined(g, 1) = Joined(g, 1 - 1) \o g[1]
    BY <2>1, JoinedMore
  <2>3. QED
    BY <2>1, <2>2
<1>2. QED
  BY <1>1, JoinedNone, ConcatNothing

LEMMA JoinedTwo ==
    ASSUME NEW g, IsSeq(g[1]), IsSeq(g[2])
    PROVE  Joined(g, 2) = g[1] \o g[2]
<1>1. 2 - 1 = 1 /\ 2 \in Nat /\ 2 >= 1 /\ \A j \in 1 .. 2 : IsSeq(g[j])
  <2>1. \A j \in 1 .. 2 : j = 1 \/ j = 2
    OBVIOUS
  <2>2. QED
    BY <2>1
<1>2. Joined(g, 2) = Joined(g, 2 - 1) \o g[2]
  BY <1>1, JoinedMore
<1>3. QED
  BY <1>1, <1>2, JoinedOne

LEMMA JoinedThree ==
    ASSUME NEW g, IsSeq(g[1]), IsSeq(g[2]), IsSeq(g[3])
    PROVE  Joined(g, 3) = (g[1] \o g[2]) \o g[3]
<1>1. 3 - 1 = 2 /\ 3 \in Nat /\ 3 >= 1 /\ \A j \in 1 .. 3 : IsSeq(g[j])
  <2>1. \A j \in 1 .. 3 : j = 1 \/ j = 2 \/ j = 3
    OBVIOUS
  <2>2. QED
    BY <2>1
<1>2. Joined(g, 3) = Joined(g, 3 - 1) \o g[3]
  BY <1>1, JoinedMore
<1>3. QED
  BY <1>1, <1>2, JoinedTwo

LEMMA OneIsSeq == ASSUME NEW x PROVE IsSeq(<<x>>)
<1> DEFINE S == {x}
<1>1. <<x>> \in Seq(S)
  OBVIOUS
<1> HIDE DEF S
<1>2. QED
  BY <1>1, SeqIsSeq

LEMMA EachOne ==
    ASSUME NEW f, NEW x, IsSeq(f[x])
    PROVE  Each(f, <<x>>) = f[x]
<1> DEFINE g == [n \in 1 .. Len(<<x>>) |-> f[<<x>>[n]]]
<1>1. Len(<<x>>) = 1 /\ <<x>>[1] = x /\ 1 \in 1 .. 1
  OBVIOUS
<1>2. g[1] = f[x]
  BY <1>1
<1>3. Each(f, <<x>>) = Joined(g, 1)
  BY <1>1, EachIsJoined
<1> HIDE DEF g
<1>4. QED
  BY <1>2, <1>3, JoinedOne

LEMMA EachTwo ==
    ASSUME NEW f, NEW x, NEW y, IsSeq(f[x]), IsSeq(f[y])
    PROVE  Each(f, <<x, y>>) = f[x] \o f[y]
<1> DEFINE g == [n \in 1 .. Len(<<x, y>>) |-> f[<<x, y>>[n]]]
<1>1. Len(<<x, y>>) = 2 /\ <<x, y>>[1] = x /\ <<x, y>>[2] = y /\ 1 \in 1 .. 2 /\ 2 \in 1 .. 2
  OBVIOUS
<1>2. g[1] = f[x] /\ g[2] = f[y]
  BY <1>1
<1>3. Each(f, <<x, y>>) = Joined(g, 2)
  BY <1>1, EachIsJoined
<1> HIDE DEF g
<1>4. QED
  BY <1>2, <1>3, JoinedTwo

-----------------------------------------------------------------------------
(* The two layouts: the transformer's spaces some literals out. *)

\* What stands in the grammar's layout.
Literals == {"$1", "$2", "$3", "$4", "$5", "$6", SlotComma,
             "(", ")", ",", "if (", "=", ";", ":raw", ":circ(", ":brev", "*"}

LEMMA LiteralsAreSolid == \A s \in Literals : s # " " /\ Solid(s) = s
BY DEF Literals, Solid, SlotComma

LEMMA LiteralsHave ==
    /\ "$1" \in Literals /\ "$2" \in Literals /\ "$3" \in Literals /\ "$4" \in Literals
    /\ "$5" \in Literals /\ "$6" \in Literals /\ ",$2" \in Literals /\ "(" \in Literals
    /\ ")" \in Literals /\ "," \in Literals /\ "if (" \in Literals /\ "=" \in Literals
    /\ ";" \in Literals /\ ":raw" \in Literals /\ ":circ(" \in Literals
    /\ ":brev" \in Literals /\ "*" \in Literals
BY DEF Literals, SlotComma

\* Tuples are sequences.
LEMMA TupleOf2 ==
    ASSUME NEW S, NEW a \in S, NEW b \in S
    PROVE  <<a, b>> \in Seq(S)
OBVIOUS

LEMMA TupleOf3 ==
    ASSUME NEW S, NEW a \in S, NEW b \in S, NEW c \in S
    PROVE  <<a, b, c>> \in Seq(S)
OBVIOUS

LEMMA TupleOf4 ==
    ASSUME NEW S, NEW a \in S, NEW b \in S, NEW c \in S, NEW d \in S
    PROVE  <<a, b, c, d>> \in Seq(S)
OBVIOUS

LEMMA TupleOf5 ==
    ASSUME NEW S, NEW a \in S, NEW b \in S, NEW c \in S, NEW d \in S, NEW e \in S
    PROVE  <<a, b, c, d, e>> \in Seq(S)
OBVIOUS

LEMMA TupleOf6 ==
    ASSUME NEW S, NEW a \in S, NEW b \in S, NEW c \in S, NEW d \in S,
           NEW e \in S, NEW u \in S
    PROVE  <<a, b, c, d, e, u>> \in Seq(S)
OBVIOUS

LEMMA TupleOf7 ==
    ASSUME NEW S, NEW a \in S, NEW b \in S, NEW c \in S, NEW d \in S,
           NEW e \in S, NEW u \in S, NEW v \in S
    PROVE  <<a, b, c, d, e, u, v>> \in Seq(S)
OBVIOUS

LEMMA TupleOf8 ==
    ASSUME NEW S, NEW a \in S, NEW b \in S, NEW c \in S, NEW d \in S,
           NEW e \in S, NEW u \in S, NEW v \in S, NEW w \in S
    PROVE  <<a, b, c, d, e, u, v, w>> \in Seq(S)
OBVIOUS

CallRules == {"call_exp", "if_exp", "cond2", "call1_no_paren", "call1", "call2", "call2_rator",
    "call3", "call_rator2", "call_rator3", "call_nested1", "call_nested2", "call_nested3"}
AssignmentRules == {"assign_to_op", "assign_comma", "assign_to_exp", "raw_hint", "res_hint"}
OperandRules == {"circ_addr", "reg_dot", "reg_brev", "reg_star", "not_reg"}

LEMMA RulesAre ==
    /\ DOMAIN Calls = CallRules /\ DOMAIN Assignments = AssignmentRules
    /\ DOMAIN Operands = OperandRules
    /\ DOMAIN insn_grammar = CallRules \cup AssignmentRules \cup OperandRules
    /\ CallRules \cap AssignmentRules = {} /\ CallRules \cap OperandRules = {}
    /\ AssignmentRules \cap OperandRules = {}
    /\ "text" \notin DOMAIN insn_grammar /\ "none" \notin DOMAIN insn_grammar
<1>1. /\ DOMAIN Calls = CallRules /\ DOMAIN Assignments = AssignmentRules
      /\ DOMAIN Operands = OperandRules
  BY DEF Calls, Assignments, Operands, CallRules, AssignmentRules, OperandRules
<1>2. /\ CallRules \cap AssignmentRules = {} /\ CallRules \cap OperandRules = {}
      /\ AssignmentRules \cap OperandRules = {}
  BY DEF CallRules, AssignmentRules, OperandRules
<1>3. DOMAIN insn_grammar = CallRules \cup AssignmentRules \cup OperandRules
  BY DEF CallRules, AssignmentRules, OperandRules, insn_grammar
<1>4. "text" \notin DOMAIN insn_grammar /\ "none" \notin DOMAIN insn_grammar
  BY DEF insn_grammar
<1>5. QED
  BY <1>1, <1>2, <1>3, <1>4

LEMMA TransformerIs ==
    /\ DOMAIN Transformer = DOMAIN insn_grammar
    /\ \A r \in CallRules : Transformer[r] = Calls[r]
    /\ \A r \in AssignmentRules : Transformer[r] = Assignments[r]
    /\ \A r \in OperandRules : Transformer[r] = Operands[r]
BY RulesAre DEF Transformer

\* The rules whose literals the transformer leaves as they are.
Spaced == {"if_exp", "call1_no_paren", "assign_to_op", "assign_comma", "assign_to_exp"}

LEMMA SameCalls == \A r \in CallRules \ Spaced : Transformer[r] = insn_grammar[r]
<1>1. insn_grammar["call_exp"] = Calls["call_exp"]
  BY DEF insn_grammar, Calls
<1>2. insn_grammar["cond2"] = Calls["cond2"]
  BY DEF insn_grammar, Calls
<1>3. insn_grammar["call1"] = Calls["call1"]
  BY DEF insn_grammar, Calls
<1>4. insn_grammar["call2"] = Calls["call2"]
  BY DEF insn_grammar, Calls
<1>5. insn_grammar["call2_rator"] = Calls["call2_rator"]
  BY DEF insn_grammar, Calls
<1>6. insn_grammar["call3"] = Calls["call3"]
  BY DEF insn_grammar, Calls
<1>7. insn_grammar["call_rator2"] = Calls["call_rator2"]
  BY DEF insn_grammar, Calls
<1>8. insn_grammar["call_rator3"] = Calls["call_rator3"]
  BY DEF insn_grammar, Calls
<1>9. insn_grammar["call_nested1"] = Calls["call_nested1"]
  BY DEF insn_grammar, Calls
<1>10. insn_grammar["call_nested2"] = Calls["call_nested2"]
  BY DEF insn_grammar, Calls
<1>11. insn_grammar["call_nested3"] = Calls["call_nested3"]
  BY DEF insn_grammar, Calls
<1>12. QED
  BY <1>1, <1>2, <1>3, <1>4, <1>5, <1>6, <1>7, <1>8, <1>9, <1>10, <1>11, TransformerIs DEF CallRules, Spaced

LEMMA SameAssignments == \A r \in AssignmentRules \ Spaced : Transformer[r] = insn_grammar[r]
<1>1. insn_grammar["raw_hint"] = Assignments["raw_hint"]
  BY DEF insn_grammar, Assignments
<1>2. insn_grammar["res_hint"] = Assignments["res_hint"]
  BY DEF insn_grammar, Assignments
<1>3. QED
  BY <1>1, <1>2, TransformerIs DEF AssignmentRules, Spaced

LEMMA SameOperands == \A r \in OperandRules \ Spaced : Transformer[r] = insn_grammar[r]
<1>1. insn_grammar["circ_addr"] = Operands["circ_addr"]
  BY DEF insn_grammar, Operands
<1>2. insn_grammar["reg_dot"] = Operands["reg_dot"]
  BY DEF insn_grammar, Operands
<1>3. insn_grammar["reg_brev"] = Operands["reg_brev"]
  BY DEF insn_grammar, Operands
<1>4. insn_grammar["reg_star"] = Operands["reg_star"]
  BY DEF insn_grammar, Operands
<1>5. insn_grammar["not_reg"] = Operands["not_reg"]
  BY DEF insn_grammar, Operands
<1>6. QED
  BY <1>1, <1>2, <1>3, <1>4, <1>5, TransformerIs DEF OperandRules, Spaced

LEMMA LiteralsOfCalls == \A r \in CallRules : insn_grammar[r] \in Seq(Literals)
<1>1. insn_grammar["call_exp"] \in Seq(Literals)
  <2>1. insn_grammar["call_exp"] = <<"$1", "$2", "$3">>
    BY DEF insn_grammar
  <2>2. <<"$1", "$2", "$3">> \in Seq(Literals)
    BY LiteralsHave, TupleOf3
  <2>3. QED
    BY <2>1, <2>2, Zenon
<1>2. insn_grammar["if_exp"] \in Seq(Literals)
  <2>1. insn_grammar["if_exp"] = <<"if (", "$1", "$2", ")", "$3">>
    BY DEF insn_grammar
  <2>2. <<"if (", "$1", "$2", ")", "$3">> \in Seq(Literals)
    BY LiteralsHave, TupleOf5
  <2>3. QED
    BY <2>1, <2>2, Zenon
<1>3. insn_grammar["cond2"] \in Seq(Literals)
  <2>1. insn_grammar["cond2"] = <<"$1", "$2", "$3">>
    BY DEF insn_grammar
  <2>2. <<"$1", "$2", "$3">> \in Seq(Literals)
    BY LiteralsHave, TupleOf3
  <2>3. QED
    BY <2>1, <2>2, Zenon
<1>4. insn_grammar["call1_no_paren"] \in Seq(Literals)
  <2>1. insn_grammar["call1_no_paren"] = <<"$1", "$2">>
    BY DEF insn_grammar
  <2>2. <<"$1", "$2">> \in Seq(Literals)
    BY LiteralsHave, TupleOf2
  <2>3. QED
    BY <2>1, <2>2, Zenon
<1>5. insn_grammar["call1"] \in Seq(Literals)
  <2>1. insn_grammar["call1"] = <<"$1", "(", "$2", ")">>
    BY DEF insn_grammar
  <2>2. <<"$1", "(", "$2", ")">> \in Seq(Literals)
    BY LiteralsHave, TupleOf4
  <2>3. QED
    BY <2>1, <2>2, Zenon
<1>6. insn_grammar["call2"] \in Seq(Literals)
  <2>1. insn_grammar["call2"] = <<"$1", "(", "$2", ",", "$3", ")">>
    BY DEF insn_grammar
  <2>2. <<"$1", "(", "$2", ",", "$3", ")">> \in Seq(Literals)
    BY LiteralsHave, TupleOf6
  <2>3. QED
    BY <2>1, <2>2, Zenon
<1>7. insn_grammar["call2_rator"] \in Seq(Literals)
  <2>1. insn_grammar["call2_rator"] = <<"$1", "(", "$2", ",", "$3", "$4", ")">>
    BY DEF insn_grammar
  <2>2. <<"$1", "(", "$2", ",", "$3", "$4", ")">> \in Seq(Literals)
    BY LiteralsHave, TupleOf7
  <2>3. QED
    BY <2>1, <2>2, Zenon
<1>8. insn_grammar["call3"] \in Seq(Literals)
  <2>1. insn_grammar["call3"] = <<"$1", "(", "$2", ",", "$3", ",", "$4", ")">>
    BY DEF insn_grammar
  <2>2. <<"$1", "(", "$2", ",", "$3", ",", "$4", ")">> \in Seq(Literals)
    BY LiteralsHave, TupleOf8
  <2>3. QED
    BY <2>1, <2>2, Zenon
<1>9. insn_grammar["call_rator2"] \in Seq(Literals)
  <2>1. insn_grammar["call_rator2"] = <<"$1", "(", "$2", "$3", "$4", ")">>
    BY DEF insn_grammar
  <2>2. <<"$1", "(", "$2", "$3", "$4", ")">> \in Seq(Literals)
    BY LiteralsHave, TupleOf6
  <2>3. QED
    BY <2>1, <2>2, Zenon
<1>10. insn_grammar["call_rator3"] \in Seq(Literals)
  <2>1. insn_grammar["call_rator3"] = <<"$1", "(", "$2", "$3", "$4", "$5", "$6", ")">>
    BY DEF insn_grammar
  <2>2. <<"$1", "(", "$2", "$3", "$4", "$5", "$6", ")">> \in Seq(Literals)
    BY LiteralsHave, TupleOf8
  <2>3. QED
    BY <2>1, <2>2, Zenon
<1>11. insn_grammar["call_nested1"] \in Seq(Literals)
  <2>1. insn_grammar["call_nested1"] = <<"$1", "(", "$2", ")">>
    BY DEF insn_grammar
  <2>2. <<"$1", "(", "$2", ")">> \in Seq(Literals)
    BY LiteralsHave, TupleOf4
  <2>3. QED
    BY <2>1, <2>2, Zenon
<1>12. insn_grammar["call_nested2"] \in Seq(Literals)
  <2>1. insn_grammar["call_nested2"] = <<"$1", "(", "$2", ",", "$3", ")">>
    BY DEF insn_grammar
  <2>2. <<"$1", "(", "$2", ",", "$3", ")">> \in Seq(Literals)
    BY LiteralsHave, TupleOf6
  <2>3. QED
    BY <2>1, <2>2, Zenon
<1>13. insn_grammar["call_nested3"] \in Seq(Literals)
  <2>1. insn_grammar["call_nested3"] = <<"$1", "(", "$2", ",", "$3", ")">>
    BY DEF insn_grammar
  <2>2. <<"$1", "(", "$2", ",", "$3", ")">> \in Seq(Literals)
    BY LiteralsHave, TupleOf6
  <2>3. QED
    BY <2>1, <2>2, Zenon
<1>14. QED
  BY <1>1, <1>2, <1>3, <1>4, <1>5, <1>6, <1>7, <1>8, <1>9, <1>10, <1>11, <1>12, <1>13 DEF CallRules

LEMMA LiteralsOfAssignments == \A r \in AssignmentRules : insn_grammar[r] \in Seq(Literals)
<1>1. insn_grammar["assign_to_op"] \in Seq(Literals)
  <2>1. insn_grammar["assign_to_op"] = <<"$1", ",$2", "$3", "=", "$4", "$5">>
    BY DEF insn_grammar
  <2>2. <<"$1", ",$2", "$3", "=", "$4", "$5">> \in Seq(Literals)
    BY LiteralsHave, TupleOf6
  <2>3. QED
    BY <2>1, <2>2, Zenon
<1>2. insn_grammar["assign_comma"] \in Seq(Literals)
  <2>1. insn_grammar["assign_comma"] = <<"$1", "$2", "=", "$3", "$4", ";", "$5">>
    BY DEF insn_grammar
  <2>2. <<"$1", "$2", "=", "$3", "$4", ";", "$5">> \in Seq(Literals)
    BY LiteralsHave, TupleOf7
  <2>3. QED
    BY <2>1, <2>2, Zenon
<1>3. insn_grammar["assign_to_exp"] \in Seq(Literals)
  <2>1. insn_grammar["assign_to_exp"] = <<"$1", "$2", "$3", "=", "$4", "$5", "$6">>
    BY DEF insn_grammar
  <2>2. <<"$1", "$2", "$3", "=", "$4", "$5", "$6">> \in Seq(Literals)
    BY LiteralsHave, TupleOf7
  <2>3. QED
    BY <2>1, <2>2, Zenon
<1>4. insn_grammar["raw_hint"] \in Seq(Literals)
  <2>1. insn_grammar["raw_hint"] = <<":raw", "$1">>
    BY DEF insn_grammar
  <2>2. <<":raw", "$1">> \in Seq(Literals)
    BY LiteralsHave, TupleOf2
  <2>3. QED
    BY <2>1, <2>2, Zenon
<1>5. insn_grammar["res_hint"] \in Seq(Literals)
  <2>1. insn_grammar["res_hint"] = <<"$1", "$2">>
    BY DEF insn_grammar
  <2>2. <<"$1", "$2">> \in Seq(Literals)
    BY LiteralsHave, TupleOf2
  <2>3. QED
    BY <2>1, <2>2, Zenon
<1>6. QED
  BY <1>1, <1>2, <1>3, <1>4, <1>5 DEF AssignmentRules

LEMMA LiteralsOfOperands == \A r \in OperandRules : insn_grammar[r] \in Seq(Literals)
<1>1. insn_grammar["circ_addr"] \in Seq(Literals)
  <2>1. insn_grammar["circ_addr"] = <<"$1", ":circ(", "$2", ")">>
    BY DEF insn_grammar
  <2>2. <<"$1", ":circ(", "$2", ")">> \in Seq(Literals)
    BY LiteralsHave, TupleOf4
  <2>3. QED
    BY <2>1, <2>2, Zenon
<1>2. insn_grammar["reg_dot"] \in Seq(Literals)
  <2>1. insn_grammar["reg_dot"] = <<"$1", "$2">>
    BY DEF insn_grammar
  <2>2. <<"$1", "$2">> \in Seq(Literals)
    BY LiteralsHave, TupleOf2
  <2>3. QED
    BY <2>1, <2>2, Zenon
<1>3. insn_grammar["reg_brev"] \in Seq(Literals)
  <2>1. insn_grammar["reg_brev"] = <<"$1", ":brev">>
    BY DEF insn_grammar
  <2>2. <<"$1", ":brev">> \in Seq(Literals)
    BY LiteralsHave, TupleOf2
  <2>3. QED
    BY <2>1, <2>2, Zenon
<1>4. insn_grammar["reg_star"] \in Seq(Literals)
  <2>1. insn_grammar["reg_star"] = <<"$1", "*">>
    BY DEF insn_grammar
  <2>2. <<"$1", "*">> \in Seq(Literals)
    BY LiteralsHave, TupleOf2
  <2>3. QED
    BY <2>1, <2>2, Zenon
<1>5. insn_grammar["not_reg"] \in Seq(Literals)
  <2>1. insn_grammar["not_reg"] = <<"$1", "$2">>
    BY DEF insn_grammar
  <2>2. <<"$1", "$2">> \in Seq(Literals)
    BY LiteralsHave, TupleOf2
  <2>3. QED
    BY <2>1, <2>2, Zenon
<1>6. QED
  BY <1>1, <1>2, <1>3, <1>4, <1>5 DEF OperandRules

\* Literal by literal, the grammar's layout is the transformer's without its spaces.
Matches(t, g) ==
    /\ Len(t) = Len(g) /\ Len(t) \in Nat /\ DOMAIN t = 1 .. Len(t) /\ DOMAIN g = 1 .. Len(g)
    /\ \A j \in 1 .. Len(t) : t[j] # " " /\ g[j] = Solid(t[j])

LEMMA IfExpMatches == Matches(Transformer["if_exp"], insn_grammar["if_exp"])
<1> DEFINE t == <<"if (", "$1", "$2", ") ", "$3">>
           g == <<"if (", "$1", "$2", ")", "$3">>
<1>1. Transformer["if_exp"] = t
  <2>1. Calls["if_exp"] = t
    BY DEF Calls
  <2>2. "if_exp" \in CallRules
    BY DEF CallRules
  <2>3. QED
    BY <2>1, <2>2, TransformerIs
<1>2. insn_grammar["if_exp"] = g
  BY DEF insn_grammar
<1>3. Len(t) = 5 /\ Len(g) = 5 /\ DOMAIN t = 1 .. 5 /\ DOMAIN g = 1 .. 5
  OBVIOUS
<1>4. /\ t[1] # " " /\ g[1] = Solid(t[1])
      /\ t[2] # " " /\ g[2] = Solid(t[2])
      /\ t[3] # " " /\ g[3] = Solid(t[3])
      /\ t[4] # " " /\ g[4] = Solid(t[4])
      /\ t[5] # " " /\ g[5] = Solid(t[5])
  BY DEF Solid
<1> HIDE DEF t, g
<1>5. ASSUME NEW j \in 1 .. 5
      PROVE  t[j] # " " /\ g[j] = Solid(t[j])
  <2>1. j = 1 \/ j = 2 \/ j = 3 \/ j = 4 \/ j = 5
    OBVIOUS
  <2>2. QED
    BY <1>4, <2>1
<1>6. Matches(t, g)
  <2>1. Len(t) = Len(g) /\ Len(t) \in Nat /\ DOMAIN t = 1 .. Len(t) /\ DOMAIN g = 1 .. Len(g)
    BY <1>3
  <2>2. \A j \in 1 .. Len(t) : t[j] # " " /\ g[j] = Solid(t[j])
    BY <1>3, <1>5
  <2>3. QED
    BY <2>1, <2>2 DEF Matches
<1>7. QED
  BY <1>1, <1>2, <1>6

LEMMA AssignToOpMatches == Matches(Transformer["assign_to_op"], insn_grammar["assign_to_op"])
<1> DEFINE t == <<"$1", ",$2", "$3", " = ", "$4", "$5">>
           g == <<"$1", ",$2", "$3", "=", "$4", "$5">>
<1>1. Transformer["assign_to_op"] = t
  <2>1. Assignments["assign_to_op"] = t
    BY DEF Assignments
  <2>2. "assign_to_op" \in AssignmentRules
    BY DEF AssignmentRules
  <2>3. QED
    BY <2>1, <2>2, TransformerIs
<1>2. insn_grammar["assign_to_op"] = g
  BY DEF insn_grammar
<1>3. Len(t) = 6 /\ Len(g) = 6 /\ DOMAIN t = 1 .. 6 /\ DOMAIN g = 1 .. 6
  OBVIOUS
<1>4. /\ t[1] # " " /\ g[1] = Solid(t[1])
      /\ t[2] # " " /\ g[2] = Solid(t[2])
      /\ t[3] # " " /\ g[3] = Solid(t[3])
      /\ t[4] # " " /\ g[4] = Solid(t[4])
      /\ t[5] # " " /\ g[5] = Solid(t[5])
      /\ t[6] # " " /\ g[6] = Solid(t[6])
  BY DEF Solid
<1> HIDE DEF t, g
<1>5. ASSUME NEW j \in 1 .. 6
      PROVE  t[j] # " " /\ g[j] = Solid(t[j])
  <2>1. j = 1 \/ j = 2 \/ j = 3 \/ j = 4 \/ j = 5 \/ j = 6
    OBVIOUS
  <2>2. QED
    BY <1>4, <2>1
<1>6. Matches(t, g)
  <2>1. Len(t) = Len(g) /\ Len(t) \in Nat /\ DOMAIN t = 1 .. Len(t) /\ DOMAIN g = 1 .. Len(g)
    BY <1>3
  <2>2. \A j \in 1 .. Len(t) : t[j] # " " /\ g[j] = Solid(t[j])
    BY <1>3, <1>5
  <2>3. QED
    BY <2>1, <2>2 DEF Matches
<1>7. QED
  BY <1>1, <1>2, <1>6

LEMMA AssignCommaMatches == Matches(Transformer["assign_comma"], insn_grammar["assign_comma"])
<1> DEFINE t == <<"$1", "$2", " = ", "$3", "$4", ";", "$5">>
           g == <<"$1", "$2", "=", "$3", "$4", ";", "$5">>
<1>1. Transformer["assign_comma"] = t
  <2>1. Assignments["assign_comma"] = t
    BY DEF Assignments
  <2>2. "assign_comma" \in AssignmentRules
    BY DEF AssignmentRules
  <2>3. QED
    BY <2>1, <2>2, TransformerIs
<1>2. insn_grammar["assign_comma"] = g
  BY DEF insn_grammar
<1>3. Len(t) = 7 /\ Len(g) = 7 /\ DOMAIN t = 1 .. 7 /\ DOMAIN g = 1 .. 7
  OBVIOUS
<1>4. /\ t[1] # " " /\ g[1] = Solid(t[1])
      /\ t[2] # " " /\ g[2] = Solid(t[2])
      /\ t[3] # " " /\ g[3] = Solid(t[3])
      /\ t[4] # " " /\ g[4] = Solid(t[4])
      /\ t[5] # " " /\ g[5] = Solid(t[5])
      /\ t[6] # " " /\ g[6] = Solid(t[6])
      /\ t[7] # " " /\ g[7] = Solid(t[7])
  BY DEF Solid
<1> HIDE DEF t, g
<1>5. ASSUME NEW j \in 1 .. 7
      PROVE  t[j] # " " /\ g[j] = Solid(t[j])
  <2>1. j = 1 \/ j = 2 \/ j = 3 \/ j = 4 \/ j = 5 \/ j = 6 \/ j = 7
    OBVIOUS
  <2>2. QED
    BY <1>4, <2>1
<1>6. Matches(t, g)
  <2>1. Len(t) = Len(g) /\ Len(t) \in Nat /\ DOMAIN t = 1 .. Len(t) /\ DOMAIN g = 1 .. Len(g)
    BY <1>3
  <2>2. \A j \in 1 .. Len(t) : t[j] # " " /\ g[j] = Solid(t[j])
    BY <1>3, <1>5
  <2>3. QED
    BY <2>1, <2>2 DEF Matches
<1>7. QED
  BY <1>1, <1>2, <1>6

LEMMA AssignToExpMatches == Matches(Transformer["assign_to_exp"], insn_grammar["assign_to_exp"])
<1> DEFINE t == <<"$1", "$2", "$3", " = ", "$4", "$5", "$6">>
           g == <<"$1", "$2", "$3", "=", "$4", "$5", "$6">>
<1>1. Transformer["assign_to_exp"] = t
  <2>1. Assignments["assign_to_exp"] = t
    BY DEF Assignments
  <2>2. "assign_to_exp" \in AssignmentRules
    BY DEF AssignmentRules
  <2>3. QED
    BY <2>1, <2>2, TransformerIs
<1>2. insn_grammar["assign_to_exp"] = g
  BY DEF insn_grammar
<1>3. Len(t) = 7 /\ Len(g) = 7 /\ DOMAIN t = 1 .. 7 /\ DOMAIN g = 1 .. 7
  OBVIOUS
<1>4. /\ t[1] # " " /\ g[1] = Solid(t[1])
      /\ t[2] # " " /\ g[2] = Solid(t[2])
      /\ t[3] # " " /\ g[3] = Solid(t[3])
      /\ t[4] # " " /\ g[4] = Solid(t[4])
      /\ t[5] # " " /\ g[5] = Solid(t[5])
      /\ t[6] # " " /\ g[6] = Solid(t[6])
      /\ t[7] # " " /\ g[7] = Solid(t[7])
  BY DEF Solid
<1> HIDE DEF t, g
<1>5. ASSUME NEW j \in 1 .. 7
      PROVE  t[j] # " " /\ g[j] = Solid(t[j])
  <2>1. j = 1 \/ j = 2 \/ j = 3 \/ j = 4 \/ j = 5 \/ j = 6 \/ j = 7
    OBVIOUS
  <2>2. QED
    BY <1>4, <2>1
<1>6. Matches(t, g)
  <2>1. Len(t) = Len(g) /\ Len(t) \in Nat /\ DOMAIN t = 1 .. Len(t) /\ DOMAIN g = 1 .. Len(g)
    BY <1>3
  <2>2. \A j \in 1 .. Len(t) : t[j] # " " /\ g[j] = Solid(t[j])
    BY <1>3, <1>5
  <2>3. QED
    BY <2>1, <2>2 DEF Matches
<1>7. QED
  BY <1>1, <1>2, <1>6

LEMMA LayoutsMatch ==
    ASSUME NEW r \in DOMAIN insn_grammar, r # "call1_no_paren"
    PROVE  Matches(Transformer[r], insn_grammar[r])
<1>1. CASE r \in Spaced
  BY <1>1, IfExpMatches, AssignToOpMatches, AssignCommaMatches, AssignToExpMatches DEF Spaced
<1>2. CASE r \notin Spaced
  <2>1. Transformer[r] = insn_grammar[r]
    BY <1>2, RulesAre, SameCalls, SameAssignments, SameOperands
  <2>2. insn_grammar[r] \in Seq(Literals)
    BY RulesAre, LiteralsOfCalls, LiteralsOfAssignments, LiteralsOfOperands
  <2> DEFINE g == insn_grammar[r]
  <2>3. g \in Seq(Literals)
    BY <2>2
  <2> HIDE DEF g
  <2>4. Len(g) \in Nat /\ DOMAIN g = 1 .. Len(g) /\ \A j \in 1 .. Len(g) : g[j] \in Literals
    BY <2>3, LenProperties, ElementOfSeq
  <2>5. Matches(g, g)
    BY <2>4, LiteralsAreSolid DEF Matches
  <2>6. QED
    BY <2>1, <2>5 DEF g
<1>3. QED
  BY <1>1, <1>2

-----------------------------------------------------------------------------
(* Trees: without what the transformer adds to it, the text has the leaves *)
(* of the grammar. *)

\* A leaf without the transformer's spaces.
Ink(x) ==
    IF x.rule # "text" \/ (x.word # " " /\ Solid(x.word) = x.word) THEN <<x>>
    ELSE IF x.word = " " THEN << >> ELSE <<Leaf("text", Solid(x.word))>>
InkAll(s) == FlattenSeq([n \in 1 .. Len(s) |-> Ink(s[n])])

LEMMA InkIsSeq == ASSUME NEW x PROVE IsSeq(Ink(x))
BY OneIsSeq, EmptyIsSeq DEF Ink

LEMMA InkAllIsEach ==
    ASSUME NEW S, NEW s \in Seq(S)
    PROVE  InkAll(s) = Each([x \in S |-> Ink(x)], s)
<1>1. \A n \in 1 .. Len(s) : s[n] \in S
  BY ElementOfSeq
<1>2. [n \in 1 .. Len(s) |-> Ink(s[n])] = [n \in 1 .. Len(s) |-> [x \in S |-> Ink(x)][s[n]]]
  BY <1>1
<1>3. QED
  BY <1>2 DEF InkAll, Each

LEMMA InkAllNone == InkAll(<< >>) = << >>
<1>1. Len(<< >>) = 0
  OBVIOUS
<1>2. FlattenSeq([n \in 1 .. 0 |-> Ink(<< >>[n])]) = << >>
  <2>1. [n \in 1 .. 0 |-> Ink(<< >>[n])] = << >>
    OBVIOUS
  <2>2. QED
    BY <1>1, <2>1 DEF FlattenSeq
<1>3. QED
  BY <1>1, <1>2 DEF InkAll

LEMMA InkAllOne == ASSUME NEW x PROVE InkAll(<<x>>) = Ink(x)
<1> DEFINE f == [y \in {x} |-> Ink(y)]
<1>1. <<x>> \in Seq({x}) /\ f[x] = Ink(x)
  OBVIOUS
<1>2. InkAll(<<x>>) = Each(f, <<x>>)
  BY <1>1, InkAllIsEach
<1> HIDE DEF f
<1>3. QED
  BY <1>1, <1>2, EachOne, InkIsSeq

LEMMA InkAllTwo == ASSUME NEW x, NEW y PROVE InkAll(<<x, y>>) = Ink(x) \o Ink(y)
<1> DEFINE f == [z \in {x, y} |-> Ink(z)]
<1>1. <<x, y>> \in Seq({x, y}) /\ f[x] = Ink(x) /\ f[y] = Ink(y)
  OBVIOUS
<1>2. InkAll(<<x, y>>) = Each(f, <<x, y>>)
  BY <1>1, InkAllIsEach
<1> HIDE DEF f
<1>3. QED
  BY <1>1, <1>2, EachTwo, InkIsSeq

LEMMA LeafIs ==
    ASSUME NEW rule, NEW word
    PROVE  Leaf(rule, word).rule = rule /\ Leaf(rule, word).word = word
BY DEF Leaf

LEMMA PieceIsSeq == ASSUME NEW x, NEW s PROVE IsSeq(Piece(x, s))
<1>1. \A y, z : IsSeq(<<y, z>>)
  <2> TAKE y, z
  <2> DEFINE S == {y, z}
  <2>1. <<y, z>> \in Seq(S)
    OBVIOUS
  <2> HIDE DEF S
  <2>2. QED
    BY <2>1, SeqIsSeq
<1>2. QED
  BY <1>1, OneIsSeq, EmptyIsSeq DEF Piece

LEMMA SlotsAre == ToSet(Slots) = {"$1", "$2", "$3", "$4", "$5", "$6"}
<1>1. /\ DOMAIN Slots = 1 .. 6 /\ Slots[1] = "$1" /\ Slots[2] = "$2" /\ Slots[3] = "$3"
      /\ Slots[4] = "$4" /\ Slots[5] = "$5" /\ Slots[6] = "$6"
  BY DEF Slots
<1>2. \A n \in 1 .. 6 : n = 1 \/ n = 2 \/ n = 3 \/ n = 4 \/ n = 5 \/ n = 6
  OBVIOUS
<1>3. 1 \in 1 .. 6 /\ 2 \in 1 .. 6 /\ 3 \in 1 .. 6 /\ 4 \in 1 .. 6 /\ 5 \in 1 .. 6 /\ 6 \in 1 .. 6
  OBVIOUS
<1>4. QED
  BY <1>1, <1>2, <1>3 DEF ToSet

LEMMA RangeOfOne == ASSUME NEW x PROVE x \in Range(<<x>>)
<1>1. 1 \in DOMAIN <<x>> /\ <<x>>[1] = x
  OBVIOUS
<1>2. QED
  BY <1>1 DEF Range

LEMMA PairIs ==
    ASSUME NEW x, NEW y
    PROVE  /\ x \in Range(<<x, y>>) /\ y \in Range(<<x, y>>)
           /\ <<x>> \o <<y>> = <<x, y>>
<1>1. 1 \in DOMAIN <<x, y>> /\ <<x, y>>[1] = x
  OBVIOUS
<1>2. 2 \in DOMAIN <<x, y>> /\ <<x, y>>[2] = y
  OBVIOUS
<1> DEFINE S == {x, y}
           s == <<x>>
           t == <<y>>
           u == <<x, y>>
<1>3. s \in Seq(S) /\ t \in Seq(S) /\ u \in Seq(S)
  OBVIOUS
<1>4. Len(s) = 1 /\ Len(t) = 1 /\ Len(u) = 2
  OBVIOUS
<1>5. s[1] = x /\ t[1] = y /\ u[1] = x /\ u[2] = y
  OBVIOUS
<1> HIDE DEF S, s, t, u
<1>6. /\ s \o t \in Seq(S) /\ Len(s \o t) = 2
      /\ \A j \in 1 .. 2 : (s \o t)[j] = IF j <= 1 THEN s[j] ELSE t[j - 1]
  <2>1. /\ s \o t \in Seq(S) /\ Len(s \o t) = Len(s) + Len(t)
        /\ \A j \in 1 .. Len(s) + Len(t) :
              (s \o t)[j] = IF j <= Len(s) THEN s[j] ELSE t[j - Len(s)]
    BY <1>3, ConcatProperties
  <2>2. 1 + 1 = 2
    OBVIOUS
  <2>3. QED
    BY <1>4, <2>1, <2>2
<1>7. \A j \in 1 .. 2 : (s \o t)[j] = u[j]
  <2>1. \A j \in 1 .. 2 : j = 1 \/ j = 2
    OBVIOUS
  <2>2. 1 \in 1 .. 2 /\ 2 \in 1 .. 2 /\ 1 <= 1 /\ ~ (2 <= 1) /\ 2 - 1 = 1
    OBVIOUS
  <2>3. (s \o t)[1] = x /\ (s \o t)[2] = y
    BY <1>5, <1>6, <2>2
  <2>4. QED
    BY <1>5, <2>1, <2>3
<1>8. s \o t = u
  BY <1>3, <1>4, <1>6, <1>7, SeqEqual
<1>9. QED
  BY <1>1, <1>2, <1>8 DEF Range, s, t, u

\* The children stay as they are if they are none of the spaced literals.
LEMMA PieceInked ==
    ASSUME NEW x, NEW s, s # " ", \A y \in Range(Piece(x, Solid(s))) : Ink(y) = <<y>>
    PROVE  InkAll(Piece(x, s)) = Piece(x, Solid(s))
<1>1. CASE s \in ToSet(Slots)
  <2>1. Solid(s) = s /\ s # SlotComma
    BY <1>1, SlotsAre DEF Solid, SlotComma
  <2> DEFINE k == x.kids[CHOOSE n \in DOMAIN Slots : Slots[n] = s]
  <2>2. Piece(x, s) = <<k>>
    BY <1>1 DEF Piece
  <2> HIDE DEF k
  <2>3. k \in Range(<<k>>)
    BY RangeOfOne
  <2>4. Ink(k) = <<k>>
    BY <2>1, <2>2, <2>3
  <2>5. QED
    BY <2>1, <2>2, <2>4, InkAllOne
<1>2. CASE s = SlotComma
  <2>1. Solid(s) = s /\ s \notin ToSet(Slots)
    BY <1>2, SlotsAre DEF Solid, SlotComma
  <2>2. CASE x.kids[2] = None
    <3>1. Piece(x, s) = << >>
      BY <1>2, <2>1, <2>2 DEF Piece
    <3>2. QED
      BY <2>1, <3>1, InkAllNone
  <2>3. CASE x.kids[2] # None
    <3> DEFINE c == Leaf("text", ",")
               k == x.kids[2]
    <3>1. Piece(x, s) = <<c, k>>
      BY <1>2, <2>1, <2>3 DEF Piece
    <3> HIDE DEF c, k
    <3>2. c \in Range(<<c, k>>) /\ k \in Range(<<c, k>>)
      BY PairIs
    <3>3. Ink(c) = <<c>> /\ Ink(k) = <<k>>
      BY <2>1, <3>1, <3>2
    <3>4. <<c>> \o <<k>> = <<c, k>>
      BY PairIs
    <3>5. QED
      BY <2>1, <3>1, <3>3, <3>4, InkAllTwo
  <2>4. QED
    BY <2>2, <2>3
<1>3. CASE s \notin ToSet(Slots) /\ s # SlotComma
  <2> DEFINE c == Leaf("text", s)
  <2>1. Piece(x, s) = <<c>>
    BY <1>3 DEF Piece
  <2>2. Solid(s) \notin ToSet(Slots) /\ Solid(s) # SlotComma
    <3>1. Solid(s) = s \/ Solid(s) \in {"=", ")", "#"}
      BY DEF Solid
    <3>2. \A w \in {"=", ")", "#"} : w \notin ToSet(Slots) /\ w # SlotComma
      BY SlotsAre DEF SlotComma
    <3>3. QED
      BY <1>3, <3>1, <3>2
  <2>3. Piece(x, Solid(s)) = <<Leaf("text", Solid(s))>>
    BY <2>2 DEF Piece
  <2>4. Ink(c) = <<Leaf("text", Solid(s))>>
    <3>1. c.rule = "text" /\ c.word = s
      BY LeafIs
    <3>2. CASE Solid(s) = s
      BY <3>1, <3>2 DEF Ink
    <3>3. CASE Solid(s) # s
      <4> HIDE DEF c
      <4>1. QED
        BY <3>1, <3>3 DEF Ink
    <3>4. QED
      BY <3>2, <3>3
  <2> HIDE DEF c
  <2>5. QED
    BY <2>1, <2>3, <2>4, InkAllOne
<1>4. QED
  BY <1>1, <1>2, <1>3

\* The elements of sequences put together are those of the sequences.
LEMMA JoinedRange ==
    ASSUME NEW g, NEW l \in Nat, \A j \in 1 .. l : IsSeq(g[j])
    PROVE  /\ IsSeq(Joined(g, l))
           /\ Range(Joined(g, l)) = UNION {Range(g[j]) : j \in 1 .. l}
<1> DEFINE S == UNION {Range(g[j]) : j \in 1 .. l}
<1>1. \A j \in 1 .. l : g[j] \in Seq(S)
  <2> TAKE j \in 1 .. l
  <2>1. Range(g[j]) \subseteq S
    OBVIOUS
  <2>2. g[j] \in Seq(Range(g[j]))
    BY DEF IsSeq
  <2> HIDE DEF S
  <2>3. QED
    BY <2>1, <2>2
<1>2. IsSeq(Joined(g, l))
  BY FlattenIsSeq DEF Joined
<1>3. ASSUME NEW y \in Range(Joined(g, l))
      PROVE  y \in S
  <2>1. Joined(g, l) \in Seq(S)
    <3> HIDE DEF S
    <3> QED BY <1>1, JoinedInSeq
  <2> HIDE DEF S
  <2>2. QED
    BY <1>3, <2>1 DEF Range
<1>4. ASSUME NEW y \in S
      PROVE  y \in Range(Joined(g, l))
  <2>1. PICK j \in 1 .. l : y \in Range(g[j])
    OBVIOUS
  <2> HIDE DEF S
  <2>2. DOMAIN g[j] = 1 .. Len(g[j]) /\ DOMAIN Joined(g, l) = 1 .. Len(Joined(g, l))
    BY <1>1, <1>2, LenProperties DEF IsSeq
  <2>3. PICK n \in 1 .. Len(g[j]) : g[j][n] = y
    BY <2>1, <2>2 DEF Range
  <2>4. /\ Len(Joined(g, j - 1)) + n \in 1 .. Len(Joined(g, l))
        /\ Joined(g, l)[Len(Joined(g, j - 1)) + n] = g[j][n]
    BY <1>1, JoinedElements DEF Lands
  <2>5. QED
    BY <2>2, <2>3, <2>4 DEF Range
<1>5. QED
  BY <1>2, <1>3, <1>4

Parts(g, l) == \A j \in 1 .. l : IsSeq(g[j])

\* Where an element of a part is in the whole.
LEMMA JoinedAt ==
    ASSUME NEW g, NEW l \in Nat, Parts(g, l), NEW k \in 1 .. l, NEW n \in 1 .. Len(g[k])
    PROVE  /\ Len(Joined(g, k - 1)) + n \in 1 .. Len(Joined(g, l))
           /\ Joined(g, l)[Len(Joined(g, k - 1)) + n] = g[k][n]
<1> DEFINE S == UNION {Range(g[j]) : j \in 1 .. l}
<1>1. \A j \in 1 .. l : g[j] \in Seq(S)
  <2> TAKE j \in 1 .. l
  <2>1. Range(g[j]) \subseteq S
    OBVIOUS
  <2>2. g[j] \in Seq(Range(g[j]))
    BY DEF IsSeq, Parts
  <2> HIDE DEF S
  <2>3. QED
    BY <2>1, <2>2
<1> HIDE DEF S
<1>2. \A j \in 1 .. l : \A m \in 1 .. Len(g[j]) : Lands(g, j, m, l)
  BY <1>1, JoinedElements
<1>3. QED
  BY <1>2 DEF Lands

\* Nothing else is in it.
LEMMA JoinedFrom ==
    ASSUME NEW g, NEW l \in Nat, Parts(g, l), NEW p \in 1 .. Len(Joined(g, l))
    PROVE  \E k \in 1 .. l : \E n \in 1 .. Len(g[k]) : p = Len(Joined(g, k - 1)) + n
<1> DEFINE S == UNION {Range(g[j]) : j \in 1 .. l}
<1>1. \A j \in 1 .. l : g[j] \in Seq(S)
  <2> TAKE j \in 1 .. l
  <2>1. Range(g[j]) \subseteq S
    OBVIOUS
  <2>2. g[j] \in Seq(Range(g[j]))
    BY DEF IsSeq, Parts
  <2> HIDE DEF S
  <2>3. QED
    BY <2>1, <2>2
<1> HIDE DEF S
<1>2. \A q \in 1 .. Len(Joined(g, l)) : Comes(g, q, l)
  BY <1>1, JoinedElements
<1>3. QED
  BY <1>2 DEF Comes

\* The transformer's spaces are taken out of a text part by part.
LEMMA InkAllJoined ==
    ASSUME NEW g, NEW l \in Nat, \A j \in 1 .. l : IsSeq(g[j])
    PROVE  InkAll(Joined(g, l)) = Joined([j \in 1 .. l |-> InkAll(g[j])], l)
<1> DEFINE S == UNION {Range(g[j]) : j \in 1 .. l}
           ink == [x \in S |-> Ink(x)]
           h == [j \in 1 .. l |-> Each(ink, g[j])]
           k == [j \in 1 .. l |-> InkAll(g[j])]
<1>1. \A j \in 1 .. l : g[j] \in Seq(S)
  <2> TAKE j \in 1 .. l
  <2>1. Range(g[j]) \subseteq S
    OBVIOUS
  <2>2. g[j] \in Seq(Range(g[j]))
    BY DEF IsSeq
  <2> HIDE DEF S
  <2>3. QED
    BY <2>1, <2>2
<1> HIDE DEF S
<1>2. Makes(ink, S)
  BY InkIsSeq DEF Makes
<1>3. Joined(g, l) \in Seq(S)
  BY <1>1, JoinedInSeq
<1>4. InkAll(Joined(g, l)) = Each(ink, Joined(g, l))
  BY <1>3, InkAllIsEach
<1>5. \A j \in 1 .. l : Each(ink, g[j]) = InkAll(g[j])
  BY <1>1, InkAllIsEach
<1> HIDE DEF ink
<1>6. Each(ink, Joined(g, l)) = Joined(h, l)
  <2>1. \A j \in 1 .. l : h[j] = Each(ink, g[j])
    OBVIOUS
  <2> HIDE DEF h
  <2>2. QED
    BY <1>1, <1>2, <2>1, EachJoined
<1>7. \A j \in 1 .. l : h[j] = k[j]
  BY <1>5
<1> HIDE DEF h, k
<1>8. Joined(h, l) = Joined(k, l)
  BY <1>7, JoinedSame
<1>9. QED
  BY <1>4, <1>6, <1>8 DEF k

\* The layouts of the two.
Laid(layout) ==
    /\ DOMAIN layout = DOMAIN insn_grammar
    /\ \A r \in DOMAIN layout : Len(layout[r]) \in Nat /\ DOMAIN layout[r] = 1 .. Len(layout[r])

LEMMA NoParens ==
    /\ "call1_no_paren" \in DOMAIN insn_grammar
    /\ insn_grammar["call1_no_paren"] = <<"$1", "$2">>
    /\ Transformer["call1_no_paren"] = <<"$1", " ", "$2">>
<1>1. "call1_no_paren" \in CallRules
  BY DEF CallRules
<1>2. insn_grammar["call1_no_paren"] = <<"$1", "$2">>
  BY DEF insn_grammar
<1>3. Calls["call1_no_paren"] = <<"$1", " ", "$2">>
  BY DEF Calls
<1>4. QED
  BY <1>1, <1>2, <1>3, RulesAre, TransformerIs

\* Both layouts are made of pieces, and have nothing for a child that is missing.
LEMMA LayoutsLaid == Laid(Transformer) /\ Laid(insn_grammar)
<1> DEFINE r == "call1_no_paren"
<1>1. /\ Len(<<"$1", "$2">>) = 2 /\ DOMAIN <<"$1", "$2">> = 1 .. 2
      /\ Len(<<"$1", " ", "$2">>) = 3 /\ DOMAIN <<"$1", " ", "$2">> = 1 .. 3
      /\ 2 \in Nat /\ 3 \in Nat
  OBVIOUS
<1>2. \A q \in DOMAIN insn_grammar :
        /\ Len(insn_grammar[q]) \in Nat /\ DOMAIN insn_grammar[q] = 1 .. Len(insn_grammar[q])
        /\ Len(Transformer[q]) \in Nat /\ DOMAIN Transformer[q] = 1 .. Len(Transformer[q])
  <2> TAKE q \in DOMAIN insn_grammar
  <2>1. CASE q # "call1_no_paren"
    <3>1. Matches(Transformer[q], insn_grammar[q])
      BY <2>1, LayoutsMatch
    <3>2. QED
      BY <3>1 DEF Matches
  <2>2. CASE q = "call1_no_paren"
    BY <1>1, <2>2, NoParens
  <2>3. QED
    BY <2>1, <2>2
<1>3. QED
  BY <1>2, TransformerIs DEF Laid

\* A node in the order of its layout.
LEMMA PiecesAre ==
    ASSUME NEW layout, Laid(layout), NEW x, x # None, x.rule \in DOMAIN layout
    PROVE  LET g == [j \in 1 .. Len(layout[x.rule]) |-> Piece(x, layout[x.rule][j])]
           IN  /\ Pieces(x, layout) = Joined(g, Len(layout[x.rule]))
               /\ \A j \in 1 .. Len(layout[x.rule]) : IsSeq(g[j])
<1> DEFINE l == layout[x.rule]
           g == [j \in 1 .. Len(l) |-> Piece(x, l[j])]
<1>1. DOMAIN l = 1 .. Len(l)
  BY DEF Laid
<1>2. Pieces(x, layout) = FlattenSeq([j \in DOMAIN l |-> Piece(x, l[j])])
  BY DEF Pieces
<1>3. g = [j \in 1 .. Len(l) |-> g[j]]
  OBVIOUS
<1>4. Pieces(x, layout) = Joined(g, Len(l))
  BY <1>1, <1>2, <1>3 DEF Joined
<1>5. \A j \in 1 .. Len(l) : IsSeq(g[j])
  BY PieceIsSeq
<1>6. QED
  BY <1>4, <1>5

LEMMA NothingIsNone ==
    ASSUME NEW layout, Laid(layout)
    PROVE  None.rule = "none" /\ Pieces(None, layout) = << >>
<1>1. None.rule = "none"
  BY LeafIs DEF None
<1>2. None.rule \notin DOMAIN layout
  BY <1>1, RulesAre DEF Laid
<1> HIDE DEF None
<1>3. QED
  BY <1>1, <1>2 DEF Pieces

LEMMA PiecesIsSeq ==
    ASSUME NEW layout, Laid(layout), NEW x
    PROVE  IsSeq(Pieces(x, layout))
<1>1. CASE x = None
  BY <1>1, NothingIsNone, EmptyIsSeq
<1>2. CASE x # None /\ x.rule \in DOMAIN layout
  <2> DEFINE g == [j \in 1 .. Len(layout[x.rule]) |-> Piece(x, layout[x.rule][j])]
  <2>1. /\ Pieces(x, layout) = Joined(g, Len(layout[x.rule]))
        /\ \A j \in 1 .. Len(layout[x.rule]) : IsSeq(g[j])
    BY <1>2, PiecesAre
  <2>2. Len(layout[x.rule]) \in Nat
    BY <1>2 DEF Laid
  <2> HIDE DEF g
  <2>3. QED
    BY <2>1, <2>2, JoinedRange
<1>3. CASE x # None /\ x.rule \notin DOMAIN layout
  <2>1. Pieces(x, layout) = <<x>>
    BY <1>3 DEF Pieces
  <2>2. QED
    BY <2>1, OneIsSeq
<1>4. QED
  BY <1>1, <1>2, <1>3

\* A node as the transformer lays it out, without the spaces, is the node in the grammar.
LEMMA NodeInked ==
    ASSUME NEW x, x # None, x.rule \in DOMAIN insn_grammar,
           \A y \in Range(Pieces(x, insn_grammar)) : Ink(y) = <<y>>
    PROVE  InkAll(Pieces(x, Transformer)) = Pieces(x, insn_grammar)
<1> DEFINE t == Transformer[x.rule]
           g == insn_grammar[x.rule]
           pt == [j \in 1 .. Len(t) |-> Piece(x, t[j])]
           pg == [j \in 1 .. Len(g) |-> Piece(x, g[j])]
<1>1. /\ Pieces(x, Transformer) = Joined(pt, Len(t)) /\ Len(t) \in Nat
      /\ \A j \in 1 .. Len(t) : IsSeq(pt[j])
  BY LayoutsLaid, PiecesAre DEF Laid
<1>2. /\ Pieces(x, insn_grammar) = Joined(pg, Len(g)) /\ Len(g) \in Nat
      /\ \A j \in 1 .. Len(g) : IsSeq(pg[j])
  BY LayoutsLaid, PiecesAre DEF Laid
<1>3. \A j \in 1 .. Len(g) : \A y \in Range(pg[j]) : Ink(y) = <<y>>
  <2> HIDE DEF pg
  <2> QED BY <1>2, JoinedRange
<1>4. CASE x.rule # "call1_no_paren"
  <2>1. Matches(t, g)
    BY <1>4, LayoutsMatch
  <2> HIDE DEF t, g
  <2>2. \A j \in 1 .. Len(t) : InkAll(pt[j]) = pg[j]
    <3> TAKE j \in 1 .. Len(t)
    <3>1. t[j] # " " /\ g[j] = Solid(t[j]) /\ j \in 1 .. Len(g)
      BY <2>1 DEF Matches
    <3>2. pt[j] = Piece(x, t[j]) /\ pg[j] = Piece(x, Solid(t[j]))
      BY <3>1
    <3>3. InkAll(Piece(x, t[j])) = Piece(x, Solid(t[j]))
      BY <1>3, <3>1, <3>2, PieceInked
    <3>4. QED
      BY <3>2, <3>3
  <2> DEFINE h == [j \in 1 .. Len(t) |-> InkAll(pt[j])]
  <2> HIDE DEF pt, pg
  <2>3. InkAll(Joined(pt, Len(t))) = Joined(h, Len(t))
    BY <1>1, InkAllJoined
  <2>4. \A j \in 1 .. Len(t) : h[j] = pg[j]
    BY <2>2
  <2> HIDE DEF h
  <2>5. Joined(h, Len(t)) = Joined(pg, Len(t))
    BY <1>1, <2>4, JoinedSame
  <2>6. QED
    BY <1>1, <1>2, <2>1, <2>3, <2>5 DEF Matches
<1>5. CASE x.rule = "call1_no_paren"
  <2> DEFINE a == Piece(x, "$1")
             b == Piece(x, "$2")
             space == Piece(x, " ")
             h == [j \in 1 .. 3 |-> InkAll(pt[j])]
  <2>1. t = <<"$1", " ", "$2">> /\ g = <<"$1", "$2">>
    BY <1>5, NoParens
  <2>2. Len(t) = 3 /\ t[1] = "$1" /\ t[2] = " " /\ t[3] = "$2"
    <3> HIDE DEF t
    <3> QED BY <2>1
  <2>3. Len(g) = 2 /\ g[1] = "$1" /\ g[2] = "$2"
    <3> HIDE DEF g
    <3> QED BY <2>1
  <2> HIDE DEF t, g
  <2>4. 1 \in 1 .. 2 /\ 2 \in 1 .. 2 /\ 1 \in 1 .. 3 /\ 2 \in 1 .. 3 /\ 3 \in 1 .. 3 /\ 3 \in Nat
    OBVIOUS
  <2>5. pt[1] = a /\ pt[2] = space /\ pt[3] = b
    BY <2>2, <2>4
  <2>6. pg[1] = a /\ pg[2] = b
    BY <2>3, <2>4
  <2>7. IsSeq(a) /\ IsSeq(b)
    BY PieceIsSeq
  <2>8. InkAll(a) = a /\ InkAll(b) = b
    <3>1. "$1" # " " /\ "$2" # " " /\ Solid("$1") = "$1" /\ Solid("$2") = "$2"
      BY DEF Solid
    <3>2. \A y \in Range(a) : Ink(y) = <<y>>
      BY <1>3, <2>3, <2>4, <2>6
    <3>3. \A y \in Range(b) : Ink(y) = <<y>>
      BY <1>3, <2>3, <2>4, <2>6
    <3>4. QED
      BY <3>1, <3>2, <3>3, PieceInked
  <2>9. InkAll(space) = << >>
    <3> DEFINE c == Leaf("text", " ")
    <3>1. " " \notin ToSet(Slots) /\ " " # SlotComma
      BY SlotsAre DEF SlotComma
    <3>2. space = <<c>>
      BY <3>1 DEF Piece
    <3>3. c.rule = "text" /\ c.word = " "
      BY LeafIs
    <3> HIDE DEF c
    <3>4. Ink(c) = << >>
      BY <3>3 DEF Ink
    <3>5. QED
      BY <3>2, <3>4, InkAllOne
  <2> HIDE DEF a, b, space
  <2>10. h[1] = a /\ h[2] = << >> /\ h[3] = b
    BY <2>4, <2>5, <2>8, <2>9
  <2>11. InkAll(Joined(pt, 3)) = Joined(h, 3)
    <3> HIDE DEF pt
    <3> QED BY <1>1, <2>2, <2>4, InkAllJoined
  <2> HIDE DEF h
  <2>12. Joined(h, 3) = (a \o << >>) \o b
    BY <2>7, <2>10, JoinedThree, EmptyIsSeq
  <2> HIDE DEF pg, pt
  <2>13. Joined(pg, 2) = a \o b
    BY <2>6, <2>7, JoinedTwo
  <2>14. a \o << >> = a
    BY <2>7, ConcatNothing
  <2>15. QED
    BY <1>1, <1>2, <2>2, <2>3, <2>11, <2>12, <2>13, <2>14
<1>6. QED
  BY <1>4, <1>5

\* The elements of a sequence, each replaced by its pieces.
LEMMA ExpandIsEach ==
    ASSUME NEW layout, NEW S, NEW s \in Seq(S)
    PROVE  Expand(s, layout) = Each([x \in S |-> Pieces(x, layout)], s)
<1>1. DOMAIN s = 1 .. Len(s) /\ \A n \in 1 .. Len(s) : s[n] \in S
  BY LenProperties, ElementOfSeq
<1>2. [j \in DOMAIN s |-> Pieces(s[j], layout)]
        = [n \in 1 .. Len(s) |-> [x \in S |-> Pieces(x, layout)][s[n]]]
  BY <1>1
<1>3. QED
  BY <1>2 DEF Expand, Each

LEMMA ExpandIsJoined ==
    ASSUME NEW layout, Laid(layout), NEW s, IsSeq(s)
    PROVE  LET g == [j \in 1 .. Len(s) |-> Pieces(s[j], layout)]
           IN  /\ Expand(s, layout) = Joined(g, Len(s)) /\ Len(s) \in Nat
               /\ \A j \in 1 .. Len(s) : IsSeq(g[j])
<1> DEFINE g == [j \in 1 .. Len(s) |-> Pieces(s[j], layout)]
<1>1. DOMAIN s = 1 .. Len(s) /\ Len(s) \in Nat
  BY LenProperties DEF IsSeq
<1>2. Expand(s, layout) = FlattenSeq(g)
  BY <1>1 DEF Expand
<1>3. g = [j \in 1 .. Len(s) |-> g[j]]
  OBVIOUS
<1>4. \A j \in 1 .. Len(s) : IsSeq(g[j])
  BY PiecesIsSeq
<1>5. QED
  BY <1>1, <1>2, <1>3, <1>4 DEF Joined

LEMMA ExpandIsSeq ==
    ASSUME NEW layout, Laid(layout), NEW s, IsSeq(s)
    PROVE  IsSeq(Expand(s, layout))
<1> DEFINE g == [j \in 1 .. Len(s) |-> Pieces(s[j], layout)]
<1>1. /\ Expand(s, layout) = Joined(g, Len(s)) /\ Len(s) \in Nat
      /\ \A j \in 1 .. Len(s) : IsSeq(g[j])
  BY ExpandIsJoined
<1> HIDE DEF g
<1>2. QED
  BY <1>1, JoinedRange

\* What a sequence expands to is what its elements do.
LEMMA ExpandRange ==
    ASSUME NEW layout, Laid(layout), NEW s, IsSeq(s), NEW x \in Range(s)
    PROVE  Range(Pieces(x, layout)) \subseteq Range(Expand(s, layout))
<1> DEFINE g == [j \in 1 .. Len(s) |-> Pieces(s[j], layout)]
<1>1. /\ Expand(s, layout) = Joined(g, Len(s)) /\ Len(s) \in Nat
      /\ \A j \in 1 .. Len(s) : IsSeq(g[j])
  BY ExpandIsJoined
<1>2. PICK j \in 1 .. Len(s) : s[j] = x
  BY LenProperties DEF IsSeq, Range
<1>3. g[j] = Pieces(x, layout)
  BY <1>2
<1> HIDE DEF g
<1>4. QED
  BY <1>1, <1>3, JoinedRange

\* A tree is expanded level by level.
LEMMA LeavesWalk ==
    ASSUME NEW tree, NEW layout
    PROVE  \E level : /\ level[0] = <<tree>>
                      /\ \A n \in 1 .. Depth : level[n] = Expand(level[n - 1], layout)
                      /\ Leaves(tree, layout) = level[Depth]
<1> DEFINE Step(g, n) == IF n = 0 THEN <<tree>> ELSE Expand(g[n - 1], layout)
           Unfolds(g, m) == g = [n \in 0 .. m |-> Step(g, n)]
           Defined == {m \in 0 .. Depth : \E g : Unfolds(g, m)}
           level[n \in 0 .. Depth] == IF n = 0 THEN <<tree>> ELSE Expand(level[n - 1], layout)
<1>1. Leaves(tree, layout) = level[Depth]
  BY DEF Leaves
<1>2. level = CHOOSE g : Unfolds(g, Depth)
  OBVIOUS
<1> HIDE DEF level
<1>3. Depth \in Nat
  BY DepthAssumption
<1>4. 0 \in Defined
  <2> DEFINE h == [n \in 0 .. 0 |-> <<tree>>]
  <2>1. Unfolds(h, 0)
    <3>1. \A n \in 0 .. 0 : n = 0
      OBVIOUS
    <3>2. QED
      BY <3>1
  <2>2. 0 \in 0 .. Depth
    BY <1>3
  <2> HIDE DEF Unfolds, h
  <2>3. QED
    BY <2>1, <2>2
<1>5. ASSUME NEW m \in 1 .. Depth, m - 1 \in Defined
      PROVE  m \in Defined
  <2>1. PICK g : Unfolds(g, m - 1)
    BY <1>5
  <2> DEFINE h == [n \in 0 .. m |-> IF n = m THEN Step(g, m) ELSE g[n]]
  <2>2. ASSUME NEW n \in 0 .. m
        PROVE  h[n] = Step(h, n)
    <3>1. CASE n = m
      <4>1. n # 0 /\ n - 1 \in 0 .. m /\ n - 1 # m
        BY <3>1
      <4>2. h[n - 1] = g[n - 1]
        BY <4>1
      <4>3. h[n] = Step(g, n)
        BY <3>1
      <4>4. QED
        BY <4>1, <4>2, <4>3
    <3>2. CASE n # m
      <4>1. n \in 0 .. m - 1 /\ (n = 0 \/ (n - 1 \in 0 .. m /\ n - 1 # m))
        BY <3>2
      <4>2. h[n] = g[n]
        BY <3>2
      <4>3. g[n] = Step(g, n)
        <5> HIDE DEF Step, h
        <5> QED BY <2>1, <4>1
      <4>4. n = 0 \/ h[n - 1] = g[n - 1]
        BY <4>1
      <4>5. QED
        BY <4>2, <4>3, <4>4
    <3>3. QED
      BY <3>1, <3>2
  <2>3. Unfolds(h, m)
    BY <2>2
  <2>4. m \in 0 .. Depth
    BY <1>3
  <2> HIDE DEF Unfolds
  <2>5. QED
    BY <2>3, <2>4
<1>6. 0 .. Depth \subseteq Defined
  <2> HIDE DEF Defined
  <2> QED BY <1>3, <1>4, <1>5, InductionUpTo
<1>7. Unfolds(level, Depth)
  <2>1. Depth \in 0 .. Depth
    BY <1>3
  <2>2. \E g : Unfolds(g, Depth)
    BY <1>6, <2>1
  <2>3. QED
    BY <1>2, <2>2
<1>8. level[0] = <<tree>> /\ \A n \in 1 .. Depth : level[n] = Expand(level[n - 1], layout)
  <2>1. 0 \in 0 .. Depth /\ 1 .. Depth \subseteq 0 .. Depth /\ \A n \in 1 .. Depth : n # 0
    BY <1>3
  <2>2. \A n \in 0 .. Depth : level[n] = IF n = 0 THEN <<tree>> ELSE Expand(level[n - 1], layout)
    BY <1>7
  <2>3. QED
    BY <2>1, <2>2
<1>9. QED
  BY <1>1, <1>8

\* Every level is a sequence.
LEMMA LevelsAreSeq ==
    ASSUME NEW tree, NEW layout, Laid(layout), NEW level, level[0] = <<tree>>,
           \A n \in 1 .. Depth : level[n] = Expand(level[n - 1], layout)
    PROVE  \A n \in 0 .. Depth : IsSeq(level[n])
<1> DEFINE T == {n \in 0 .. Depth : IsSeq(level[n])}
<1>1. 0 \in T
  BY OneIsSeq, DepthAssumption
<1>2. ASSUME NEW n \in 1 .. Depth, n - 1 \in T
      PROVE  n \in T
  <2>1. IsSeq(level[n])
    BY <1>2, ExpandIsSeq
  <2>2. QED
    BY <2>1, DepthAssumption
<1>3. 0 .. Depth \subseteq T
  <2> HIDE DEF T
  <2> QED BY <1>1, <1>2, InductionUpTo, DepthAssumption
<1>4. QED
  BY <1>3

\* A literal stays among the leaves once it is there.
LEMMA TextStays ==
    ASSUME NEW tree, NEW layout, Laid(layout), NEW level, level[0] = <<tree>>,
           \A n \in 1 .. Depth : level[n] = Expand(level[n - 1], layout),
           NEW k \in 0 .. Depth, NEW x \in Range(level[k]), x.rule = "text"
    PROVE  x \in Range(level[Depth])
<1> DEFINE T == {n \in 0 .. Depth : n >= k => x \in Range(level[n])}
<1>1. Depth \in Nat /\ k \in Nat /\ k <= Depth
  BY DepthAssumption
<1>2. 0 \in T
  BY <1>1
<1>3. Pieces(x, layout) = <<x>>
  <2>1. x # None
    BY NothingIsNone
  <2>2. x.rule \notin DOMAIN layout
    BY RulesAre DEF Laid
  <2>3. QED
    BY <2>1, <2>2 DEF Pieces
<1>4. ASSUME NEW n \in 1 .. Depth, n - 1 \in T
      PROVE  n \in T
  <2>1. n \in 0 .. Depth /\ n - 1 \in 0 .. Depth
    BY <1>1
  <2>2. CASE n - 1 >= k
    <3>1. x \in Range(level[n - 1]) /\ IsSeq(level[n - 1])
      BY <1>4, <2>1, <2>2, LevelsAreSeq
    <3>2. Range(Pieces(x, layout)) \subseteq Range(Expand(level[n - 1], layout))
      BY <3>1, ExpandRange
    <3>3. x \in Range(level[n])
      BY <1>3, <3>2, RangeOfOne
    <3>4. QED
      BY <2>1, <3>3
  <2>3. CASE ~ (n - 1 >= k)
    <3>1. n >= k => n = k
      BY <1>1, <2>3
    <3>2. QED
      BY <2>1, <3>1
  <2>4. QED
    BY <2>2, <2>3
<1>5. 0 .. Depth \subseteq T
  <2> HIDE DEF T
  <2> QED BY <1>1, <1>2, <1>4, InductionUpTo
<1>6. Depth \in T
  BY <1>1, <1>5
<1>7. QED
  BY <1>1, <1>6

\* One level further: what is inked, expanded.
LEMMA ExpandInked ==
    ASSUME NEW s, IsSeq(s), IsSeq(InkAll(s)),
           \A y \in Range(InkAll(s)) \cup Range(Expand(InkAll(s), insn_grammar)) : Ink(y) = <<y>>
    PROVE  InkAll(Expand(s, Transformer)) = Expand(InkAll(s), insn_grammar)
<1> DEFINE l == Len(s)
           pt == [j \in 1 .. l |-> Pieces(s[j], Transformer)]
           inks == [j \in 1 .. l |-> Ink(s[j])]
           S == UNION {Range(inks[j]) : j \in 1 .. l}
           grow == [x \in S |-> Pieces(x, insn_grammar)]
           grown == [j \in 1 .. l |-> Each(grow, inks[j])]
           h == [j \in 1 .. l |-> InkAll(pt[j])]
<1>1. l \in Nat
  BY LenProperties DEF IsSeq
<1>2. Expand(s, Transformer) = Joined(pt, l) /\ \A j \in 1 .. l : IsSeq(pt[j])
  BY LayoutsLaid, ExpandIsJoined
<1>3. InkAll(Expand(s, Transformer)) = Joined(h, l)
  <2> HIDE DEF pt, l
  <2> QED BY <1>1, <1>2, InkAllJoined
<1>4. \A j \in 1 .. l : IsSeq(inks[j])
  BY InkIsSeq
<1>5. InkAll(s) = Joined(inks, l)
  <2>1. inks = [j \in 1 .. l |-> inks[j]]
    OBVIOUS
  <2>2. QED
    BY <2>1 DEF InkAll, Joined
<1>6. Range(InkAll(s)) = S
  <2> HIDE DEF inks, l
  <2> QED BY <1>1, <1>4, <1>5, JoinedRange
<1>7. \A j \in 1 .. l : inks[j] \in Seq(S)
  <2> TAKE j \in 1 .. l
  <2>1. Range(inks[j]) \subseteq S
    OBVIOUS
  <2>2. inks[j] \in Seq(Range(inks[j]))
    BY <1>4 DEF IsSeq
  <2> HIDE DEF S, inks
  <2>3. QED
    BY <2>1, <2>2
<1> HIDE DEF S
<1>8. InkAll(s) \in Seq(S)
  BY <1>6 DEF IsSeq
<1>9. Expand(InkAll(s), insn_grammar) = Each(grow, InkAll(s))
  BY <1>8, ExpandIsEach
<1>10. Makes(grow, S)
  BY PiecesIsSeq, LayoutsLaid DEF Makes
<1>11. Each(grow, InkAll(s)) = Joined(grown, l)
  <2> HIDE DEF grow, grown, inks, l, h, pt
  <2>1. /\ l \in Nat /\ \A j \in 1 .. l : inks[j] \in Seq(S)
        /\ Makes(grow, S)
    BY <1>1, <1>7, <1>10
  <2>2. \A j \in 1 .. l : grown[j] = Each(grow, inks[j])
    BY DEF grown
  <2>3. Each(grow, Joined(inks, l)) = Joined(grown, l)
    BY <2>1, <2>2, EachJoined
  <2>4. QED
    BY <1>5, <2>3
<1>12. ASSUME NEW j \in 1 .. l
       PROVE  h[j] = grown[j]
  <2> DEFINE x == s[j]
  <2>1. h[j] = InkAll(Pieces(x, Transformer)) /\ grown[j] = Each(grow, Ink(x))
    BY <1>12
  <2>2. inks[j] = Ink(x)
    BY <1>12
  <2> HIDE DEF x
  <2>3. Range(Ink(x)) \subseteq S
    BY <1>12, <2>2 DEF S
  <2> HIDE DEF inks, h, grown, pt
  <2>4. CASE x = None
    <3>1. Ink(x) = <<x>>
      BY <2>4, NothingIsNone, LayoutsLaid DEF Ink
    <3>2. x \in S /\ grow[x] = << >>
      BY <2>3, <2>4, <3>1, RangeOfOne, NothingIsNone, LayoutsLaid
    <3>3. Each(grow, Ink(x)) = << >>
      BY <3>1, <3>2, EachOne, EmptyIsSeq
    <3>4. InkAll(Pieces(x, Transformer)) = << >>
      BY <2>4, NothingIsNone, LayoutsLaid, InkAllNone
    <3>5. QED
      BY <2>1, <3>3, <3>4
  <2>5. CASE x # None /\ x.rule \in DOMAIN insn_grammar
    <3>1. Ink(x) = <<x>>
      BY <2>5, RulesAre DEF Ink
    <3>2. x \in S /\ grow[x] = Pieces(x, insn_grammar) /\ IsSeq(grow[x])
      BY <1>10, <2>3, <3>1, RangeOfOne DEF Makes
    <3>3. Each(grow, Ink(x)) = Pieces(x, insn_grammar)
      <4> HIDE DEF grow
      <4> QED BY <3>1, <3>2, EachOne
    <3>4. \A y \in Range(Pieces(x, insn_grammar)) : Ink(y) = <<y>>
      BY <1>6, <3>2, ExpandRange, LayoutsLaid
    <3>5. QED
      BY <2>1, <2>5, <3>3, <3>4, NodeInked
  <2>6. CASE x # None /\ x.rule \notin DOMAIN insn_grammar
    <3>1. Pieces(x, Transformer) = <<x>>
      BY <2>6, TransformerIs DEF Pieces
    <3>2. InkAll(Pieces(x, Transformer)) = Ink(x)
      BY <3>1, InkAllOne
    <3>3. CASE Ink(x) = << >>
      BY <2>1, <3>2, <3>3, EachNone
    <3>4. CASE Ink(x) # << >>
      <4> DEFINE y == IF Ink(x) = <<x>> THEN x ELSE Leaf("text", Solid(x.word))
      <4>1. Ink(x) = <<y>>
        BY <3>4 DEF Ink
      <4>2. y # None /\ y.rule \notin DOMAIN insn_grammar
        <5>1. /\ Leaf("text", Solid(x.word)).rule = "text"
              /\ None.rule = "none"
          BY LeafIs, NothingIsNone, LayoutsLaid
        <5>2. Leaf("text", Solid(x.word)) # None
          BY <5>1
        <5>3. QED
          BY <2>6, <5>1, <5>2, RulesAre
      <4> HIDE DEF y
      <4>3. y \in S
        BY <2>3, <4>1, RangeOfOne
      <4>4. grow[y] = <<y>>
        BY <4>2, <4>3 DEF Pieces
      <4>5. Each(grow, <<y>>) = <<y>>
        <5> HIDE DEF grow
        <5> QED BY <4>4, EachOne, OneIsSeq
      <4>6. QED
        BY <2>1, <3>2, <4>1, <4>5
    <3>5. QED
      BY <3>3, <3>4
  <2>7. QED
    BY <2>4, <2>5, <2>6
<1>13. Joined(h, l) = Joined(grown, l)
  <2> HIDE DEF h, grown, l
  <2> QED BY <1>1, <1>12, JoinedSame
<1>14. QED
  BY <1>3, <1>9, <1>11, <1>13

\* Without the spaces of the transformer, the leaves of a tree are those of the grammar.
LEMMA LeavesInked ==
    ASSUME NEW tree, Parsed(Leaves(tree, insn_grammar))
    PROVE  /\ IsSeq(Leaves(tree, Transformer)) /\ IsSeq(Leaves(tree, insn_grammar))
           /\ InkAll(Leaves(tree, Transformer)) = Leaves(tree, insn_grammar)
<1>1. PICK t : /\ t[0] = <<tree>>
               /\ \A n \in 1 .. Depth : t[n] = Expand(t[n - 1], Transformer)
               /\ Leaves(tree, Transformer) = t[Depth]
  BY LeavesWalk
<1>2. PICK g : /\ g[0] = <<tree>>
               /\ \A n \in 1 .. Depth : g[n] = Expand(g[n - 1], insn_grammar)
               /\ Leaves(tree, insn_grammar) = g[Depth]
  BY LeavesWalk
<1>3. Depth \in Nat /\ 0 \in 0 .. Depth /\ Depth \in 0 .. Depth
  BY DepthAssumption
<1>4. /\ \A n \in 0 .. Depth : IsSeq(t[n])
      /\ \A n \in 0 .. Depth : IsSeq(g[n])
  BY <1>1, <1>2, LayoutsLaid, LevelsAreSeq
<1>5. ASSUME NEW n \in 0 .. Depth, NEW y \in Range(g[n])
      PROVE  Ink(y) = <<y>>
  <2>1. CASE y.rule # "text"
    BY <2>1 DEF Ink
  <2>2. CASE y.rule = "text"
    <3>1. y \in Range(g[Depth])
      BY <1>2, <2>2, LayoutsLaid, TextStays
    <3>2. y \in ToSet(Leaves(tree, insn_grammar))
      BY <1>2, <3>1 DEF ToSet, Range
    <3>3. y.word # " " /\ Solid(y.word) = y.word
      BY <3>2 DEF Parsed
    <3>4. QED
      BY <3>3 DEF Ink
  <2>3. QED
    BY <2>1, <2>2
<1> DEFINE T == {n \in 0 .. Depth : InkAll(t[n]) = g[n]}
<1>6. 0 \in T
  <2>1. Ink(tree) = <<tree>>
    BY <1>2, <1>3, <1>5, RangeOfOne
  <2>2. InkAll(t[0]) = g[0]
    BY <1>1, <1>2, <2>1, InkAllOne
  <2>3. QED
    BY <1>3, <2>2
<1>7. ASSUME NEW n \in 1 .. Depth, n - 1 \in T
      PROVE  n \in T
  <2>1. n - 1 \in 0 .. Depth /\ n \in 0 .. Depth
    BY <1>3
  <2>2. InkAll(t[n - 1]) = g[n - 1]
    BY <1>7
  <2>3. t[n] = Expand(t[n - 1], Transformer) /\ g[n] = Expand(InkAll(t[n - 1]), insn_grammar)
    BY <1>1, <1>2, <2>2
  <2>4. IsSeq(t[n - 1]) /\ IsSeq(InkAll(t[n - 1]))
    BY <1>4, <2>1, <2>2
  <2>5. \A y \in Range(InkAll(t[n - 1])) \cup Range(Expand(InkAll(t[n - 1]), insn_grammar)) :
          Ink(y) = <<y>>
    BY <1>5, <2>1, <2>2, <2>3
  <2>6. InkAll(Expand(t[n - 1], Transformer)) = Expand(InkAll(t[n - 1]), insn_grammar)
    BY <2>4, <2>5, ExpandInked
  <2>7. QED
    BY <2>1, <2>3, <2>6
<1>8. 0 .. Depth \subseteq T
  <2> HIDE DEF T
  <2> QED BY <1>3, <1>6, <1>7, InductionUpTo
<1>9. InkAll(t[Depth]) = g[Depth]
  BY <1>3, <1>8
<1>10. QED
  BY <1>1, <1>2, <1>3, <1>4, <1>9

LEMMA LetterIsSeq == ASSUME NEW x PROVE IsSeq(Letter(x))
BY OneIsSeq, EmptyIsSeq DEF Letter

LEMMA LettersAreJoined ==
    ASSUME NEW s, IsSeq(s)
    PROVE  LET g == [k \in 1 .. Len(s) |-> Letter(s[k])]
           IN  /\ Letters(s) = Joined(g, Len(s)) /\ Len(s) \in Nat /\ DOMAIN s = 1 .. Len(s)
               /\ \A k \in 1 .. Len(s) : IsSeq(g[k])
<1> DEFINE g == [k \in 1 .. Len(s) |-> Letter(s[k])]
<1>1. DOMAIN s = 1 .. Len(s) /\ Len(s) \in Nat
  BY LenProperties DEF IsSeq
<1>2. Letters(s) = FlattenSeq(g)
  BY <1>1 DEF Letters
<1>3. g = [k \in 1 .. Len(s) |-> g[k]]
  OBVIOUS
<1>4. \A k \in 1 .. Len(s) : IsSeq(g[k])
  BY LetterIsSeq
<1>5. QED
  BY <1>1, <1>2, <1>3, <1>4 DEF Joined

LEMMA LettersAreEach ==
    ASSUME NEW S, NEW s \in Seq(S)
    PROVE  Letters(s) = Each([x \in S |-> Letter(x)], s)
<1>1. DOMAIN s = 1 .. Len(s) /\ \A n \in 1 .. Len(s) : s[n] \in S
  BY LenProperties, ElementOfSeq
<1>2. [k \in DOMAIN s |-> Letter(s[k])] = [n \in 1 .. Len(s) |-> [x \in S |-> Letter(x)][s[n]]]
  BY <1>1
<1>3. QED
  BY <1>2 DEF Letters, Each

\* What is inked, part by part.
LEMMA InkAllIsJoined ==
    ASSUME NEW s, IsSeq(s)
    PROVE  LET g == [n \in 1 .. Len(s) |-> Ink(s[n])]
               S == UNION {Range(g[n]) : n \in 1 .. Len(s)}
           IN  /\ InkAll(s) = Joined(g, Len(s)) /\ Len(s) \in Nat /\ DOMAIN s = 1 .. Len(s)
               /\ Range(InkAll(s)) = S /\ IsSeq(InkAll(s))
               /\ \A n \in 1 .. Len(s) : g[n] \in Seq(S)
<1> DEFINE l == Len(s)
           g == [n \in 1 .. l |-> Ink(s[n])]
           S == UNION {Range(g[n]) : n \in 1 .. l}
<1>1. l \in Nat /\ DOMAIN s = 1 .. l
  BY LenProperties DEF IsSeq
<1>2. \A n \in 1 .. l : IsSeq(g[n])
  BY InkIsSeq
<1>3. InkAll(s) = Joined(g, l)
  <2>1. g = [n \in 1 .. l |-> g[n]]
    OBVIOUS
  <2>2. QED
    BY <2>1 DEF InkAll, Joined
<1>4. Range(InkAll(s)) = S /\ IsSeq(InkAll(s))
  <2> HIDE DEF g, l
  <2> QED BY <1>1, <1>2, <1>3, JoinedRange
<1>5. \A n \in 1 .. l : g[n] \in Seq(S)
  <2> TAKE n \in 1 .. l
  <2>1. Range(g[n]) \subseteq S
    OBVIOUS
  <2>2. g[n] \in Seq(Range(g[n]))
    BY <1>2 DEF IsSeq
  <2> HIDE DEF S, g
  <2>3. QED
    BY <2>1, <2>2
<1> HIDE DEF g, S
<1>6. QED
  BY <1>1, <1>3, <1>4, <1>5 DEF g, S

LEMMA InkIs ==
    ASSUME NEW x
    PROVE  /\ x.rule # "text" => Ink(x) = <<x>>
           /\ x.rule = "text" => \/ Ink(x) = << >> /\ x.word = " "
                                 \/ \E y : /\ Ink(x) = <<y>> /\ x.word # " "
                                           /\ y.rule = "text" /\ y.word = Solid(x.word)
<1>1. x.rule # "text" => Ink(x) = <<x>>
  BY DEF Ink
<1>2. ASSUME x.rule = "text", x.word # " "
      PROVE  \E y : Ink(x) = <<y>> /\ y.rule = "text" /\ y.word = Solid(x.word)
  <2>1. CASE Solid(x.word) = x.word
    BY <1>2, <2>1 DEF Ink
  <2>2. CASE Solid(x.word) # x.word
    <3> DEFINE y == Leaf("text", Solid(x.word))
    <3>1. y.rule = "text" /\ y.word = Solid(x.word)
      BY LeafIs
    <3>2. Ink(x) = <<y>>
      BY <1>2, <2>2 DEF Ink
    <3> HIDE DEF y
    <3>3. QED
      BY <3>1, <3>2
  <2>3. QED
    BY <2>1, <2>2
<1>3. ASSUME x.rule = "text", x.word = " "
      PROVE  Ink(x) = << >>
  BY <1>3 DEF Ink
<1>4. QED
  BY <1>1, <1>2, <1>3

\* The transformer's spaces are no immediates.
LEMMA LettersInked == ASSUME NEW s, IsSeq(s) PROVE Letters(InkAll(s)) = Letters(s)
<1> DEFINE l == Len(s)
           g == [n \in 1 .. l |-> Ink(s[n])]
           S == UNION {Range(g[n]) : n \in 1 .. l}
           f == [x \in S |-> Letter(x)]
           h == [n \in 1 .. l |-> Letter(s[n])]
<1>1. /\ InkAll(s) = Joined(g, l) /\ l \in Nat /\ Range(InkAll(s)) = S /\ IsSeq(InkAll(s))
      /\ \A n \in 1 .. l : g[n] \in Seq(S)
  BY InkAllIsJoined
<1>2. \A n \in 1 .. l : g[n] = Ink(s[n]) /\ h[n] = Letter(s[n]) /\ Range(g[n]) \subseteq S
  OBVIOUS
<1>3. Letters(s) = Joined(h, l)
  BY LettersAreJoined
<1> HIDE DEF g, l, h, S
<1>4. InkAll(s) \in Seq(S)
  BY <1>1 DEF IsSeq
<1>5. Letters(InkAll(s)) = Each(f, InkAll(s))
  BY <1>4, LettersAreEach
<1>6. Makes(f, S)
  BY LetterIsSeq DEF Makes
<1>7. ASSUME NEW n \in 1 .. l
      PROVE  h[n] = Each(f, g[n])
  <2> DEFINE x == s[n]
  <2>1. g[n] = Ink(x) /\ h[n] = Letter(x) /\ Range(Ink(x)) \subseteq S
    BY <1>2
  <2> HIDE DEF x
  <2>2. CASE Ink(x) = << >>
    <3>1. x.rule = "text"
      <4>1. Len(<<x>>) = 1 /\ Len(<< >>) = 0
        OBVIOUS
      <4>2. Ink(x) # <<x>>
        BY <2>2, <4>1
      <4>3. QED
        BY <4>2, InkIs
    <3>2. Letter(x) = << >>
      BY <3>1 DEF Letter
    <3>3. QED
      BY <2>1, <2>2, <3>2, EachNone
  <2>3. ASSUME NEW y, Ink(x) = <<y>>, Letter(y) = Letter(x)
        PROVE  h[n] = Each(f, g[n])
    <3>1. y \in S
      BY <2>1, <2>3, RangeOfOne
    <3>2. f[y] = Letter(y) /\ IsSeq(f[y])
      BY <3>1, LetterIsSeq
    <3> HIDE DEF f
    <3>3. Each(f, <<y>>) = Letter(y)
      BY <3>2, EachOne
    <3>4. QED
      BY <2>1, <2>3, <3>3
  <2>4. Ink(x) = << >> \/ \E y : Ink(x) = <<y>> /\ Letter(y) = Letter(x)
    <3>1. CASE x.rule # "text"
      BY <3>1, InkIs
    <3>2. ASSUME x.rule = "text", NEW y, Ink(x) = <<y>>, y.rule = "text"
          PROVE  Letter(y) = Letter(x)
      BY <3>2 DEF Letter
    <3>3. QED
      BY <3>1, <3>2, InkIs
  <2>5. QED
    BY <2>2, <2>3, <2>4
<1>8. Each(f, Joined(g, l)) = Joined(h, l)
  <2> HIDE DEF f
  <2> QED BY <1>1, <1>6, <1>7, EachJoined
<1>9. QED
  BY <1>1, <1>3, <1>5, <1>8

\* The letter of an immediate is among the letters, the first one unless an immediate came
\* before it.
LEMMA LetterIsAt ==
    ASSUME NEW s, IsSeq(s), NEW n \in 1 .. Len(s), s[n].rule = "imm"
    PROVE  /\ Len(Letters(s)) \in Nat /\ DOMAIN Letters(s) = 1 .. Len(Letters(s))
           /\ \E p \in 1 .. Len(Letters(s)) :
                /\ Letters(s)[p] = s[n].word
                /\ p > 1 <=> \E k \in DOMAIN s : k < n /\ s[k].rule = "imm"
<1> DEFINE l == Len(s)
           g == [k \in 1 .. l |-> Letter(s[k])]
           before == Joined(g, n - 1)
<1>1. /\ Letters(s) = Joined(g, l) /\ l \in Nat /\ DOMAIN s = 1 .. l
      /\ \A k \in 1 .. l : IsSeq(g[k])
  BY LettersAreJoined
<1>2. \A k \in 1 .. l : g[k] = IF s[k].rule = "imm" THEN <<s[k].word>> ELSE << >>
  BY DEF Letter
<1>3. \A x : Len(<<x>>) = 1 /\ <<x>>[1] = x
  OBVIOUS
<1>4. Len(<< >>) = 0 /\ 1 \in 1 .. 1
  OBVIOUS
<1>5. n \in 1 .. l /\ n - 1 \in Nat /\ \A k \in 1 .. n - 1 : k \in 1 .. l
  BY <1>1
<1> HIDE DEF g, l
<1>6. Parts(g, l) /\ Parts(g, n - 1)
  BY <1>1, <1>5 DEF Parts
<1>7. IsSeq(Joined(g, l)) /\ IsSeq(before)
  BY <1>1, <1>5, <1>6, FlattenIsSeq DEF Joined, Parts
<1>8. Len(g[n]) = 1 /\ g[n][1] = s[n].word
  BY <1>2, <1>3, <1>5
<1> DEFINE p == Len(before) + 1
<1>9. p \in 1 .. Len(Joined(g, l)) /\ Joined(g, l)[p] = s[n].word
  BY <1>1, <1>4, <1>5, <1>6, <1>8, JoinedAt
<1>10. Len(before) \in Nat /\ Len(Joined(g, l)) \in Nat /\ DOMAIN Joined(g, l) = 1 .. Len(Joined(g, l))
  BY <1>7, LenProperties DEF IsSeq
<1>11. ASSUME NEW k \in DOMAIN s, k < n, s[k].rule = "imm"
       PROVE  p > 1
  <2>1. k \in 1 .. l /\ k \in 1 .. n - 1
    BY <1>1, <1>11
  <2>2. Len(g[k]) = 1
    BY <1>2, <1>3, <1>11, <2>1
  <2>3. Len(Joined(g, k - 1)) + 1 \in 1 .. Len(before)
    BY <1>4, <1>5, <1>6, <2>1, <2>2, JoinedAt
  <2>4. QED
    BY <1>10, <2>3
<1>12. ASSUME p > 1
       PROVE  \E k \in DOMAIN s : k < n /\ s[k].rule = "imm"
  <2>1. 1 \in 1 .. Len(before)
    BY <1>10, <1>12
  <2>2. PICK k \in 1 .. n - 1 : \E m \in 1 .. Len(g[k]) : 1 = Len(Joined(g, k - 1)) + m
    BY <1>5, <1>6, <2>1, JoinedFrom
  <2>3. k \in 1 .. l /\ k < n
    BY <1>5
  <2>4. Len(g[k]) # 0
    BY <2>2
  <2>5. s[k].rule = "imm"
    BY <1>2, <1>4, <2>3, <2>4
  <2>6. QED
    BY <1>1, <2>3, <2>5
<1>13. QED
  <2> HIDE DEF p, before
  <2> QED BY <1>1, <1>9, <1>10, <1>11, <1>12

-----------------------------------------------------------------------------
(* The immediates of an instruction. *)

\* What is known of the leaves of an instruction.
LEMMA LeavesOf ==
    ASSUME NEW insn, Regular(insn)
    PROVE  LET t == Leaves(insn.tree, Transformer)
               g == Leaves(insn.tree, insn_grammar)
           IN  /\ IsSeq(t) /\ IsSeq(g) /\ InkAll(t) = g /\ Letters(t) = Letters(g)
               /\ Parsed(g) /\ NamesOperands(insn, g) /\ NamesImmediates(insn, Letters(g))
<1>1. /\ Parsed(Leaves(insn.tree, insn_grammar))
      /\ NamesOperands(insn, Leaves(insn.tree, insn_grammar))
      /\ NamesImmediates(insn, Letters(Leaves(insn.tree, insn_grammar)))
  BY DEF Regular
<1>2. QED
  BY <1>1, LeavesInked, LettersInked

\* There are at most two immediates, since one of two is upper-case.
LEMMA TwoAtMost ==
    ASSUME NEW letters, Len(letters) \in Nat, DOMAIN letters = 1 .. Len(letters),
           \A j, k \in DOMAIN letters : IsUpper(letters[j]) = IsUpper(letters[k]) => j = k
    PROVE  Len(letters) <= 2
<1>1. SUFFICES ASSUME Len(letters) >= 3
               PROVE  FALSE
  OBVIOUS
<1>2. 1 \in DOMAIN letters /\ 2 \in DOMAIN letters /\ 3 \in DOMAIN letters
  BY <1>1
<1>3. \A j \in DOMAIN letters : IsUpper(letters[j]) \in BOOLEAN
  BY DEF IsUpper
<1>4. IsUpper(letters[1]) # IsUpper(letters[2]) /\ IsUpper(letters[2]) # IsUpper(letters[3])
  BY <1>2
<1>5. IsUpper(letters[1]) = IsUpper(letters[3])
  BY <1>2, <1>3, <1>4
<1>6. QED
  BY <1>2, <1>5

\* imm goes by the flags of the instruction and by the immediates before; what it shows as
\* an address is what counts from the packet.
LEMMA ImmIs ==
    ASSUME NEW insn, NEW s, IsSeq(s), NamesImmediates(insn, Letters(s)),
           NEW n \in 1 .. Len(s), s[n].rule = "imm"
    PROVE  LET w  == s[n].word
               ii == IF IsUpper(w) THEN 2 ELSE 1
           IN  imm(insn, w, Len(Letters(s)), \E k \in DOMAIN s : k < n /\ s[k].rule = "imm")
                 = IF IsRelative(w) THEN <<Immed("CodeRelativeAddress", ii)>>
                   ELSE <<IF Extendable(insn, IsUpper(w)) THEN Immed("Extended", ii)
                          ELSE TextToken("#"), Immed("Integer", ii)>>
<1> DEFINE w == s[n].word
           L == Letters(s)
           jumps == is_jump(insn) \/ is_call(insn)
           loops == is_write_to_loop_start(insn)
           seen == \E k \in DOMAIN s : k < n /\ s[k].rule = "imm"
<1>1. Len(L) \in Nat /\ DOMAIN L = 1 .. Len(L)
  BY LetterIsAt
<1>2. PICK p \in 1 .. Len(L) : L[p] = w /\ (p > 1 <=> seen)
  BY LetterIsAt
<1>3. Len(L) <= 2
  <2> HIDE DEF L
  <2>1. \A j, k \in DOMAIN L : IsUpper(L[j]) = IsUpper(L[k]) => j = k
    BY DEF NamesImmediates, L
  <2>2. QED
    BY <1>1, <2>1, TwoAtMost
<1>4. IsRelative(w) <=> IF loops THEN p = 1 ELSE jumps /\ p = Len(L)
  BY <1>1, <1>2 DEF NamesImmediates
<1>5. jumps /\ Len(L) > 1 => \/ insn.tag = "J4_jumpseti"
                             \/ is_compound_comapre_jump(insn)
                             \/ is_new_value_jump(insn)
  BY DEF NamesImmediates
<1> HIDE DEF L, w, seen
<1>6. PlaceAddrToken(insn, Len(L), seen) <=> IsRelative(w)
  <2>1. PlaceAddrToken(insn, Len(L), seen) <=> IF loops THEN ~seen
                                               ELSE jumps /\ (Len(L) > 1 => seen)
    BY DEF PlaceAddrToken
  <2> HIDE DEF jumps, loops
  <2>2. p = 1 <=> ~ (p > 1)
    BY <1>1
  <2>3. p = Len(L) <=> (Len(L) > 1 => p > 1)
    <3>1. Len(L) = 1 \/ Len(L) = 2
      BY <1>1, <1>3
    <3>2. p \in 1 .. Len(L)
      OBVIOUS
    <3>3. CASE Len(L) = 1
      BY <3>2, <3>3
    <3>4. CASE Len(L) = 2
      <4>1. p = 1 \/ p = 2
        BY <3>2, <3>4
      <4>2. QED
        BY <3>4, <4>1
    <3>5. QED
      BY <3>1, <3>3, <3>4
  <2>4. QED
    BY <1>2, <1>4, <2>1, <2>2, <2>3
<1>7. ~ (/\ jumps /\ Len(L) > 1
         /\ ~ (Len(L) = 2 /\ (\/ insn.tag = "J4_jumpseti"
                              \/ is_compound_comapre_jump(insn)
                              \/ is_new_value_jump(insn))))
  <2> HIDE DEF jumps
  <2>1. Len(L) > 1 => Len(L) = 2
    BY <1>1, <1>3
  <2>2. QED
    BY <1>5, <2>1
<1> DEFINE ii == IF IsUpper(w) THEN 2 ELSE 1
<1>8. imm(insn, w, Len(L), seen)
        = IF PlaceAddrToken(insn, Len(L), seen) THEN <<Immed("CodeRelativeAddress", ii)>>
          ELSE <<IF Extendable(insn, IsUpper(w)) THEN Immed("Extended", ii) ELSE TextToken("#"),
                 Immed("Integer", ii)>>
  BY <1>7 DEF imm
<1>9. imm(insn, w, Len(L), seen)
        = IF IsRelative(w) THEN <<Immed("CodeRelativeAddress", ii)>>
          ELSE <<IF Extendable(insn, IsUpper(w)) THEN Immed("Extended", ii) ELSE TextToken("#"),
                 Immed("Integer", ii)>>
  BY <1>6, <1>8
<1>10. QED
  BY <1>9 DEF L, w, seen

-----------------------------------------------------------------------------
(* What the tokens show. *)

\* The fields of tokens.
LEMMA TokIs ==
    ASSUME NEW kind, NEW w
    PROVE  /\ Tok(kind, w).kind = kind /\ Tok(kind, w).s = w /\ Tok(kind, w).half = ""
           /\ Tok(kind, w).j = 0 /\ Tok(kind, w).up = 0
BY DEF Tok

LEMMA ImmedIs ==
    ASSUME NEW kind, NEW ii
    PROVE  /\ Immed(kind, ii).kind = kind /\ Immed(kind, ii).s = "" /\ Immed(kind, ii).half = ""
           /\ Immed(kind, ii).j = ii /\ Immed(kind, ii).up = 0
BY DEF Tok, Immed

LEMMA GetRegisterIs ==
    ASSUME NEW w, NEW half, NEW j, NEW up
    PROVE  /\ GetRegister(w, half, j, up).kind = "Register" /\ GetRegister(w, half, j, up).s = w
           /\ GetRegister(w, half, j, up).half = half /\ GetRegister(w, half, j, up).j = j
           /\ GetRegister(w, half, j, up).up = up
BY DEF GetRegister

LEMMA ShownIs ==
    ASSUME NEW kind, NEW w, NEW half, NEW v
    PROVE  /\ Shown(kind, w, half, v).kind = kind /\ Shown(kind, w, half, v).s = w
           /\ Shown(kind, w, half, v).half = half /\ Shown(kind, w, half, v).v = v
BY DEF Shown

\* A token by its kind.
LEMMA WrapIs ==
    ASSUME NEW t, NEW d
    PROVE  /\ t.kind = "Register" /\ t.j > 0 =>
                wrap_call(t, d) = Shown("Register", t.s, t.half, d.regno[t.j] + t.up)
           /\ t.kind = "GPRegister" => wrap_call(t, d) = GPShown(t, d)
           /\ t.kind = "CodeRelativeAddress" =>
                wrap_call(t, d) = Shown(t.kind, "", "", d.pc + d.immed[t.j])
           /\ t.kind = "Integer" /\ t.j > 0 => wrap_call(t, d) = Shown(t.kind, "", "", d.immed[t.j])
           /\ t.kind = "Extended" =>
                wrap_call(t, d) = Shown("Text", IF d.extension_valid THEN "##" ELSE "#", "", 0)
           /\ t.kind = "Text" \/ t.kind = "Instruction" => wrap_call(t, d) = Shown(t.kind, t.s, "", 0)
           /\ t.kind = "Register" /\ ~ (t.j > 0) => wrap_call(t, d) = Shown(t.kind, t.s, "", 0)
           /\ t.kind = "Integer" /\ ~ (t.j > 0) => wrap_call(t, d) = Shown(t.kind, t.s, "", 0)
<1>1. ASSUME t.kind = "Register", t.j > 0
      PROVE  wrap_call(t, d) = Shown("Register", t.s, t.half, d.regno[t.j] + t.up)
  BY <1>1, Zenon DEF wrap_call
<1>2. ASSUME t.kind = "GPRegister"
      PROVE  wrap_call(t, d) = GPShown(t, d)
  BY <1>2, Zenon DEF wrap_call
<1>3. ASSUME t.kind = "CodeRelativeAddress"
      PROVE  wrap_call(t, d) = Shown(t.kind, "", "", d.pc + d.immed[t.j])
  BY <1>3, Zenon DEF wrap_call
<1>4. ASSUME t.kind = "Integer", t.j > 0
      PROVE  wrap_call(t, d) = Shown(t.kind, "", "", d.immed[t.j])
  BY <1>4, Zenon DEF wrap_call
<1>5. ASSUME t.kind = "Extended"
      PROVE  wrap_call(t, d) = Shown("Text", IF d.extension_valid THEN "##" ELSE "#", "", 0)
  BY <1>5, Zenon DEF wrap_call
<1>6. ASSUME t.kind = "Text" \/ t.kind = "Instruction"
      PROVE  wrap_call(t, d) = Shown(t.kind, t.s, "", 0)
  BY <1>6, Zenon DEF wrap_call
<1>7. ASSUME t.kind = "Register", ~ (t.j > 0)
      PROVE  wrap_call(t, d) = Shown(t.kind, t.s, "", 0)
  BY <1>7, Zenon DEF wrap_call
<1>8. ASSUME t.kind = "Integer", ~ (t.j > 0)
      PROVE  wrap_call(t, d) = Shown(t.kind, t.s, "", 0)
  BY <1>8, Zenon DEF wrap_call
<1>9. QED
  BY <1>1, <1>2, <1>3, <1>4, <1>5, <1>6, <1>7, <1>8

\* A word.
Plain == {"Text", "Instruction", "Register", "Integer"}
LEMMA WordWrapped ==
    ASSUME NEW kind \in Plain, NEW w, NEW d
    PROVE  wrap_call(Tok(kind, w), d) = Shown(kind, w, "", 0)
<1> DEFINE t == Tok(kind, w)
<1>1. t.kind = kind /\ t.s = w /\ t.j = 0
  BY DEF Tok
<1> HIDE DEF t
<1>2. ~ (t.j > 0)
  BY <1>1
<1>3. kind = "Text" \/ kind = "Instruction" \/ kind = "Register" \/ kind = "Integer"
  BY DEF Plain
<1>4. wrap_call(t, d) = Shown(t.kind, t.s, "", 0)
  BY <1>1, <1>2, <1>3, WrapIs, Zenon
<1>5. QED
  BY <1>1, <1>4 DEF t

\* An operand's register.
LEMMA RegisterWrapped ==
    ASSUME NEW w, NEW half, NEW j \in Nat \ {0}, NEW up, NEW d
    PROVE  wrap_call(GetRegister(w, half, j, up), d) = Shown("Register", w, half, d.regno[j] + up)
<1> DEFINE t == GetRegister(w, half, j, up)
<1>1. t.kind = "Register" /\ t.s = w /\ t.half = half /\ t.j = j /\ t.up = up /\ j > 0
  BY GetRegisterIs
<1> HIDE DEF t
<1>2. wrap_call(t, d) = Shown("Register", t.s, t.half, d.regno[t.j] + t.up)
  BY <1>1, WrapIs, Zenon
<1>3. QED
  BY <1>1, <1>2 DEF t

LEMMA ImmedWrapped ==
    ASSUME NEW ii, ii > 0, NEW d
    PROVE  /\ wrap_call(Immed("CodeRelativeAddress", ii), d)
                = Shown("CodeRelativeAddress", "", "", d.pc + d.immed[ii])
           /\ wrap_call(Immed("Integer", ii), d) = Shown("Integer", "", "", d.immed[ii])
           /\ wrap_call(Immed("Extended", ii), d)
                = Shown("Text", IF d.extension_valid THEN "##" ELSE "#", "", 0)
<1> DEFINE a == Immed("CodeRelativeAddress", ii)
           b == Immed("Integer", ii)
           c == Immed("Extended", ii)
<1>1. /\ a.kind = "CodeRelativeAddress" /\ a.j = ii
      /\ b.kind = "Integer" /\ b.j = ii /\ c.kind = "Extended" /\ c.j = ii
  <2>1. a.kind = "CodeRelativeAddress" /\ a.j = ii
    BY ImmedIs
  <2>2. b.kind = "Integer" /\ b.j = ii
    BY ImmedIs
  <2>3. c.kind = "Extended" /\ c.j = ii
    BY ImmedIs
  <2>4. QED
    BY <2>1, <2>2, <2>3
<1>2. a.j > 0 /\ b.j > 0
  BY <1>1
<1> HIDE DEF a, b, c
<1>3. wrap_call(a, d) = Shown("CodeRelativeAddress", "", "", d.pc + d.immed[ii])
  BY <1>1, WrapIs, Zenon
<1>4. wrap_call(b, d) = Shown("Integer", "", "", d.immed[ii])
  BY <1>2, <1>1, WrapIs, Zenon
<1>5. wrap_call(c, d) = Shown("Text", IF d.extension_valid THEN "##" ELSE "#", "", 0)
  BY <1>1, WrapIs, Zenon
<1>6. QED
  BY <1>3, <1>4, <1>5 DEF a, b, c

LEMMA GPWrapped ==
    ASSUME NEW d
    PROVE  wrap_call(Tok("GPRegister", "GP"), d)
             = IF d.extension_valid THEN Shown("Integer", "0", "", 0) ELSE Shown("Register", "GP", "", 0)
<1> DEFINE t == Tok("GPRegister", "GP")
<1>1. t.kind = "GPRegister" /\ t.s = "GP"
  BY DEF Tok
<1> HIDE DEF t
<1>2. wrap_call(t, d) = GPShown(t, d)
  BY <1>1, WrapIs, Zenon
<1>3. QED
  BY <1>1, <1>2 DEF t, GPShown

LEMMA InkedIs ==
    ASSUME NEW kind, NEW w, NEW half, NEW v
    PROVE  Inked(Shown(kind, w, half, v)) = IF w = " " THEN << >> ELSE <<<<Solid(w), half, v>>>>
<1> DEFINE t == Shown(kind, w, half, v)
<1>1. t.s = w /\ t.half = half /\ t.v = v
  BY ShownIs
<1> HIDE DEF t
<1>2. Inked(t) = IF w = " " THEN << >> ELSE <<<<Solid(w), half, v>>>>
  BY <1>1 DEF Inked
<1>3. QED
  BY <1>2 DEF t

\* Three in a row.
LEMMA TripleIs ==
    ASSUME NEW x, NEW y, NEW z
    PROVE  /\ x \in Range(<<x, y, z>>) /\ y \in Range(<<x, y, z>>) /\ z \in Range(<<x, y, z>>)
           /\ (<<x>> \o <<y>>) \o <<z>> = <<x, y, z>>
<1>1. 1 \in DOMAIN <<x, y, z>> /\ <<x, y, z>>[1] = x
  OBVIOUS
<1>2. 2 \in DOMAIN <<x, y, z>> /\ <<x, y, z>>[2] = y
  OBVIOUS
<1>3. 3 \in DOMAIN <<x, y, z>> /\ <<x, y, z>>[3] = z
  OBVIOUS
<1> DEFINE S == {x, y, z}
           s == <<x, y>>
           t == <<z>>
           u == <<x, y, z>>
<1>4. s \in Seq(S) /\ t \in Seq(S) /\ u \in Seq(S)
  OBVIOUS
<1>5. Len(s) = 2 /\ Len(t) = 1 /\ Len(u) = 3
  OBVIOUS
<1>6. s[1] = x /\ s[2] = y /\ t[1] = z
  OBVIOUS
<1>7. u[1] = x /\ u[2] = y /\ u[3] = z
  OBVIOUS
<1>8. <<x>> \o <<y>> = s
  BY PairIs
<1> HIDE DEF S, s, t, u
<1>9. /\ s \o t \in Seq(S) /\ Len(s \o t) = 3
      /\ \A j \in 1 .. 3 : (s \o t)[j] = IF j <= 2 THEN s[j] ELSE t[j - 2]
  <2>1. /\ s \o t \in Seq(S) /\ Len(s \o t) = Len(s) + Len(t)
        /\ \A j \in 1 .. Len(s) + Len(t) :
              (s \o t)[j] = IF j <= Len(s) THEN s[j] ELSE t[j - Len(s)]
    BY <1>4, ConcatProperties
  <2>2. 2 + 1 = 3
    OBVIOUS
  <2>3. QED
    BY <1>5, <2>1, <2>2
<1>10. \A j \in 1 .. 3 : (s \o t)[j] = u[j]
  <2>1. \A j \in 1 .. 3 : j = 1 \/ j = 2 \/ j = 3
    OBVIOUS
  <2>2. 1 \in 1 .. 3 /\ 2 \in 1 .. 3 /\ 3 \in 1 .. 3 /\ 1 <= 2 /\ 2 <= 2 /\ ~ (3 <= 2) /\ 3 - 2 = 1
    OBVIOUS
  <2>3. (s \o t)[1] = s[1] /\ (s \o t)[2] = s[2] /\ (s \o t)[3] = t[1]
    BY <1>9, <2>2
  <2>4. QED
    BY <1>6, <1>7, <2>1, <2>3
<1>11. s \o t = u
  BY <1>4, <1>5, <1>9, <1>10, SeqEqual
<1>12. QED
  BY <1>1, <1>2, <1>3, <1>8, <1>11 DEF Range, s, t, u

LEMMA OneShown ==
    ASSUME NEW f, NEW k, NEW a, f[k] = <<a>>
    PROVE  Each(f, <<k>>) = <<a>>
BY EachOne, OneIsSeq

LEMMA TwoShown ==
    ASSUME NEW f, NEW k, NEW m, NEW a, NEW b, f[k] = <<a>>, f[m] = <<b>>
    PROVE  Each(f, <<k, m>>) = <<a, b>>
<1>1. IsSeq(f[k]) /\ IsSeq(f[m])
  BY OneIsSeq
<1>2. Each(f, <<k, m>>) = f[k] \o f[m]
  BY <1>1, EachTwo
<1>3. <<a>> \o <<b>> = <<a, b>>
  BY PairIs
<1>4. QED
  BY <1>2, <1>3

LEMMA ThreeShown ==
    ASSUME NEW f, NEW k, NEW m, NEW n, NEW a, NEW b, NEW c,
           f[k] = <<a>>, f[m] = <<b>>, f[n] = <<c>>
    PROVE  Each(f, <<k, m, n>>) = <<a, b, c>>
<1> DEFINE g == [p \in 1 .. Len(<<k, m, n>>) |-> f[<<k, m, n>>[p]]]
<1>1. /\ Len(<<k, m, n>>) = 3 /\ <<k, m, n>>[1] = k /\ <<k, m, n>>[2] = m /\ <<k, m, n>>[3] = n
      /\ 1 \in 1 .. 3 /\ 2 \in 1 .. 3 /\ 3 \in 1 .. 3
  OBVIOUS
<1>2. g[1] = <<a>> /\ g[2] = <<b>> /\ g[3] = <<c>>
  BY <1>1
<1>3. Each(f, <<k, m, n>>) = Joined(g, 3)
  BY <1>1, EachIsJoined
<1> HIDE DEF g
<1>4. Joined(g, 3) = (<<a>> \o <<b>>) \o <<c>>
  BY <1>2, JoinedThree, OneIsSeq
<1>5. QED
  BY <1>3, <1>4, TripleIs

\* What a leaf is made of, by its rule.
Special == {"reg", "imm", "const", "pred_reg", "gp_reg", "sys_reg"}
TokensOf(insn, s, n, x, seen) ==
    CASE x.rule = "reg"      -> reg(insn, x)
      [] x.rule = "imm"      -> imm(insn, x.word, Len(Letters(s)), seen)
      [] x.rule = "const"    -> const(x.word)
      [] x.rule = "pred_reg" -> pred_reg(x.word)
      [] x.rule = "gp_reg"   -> gp_reg
      [] x.rule = "sys_reg"  -> sys_reg(x.word)
      [] OTHER               -> terminal(x)
Seen(s, n) == \E k \in DOMAIN s : k < n /\ s[k].rule = "imm"
LEMMA TokensAre ==
    ASSUME NEW insn, NEW s, NEW n
    PROVE  Tokens(insn, s, n) = TokensOf(insn, s, n, s[n], Seen(s, n))
BY Zenon DEF Tokens, TokensOf, Seen

\* One by one.
LEMMA RegTokens ==
    ASSUME NEW insn, NEW s, NEW n, NEW x, x = s[n], x.rule = "reg"
    PROVE  Tokens(insn, s, n) = reg(insn, x)
BY TokensAre, Zenon DEF TokensOf

LEMMA ImmTokens ==
    ASSUME NEW insn, NEW s, NEW n, NEW x, x = s[n], x.rule = "imm"
    PROVE  Tokens(insn, s, n) = imm(insn, x.word, Len(Letters(s)), Seen(s, n))
BY TokensAre, Zenon DEF TokensOf

LEMMA ConstTokens ==
    ASSUME NEW insn, NEW s, NEW n, NEW x, x = s[n], x.rule = "const"
    PROVE  Tokens(insn, s, n) = const(x.word)
BY TokensAre, Zenon DEF TokensOf

LEMMA PredTokens ==
    ASSUME NEW insn, NEW s, NEW n, NEW x, x = s[n], x.rule = "pred_reg"
    PROVE  Tokens(insn, s, n) = pred_reg(x.word)
BY TokensAre, Zenon DEF TokensOf

LEMMA GPTokens ==
    ASSUME NEW insn, NEW s, NEW n, NEW x, x = s[n], x.rule = "gp_reg"
    PROVE  Tokens(insn, s, n) = gp_reg
BY TokensAre, Zenon DEF TokensOf

LEMMA SysTokens ==
    ASSUME NEW insn, NEW s, NEW n, NEW x, x = s[n], x.rule = "sys_reg"
    PROVE  Tokens(insn, s, n) = sys_reg(x.word)
BY TokensAre, Zenon DEF TokensOf

LEMMA TerminalTokens ==
    ASSUME NEW insn, NEW s, NEW n, NEW x, x = s[n], x.rule \notin Special
    PROVE  Tokens(insn, s, n) = terminal(x)
BY TokensAre, Zenon DEF TokensOf, Special

\* What a leaf reads as, by its rule.
LEMMA RegRead ==
    ASSUME NEW insn, NEW d, NEW x, x.rule = "reg"
    PROVE  Read(insn, d, x) = LET no == d.regno[OperandOf(insn, x)]
                               IN  IF Len(x.id) = 1 THEN <<<<x.word, x.half, no>>>>
                                   ELSE <<<<x.word, "", no + 1>>, Word(":"), <<x.word, "", no>>>>
BY Zenon DEF Read

LEMMA ImmRead ==
    ASSUME NEW insn, NEW d, NEW x, x.rule = "imm"
    PROVE  Read(insn, d, x) = IF IsRelative(x.word) THEN <<<<"", "", d.pc + Value(d, x.word)>>>>
                               ELSE <<Word("#"), <<"", "", Value(d, x.word)>>>>
BY Zenon DEF Read

LEMMA ConstRead ==
    ASSUME NEW insn, NEW d, NEW x, x.rule = "const"
    PROVE  Read(insn, d, x) = <<Word("#"), Word(x.word)>>
BY Zenon DEF Read

LEMMA PredRead ==
    ASSUME NEW insn, NEW d, NEW x, x.rule = "pred_reg"
    PROVE  Read(insn, d, x) = <<Word(NameOf(x.word))>>
BY Zenon DEF Read

LEMMA GPRead ==
    ASSUME NEW insn, NEW d, NEW x, x.rule = "gp_reg"
    PROVE  Read(insn, d, x) = <<Word(IF d.extension_valid THEN "0" ELSE "GP")>>
BY Zenon DEF Read

LEMMA SysRead ==
    ASSUME NEW insn, NEW d, NEW x, x.rule = "sys_reg"
    PROVE  Read(insn, d, x) = <<Word(NameOf(x.word))>>
BY Zenon DEF Read

LEMMA TerminalRead ==
    ASSUME NEW insn, NEW d, NEW x, x.rule \notin Special
    PROVE  Read(insn, d, x) = <<Word(x.word)>>
BY Zenon DEF Read, Special

\* f has what is seen of a token, r what a reader makes of a leaf.
Wraps(f, S, d) == \A k \in S : f[k] = Inked(wrap_call(k, d))
Reads(r, S, insn, d) == \A y \in S : r[y] = Read(insn, d, y)

\* A word is shown as it stands, without blanks.
LEMMA WordShown ==
    ASSUME NEW kind \in Plain, NEW w, NEW d
    PROVE  Inked(wrap_call(Tok(kind, w), d)) = IF w = " " THEN << >> ELSE <<<<Solid(w), "", 0>>>>
<1>1. wrap_call(Tok(kind, w), d) = Shown(kind, w, "", 0)
  BY WordWrapped
<1>2. Inked(Shown(kind, w, "", 0)) = IF w = " " THEN << >> ELSE <<<<Solid(w), "", 0>>>>
  BY InkedIs, Zenon
<1>3. QED
  BY <1>1, <1>2, Zenon

\* A word that the transformer leaves as it is.
Clean(w) == w # " " /\ Solid(w) = w

LEMMA CleanInked ==
    ASSUME NEW kind, NEW w, Clean(w), NEW half, NEW v
    PROVE  Inked(Shown(kind, w, half, v)) = <<<<w, half, v>>>>
<1>1. w # " " /\ Solid(w) = w
  BY Zenon DEF Clean
<1>2. Inked(Shown(kind, w, half, v)) = IF w = " " THEN << >> ELSE <<<<Solid(w), half, v>>>>
  BY InkedIs, Zenon
<1>3. QED
  BY <1>1, <1>2, Zenon

LEMMA WordsShown ==
    ASSUME NEW kind \in Plain, NEW w, NEW d, Clean(w)
    PROVE  Inked(wrap_call(Tok(kind, w), d)) = <<Word(w)>>
<1>1. wrap_call(Tok(kind, w), d) = Shown(kind, w, "", 0)
  BY WordWrapped
<1>2. Inked(Shown(kind, w, "", 0)) = <<<<w, "", 0>>>>
  BY CleanInked, Zenon
<1>3. QED
  BY <1>1, <1>2, Zenon DEF Word

LEMMA PlainHas == "Text" \in Plain /\ "Instruction" \in Plain /\ "Register" \in Plain /\ "Integer" \in Plain
BY DEF Plain

\* A word of the text stands for itself, whatever its rule.
LEMMA TerminalIs ==
    ASSUME NEW x
    PROVE  \E kind \in Plain : terminal(x) = <<Tok(kind, x.word)>>
<1>1. terminal(x) = CASE x.rule = "insn" -> <<Tok("Instruction", x.word)>>
                      [] x.rule = "dot"  -> <<Tok("Register", x.word)>>
                      [] OTHER           -> <<TextToken(x.word)>>
  BY Zenon DEF terminal
<1>2. CASE x.rule = "insn"
  BY <1>1, <1>2, PlainHas, Zenon
<1>3. CASE x.rule = "dot"
  BY <1>1, <1>3, PlainHas, Zenon
<1>4. CASE x.rule # "insn" /\ x.rule # "dot"
  BY <1>1, <1>4, PlainHas, Zenon DEF TextToken
<1>5. QED
  BY <1>2, <1>3, <1>4

LEMMA TerminalShown ==
    ASSUME NEW x, NEW d, NEW f, Clean(x.word),
           Wraps(f, Range(terminal(x)), d)
    PROVE  Each(f, terminal(x)) = <<Word(x.word)>>
<1>1. PICK kind \in Plain : terminal(x) = <<Tok(kind, x.word)>>
  BY TerminalIs
<1> DEFINE k == Tok(kind, x.word)
<1>2. f[k] = Inked(wrap_call(k, d))
  BY <1>1, RangeOfOne DEF Wraps
<1>3. Inked(wrap_call(k, d)) = <<Word(x.word)>>
  BY WordsShown
<1> DEFINE a == Word(x.word)
<1> HIDE DEF k, a
<1>4. f[k] = <<a>>
  BY <1>2, <1>3 DEF a
<1>5. Each(f, <<k>>) = <<a>>
  BY <1>4, OneShown
<1>6. QED
  BY <1>1, <1>5 DEF k, a

LEMMA CleanWords ==
    /\ Clean("#") /\ Clean(":") /\ Clean("0") /\ Clean("") /\ Clean("GP")
    /\ \A name \in {"SP", "LR", "PC", "SGP0", "SGP1", "SGP1:0", "P0", "P1", "P2", "P3"} : Clean(name)
BY DEF Clean, Solid

\* Operands that are words, and the base of a global address.
LEMMA ConstShown ==
    ASSUME NEW w, NEW d, NEW f, Clean(w),
           Wraps(f, Range(const(w)), d)
    PROVE  Each(f, const(w)) = <<Word("#"), Word(w)>>
<1> DEFINE k == Tok("Text", "#")
           m == Tok("Integer", w)
<1>1. const(w) = <<k, m>>
  BY DEF const, TextToken
<1>2. Inked(wrap_call(k, d)) = <<Word("#")>>
  BY WordsShown, CleanWords, PlainHas
<1>3. Inked(wrap_call(m, d)) = <<Word(w)>>
  BY WordsShown, PlainHas
<1> DEFINE a == Word("#")
           b == Word(w)
<1> HIDE DEF k, m, a, b
<1>4. k \in Range(const(w)) /\ m \in Range(const(w))
  BY <1>1, PairIs
<1>5. f[k] = <<a>> /\ f[m] = <<b>>
  BY <1>2, <1>3, <1>4 DEF a, b, Wraps
<1>6. Each(f, <<k, m>>) = <<a, b>>
  BY <1>5, TwoShown
<1>7. QED
  BY <1>1, <1>6 DEF a, b

LEMMA NameShown ==
    ASSUME NEW name, Clean(name), NEW d, NEW f,
           NEW T, T = <<Tok("Register", name)>>, Wraps(f, Range(T), d)
    PROVE  Each(f, T) = <<Word(name)>>
<1> DEFINE k == Tok("Register", name)
           a == Word(name)
<1>1. Inked(wrap_call(k, d)) = <<a>>
  BY WordsShown, PlainHas
<1> HIDE DEF k, a
<1>2. T = <<k>>
  BY DEF k
<1>3. f[k] = <<a>>
  BY <1>1, <1>2, RangeOfOne DEF Wraps
<1>4. Each(f, <<k>>) = <<a>>
  BY <1>3, OneShown
<1>5. QED
  BY <1>2, <1>4 DEF a

LEMMA PredShown ==
    ASSUME NEW w \in {"p0", "p1", "p2", "p3"}, NEW d, NEW f,
           Wraps(f, Range(pred_reg(w)), d)
    PROVE  Each(f, pred_reg(w)) = <<Word(NameOf(w))>>
<1> DEFINE name == NameOf(w)
           k == Tok("Register", name)
<1>1. [p0 |-> "P0", p1 |-> "P1", p2 |-> "P2", p3 |-> "P3"][w] = name
  BY DEF NameOf
<1>2. pred_reg(w) = <<k>>
  BY <1>1 DEF pred_reg
<1>3. name \in {"P0", "P1", "P2", "P3"}
  BY DEF NameOf
<1> DEFINE T == pred_reg(w)
<1> HIDE DEF name, T
<1>4. Clean(name)
  BY <1>3, CleanWords
<1>5. Wraps(f, Range(T), d) /\ T = <<Tok("Register", name)>>
  BY <1>2 DEF T
<1>6. Each(f, T) = <<Word(name)>>
  BY <1>4, <1>5, NameShown
<1>7. QED
  BY <1>6 DEF name, T

\* The names that the reader gives the system registers are the code's.
LEMMA SysNamed ==
    ASSUME NEW w \in SysWords
    PROVE  /\ sys_reg(w) = <<Tok("Register", NameOf(w))>>
           /\ NameOf(w) \in {"SP", "LR", "PC", "SGP0", "SGP1", "SGP1:0"}
<1> DEFINE shown == upper(w)
           name == CASE shown = "R29" -> "SP" [] shown = "R31" -> "LR" [] OTHER -> shown
<1>1. sys_reg(w) = <<Tok("Register", name)>>
  BY DEF sys_reg
<1>2. name = NameOf(w) /\ NameOf(w) \in {"SP", "LR", "PC", "SGP0", "SGP1", "SGP1:0"}
  BY DEF upper, NameOf, SysWords
<1>3. QED
  BY <1>1, <1>2

LEMMA SysShown ==
    ASSUME NEW w \in SysWords, NEW d, NEW f,
           Wraps(f, Range(sys_reg(w)), d)
    PROVE  Each(f, sys_reg(w)) = <<Word(NameOf(w))>>
<1> DEFINE name == NameOf(w)
<1>1. sys_reg(w) = <<Tok("Register", name)>> /\ name \in {"SP", "LR", "PC", "SGP0", "SGP1", "SGP1:0"}
  BY SysNamed
<1> DEFINE T == sys_reg(w)
<1> HIDE DEF name, T
<1>2. Clean(name)
  BY <1>1, CleanWords
<1>3. Wraps(f, Range(T), d) /\ T = <<Tok("Register", name)>>
  BY <1>1 DEF T
<1>4. Each(f, T) = <<Word(name)>>
  BY <1>2, <1>3, NameShown
<1>5. QED
  BY <1>4 DEF name, T

LEMMA GPShows ==
    ASSUME NEW d, NEW f,
           Wraps(f, Range(gp_reg), d)
    PROVE  Each(f, gp_reg) = <<Word(IF d.extension_valid THEN "0" ELSE "GP")>>
<1> DEFINE k == Tok("GPRegister", "GP")
<1>1. gp_reg = <<k>>
  BY DEF gp_reg
<1>2. Inked(wrap_call(k, d)) = <<Word(IF d.extension_valid THEN "0" ELSE "GP")>>
  <2>1. CASE d.extension_valid
    <3>1. wrap_call(k, d) = Shown("Integer", "0", "", 0)
      BY <2>1, GPWrapped
    <3>2. Inked(Shown("Integer", "0", "", 0)) = <<Word("0")>>
      BY CleanInked, CleanWords, Zenon DEF Word
    <3>3. QED
      BY <2>1, <3>1, <3>2, Zenon
  <2>2. CASE ~ d.extension_valid
    <3>1. wrap_call(k, d) = Shown("Register", "GP", "", 0)
      BY <2>2, GPWrapped
    <3>2. Inked(Shown("Register", "GP", "", 0)) = <<Word("GP")>>
      BY CleanInked, CleanWords, Zenon DEF Word
    <3>3. QED
      BY <2>2, <3>1, <3>2, Zenon
  <2>3. QED
    BY <2>1, <2>2
<1> HIDE DEF k
<1>3. f[k] = <<Word(IF d.extension_valid THEN "0" ELSE "GP")>>
  BY <1>1, <1>2, RangeOfOne DEF Wraps
<1>4. QED
  BY <1>1, <1>3, OneShown

\* The operand that reg reads is the one that the text names.
LEMMA RegIs ==
    ASSUME NEW insn, NEW leaves, NamesOperands(insn, leaves), NEW x \in ToSet(leaves), x.rule = "reg"
    PROVE  /\ seenregs(insn, x.id) = OperandOf(insn, x)
           /\ OperandOf(insn, x) \in DOMAIN insn.regs /\ OperandOf(insn, x) \in Nat \ {0}
<1>1. PICK j \in DOMAIN insn.regs : insn.regs[j] = [t |-> x.word, id |-> x.id]
  BY DEF NamesOperands
<1>2. j \in Nat \ {0} /\ insn.regs[j].id = x.id
  <2>1. DOMAIN insn.regs \subseteq Nat \ {0}
    BY Zenon DEF NamesOperands
  <2>2. QED
    BY <1>1, <2>1
<1>3. \A k \in DOMAIN insn.regs : insn.regs[k].id = x.id => k = j
  <2>1. \A m, k \in DOMAIN insn.regs : insn.regs[m].id = insn.regs[k].id => m = k
    BY Zenon DEF NamesOperands
  <2>2. QED
    BY <1>2, <2>1
<1>4. \A k \in DOMAIN insn.regs : insn.regs[k] = [t |-> x.word, id |-> x.id] => k = j
  <2>1. \A y : y = [t |-> x.word, id |-> x.id] => y.id = x.id
    OBVIOUS
  <2>2. QED
    BY <1>3, <2>1
<1>5. OperandOf(insn, x) = j
  BY <1>1, <1>4 DEF OperandOf
<1>6. seenregs(insn, x.id) = j
  <2>1. \A k \in DOMAIN insn.regs : insn.regs[k].id = x.id => k <= j
    BY <1>2, <1>3
  <2>2. QED
    BY <1>2, <1>3, <2>1 DEF seenregs
<1>7. QED
  BY <1>2, <1>5, <1>6

\* Every operand has a register number.
Numbered(insn, d) == \A j \in DOMAIN insn.regs : d.regno[j] \in Int

\* A register is shown from the field of its own operand, a pair as the odd one and the even one.
LEMMA RegShown ==
    ASSUME NEW insn, NEW leaves, NamesOperands(insn, leaves), NEW x \in ToSet(leaves), x.rule = "reg",
           Clean(x.word),
           NEW d, Numbered(insn, d),
           NEW f, Wraps(f, Range(reg(insn, x)), d)
    PROVE  Each(f, reg(insn, x))
             = LET no == d.regno[OperandOf(insn, x)]
               IN  IF Len(x.id) = 1 THEN <<<<x.word, x.half, no>>>>
                   ELSE <<<<x.word, "", no + 1>>, Word(":"), <<x.word, "", no>>>>
<1> DEFINE j == OperandOf(insn, x)
           no == d.regno[j]
           odd == GetRegister(x.word, x.half, j, 1)
           colon == Tok("Text", ":")
           even == GetRegister(x.word, x.half, j, 0)
<1>1. seenregs(insn, x.id) = j /\ j \in Nat \ {0} /\ no \in Int
  BY RegIs DEF Numbered
<1>2. Len(x.id) = 1 \/ (Len(x.id) = 2 /\ x.half = "")
  BY DEF NamesOperands
<1>3. reg(insn, x) = IF Len(x.id) = 2 THEN <<odd, colon, even>> ELSE <<even>>
  BY <1>1 DEF reg, TextToken
<1> DEFINE a == <<x.word, x.half, no + 1>>
           b == Word(":")
           c == <<x.word, x.half, no>>
<1> HIDE DEF j
<1>4. Inked(wrap_call(odd, d)) = <<a>>
  <2>1. wrap_call(odd, d) = Shown("Register", x.word, x.half, no + 1)
    BY <1>1, RegisterWrapped
  <2> HIDE DEF odd, no
  <2>2. Inked(Shown("Register", x.word, x.half, no + 1)) = <<<<x.word, x.half, no + 1>>>>
    BY CleanInked
  <2>3. QED
    BY <2>1, <2>2
<1>5. Inked(wrap_call(even, d)) = <<c>>
  <2>1. no + 0 = no
    BY <1>1
  <2>2. wrap_call(even, d) = Shown("Register", x.word, x.half, no + 0)
    BY <1>1, RegisterWrapped
  <2> HIDE DEF even, no
  <2>3. Inked(Shown("Register", x.word, x.half, no)) = <<<<x.word, x.half, no>>>>
    BY CleanInked
  <2>4. QED
    BY <2>1, <2>2, <2>3
<1>6. Inked(wrap_call(colon, d)) = <<b>>
  BY WordsShown, CleanWords, PlainHas
<1> HIDE DEF odd, even, colon, no, a, b, c
<1>7. CASE Len(x.id) = 1
  <2>1. reg(insn, x) = <<even>>
    BY <1>3, <1>7
  <2>2. f[even] = <<c>>
    BY <1>5, <2>1, RangeOfOne DEF Wraps
  <2>3. Each(f, <<even>>) = <<c>>
    BY <2>2, OneShown
  <2>4. QED
    BY <1>7, <2>1, <2>3, Zenon DEF no, j, c
<1>8. CASE Len(x.id) = 2 /\ x.half = ""
  <2>1. reg(insn, x) = <<odd, colon, even>>
    BY <1>3, <1>8
  <2>2. odd \in Range(reg(insn, x)) /\ colon \in Range(reg(insn, x)) /\ even \in Range(reg(insn, x))
    BY <2>1, TripleIs
  <2>3. f[odd] = <<a>> /\ f[colon] = <<b>> /\ f[even] = <<c>>
    BY <1>4, <1>5, <1>6, <2>2 DEF Wraps
  <2>4. Each(f, <<odd, colon, even>>) = <<a, b, c>>
    BY <2>3, ThreeShown
  <2>5. Len(x.id) # 1
    <3>1. Len(x.id) = 2
      BY <1>8, Zenon
    <3>2. 1 # 2
      OBVIOUS
    <3>3. QED
      BY <3>1, <3>2, Zenon
  <2>6. a = <<x.word, "", no + 1>> /\ c = <<x.word, "", no>>
    BY <1>8 DEF a, c
  <2>7. QED
    BY <2>1, <2>4, <2>5, <2>6, Zenon DEF no, j, b
<1>9. QED
  BY <1>2, <1>7, <1>8

\* The number of an immediate, marked or added to the packet's address.
LEMMA ImmShown ==
    ASSUME NEW insn, NEW s, IsSeq(s), NamesImmediates(insn, Letters(s)),
           NEW n \in 1 .. Len(s), s[n].rule = "imm", NEW d, NEW f,
           Wraps(f, Range(Tokens(insn, s, n)), d)
    PROVE  Each(f, Tokens(insn, s, n))
             = IF IsRelative(s[n].word) THEN <<<<"", "", d.pc + Value(d, s[n].word)>>>>
               ELSE <<Word("#"), <<"", "", Value(d, s[n].word)>>>>
<1> DEFINE w == s[n].word
           ii == IF IsUpper(w) THEN 2 ELSE 1
           v == Value(d, w)
           address == Immed("CodeRelativeAddress", ii)
           mark == IF Extendable(insn, IsUpper(w)) THEN Immed("Extended", ii) ELSE TextToken("#")
           number == Immed("Integer", ii)
           a == <<"", "", d.pc + v>>
           b == Word("#")
           c == <<"", "", v>>
<1>1. Tokens(insn, s, n) = IF IsRelative(w) THEN <<address>> ELSE <<mark, number>>
  <2>1. Tokens(insn, s, n) = imm(insn, w, Len(Letters(s)), Seen(s, n))
    BY ImmTokens
  <2>2. imm(insn, w, Len(Letters(s)), Seen(s, n))
          = IF IsRelative(w) THEN <<address>> ELSE <<mark, number>>
    BY ImmIs DEF Seen
  <2>3. QED
    BY <2>1, <2>2, Zenon
<1>2. ii > 0 /\ v = d.immed[ii]
  <2>1. ii = 1 \/ ii = 2
    OBVIOUS
  <2>2. ii > 0
    BY <2>1
  <2>3. QED
    BY <2>2, Zenon DEF Value
<1> HIDE DEF w, ii, v
<1>3. Inked(wrap_call(address, d)) = <<a>>
  <2>1. wrap_call(address, d) = Shown("CodeRelativeAddress", "", "", d.pc + v)
    BY <1>2, ImmedWrapped, Zenon
  <2>2. Clean("")
    BY CleanWords, Zenon
  <2>3. Inked(Shown("CodeRelativeAddress", "", "", d.pc + v)) = <<<<"", "", d.pc + v>>>>
    BY <2>2, CleanInked, Zenon
  <2>4. QED
    BY <2>1, <2>3, Zenon
<1>4. Inked(wrap_call(number, d)) = <<c>>
  <2>1. wrap_call(number, d) = Shown("Integer", "", "", v)
    BY <1>2, ImmedWrapped, Zenon
  <2>2. Clean("")
    BY CleanWords, Zenon
  <2>3. Inked(Shown("Integer", "", "", v)) = <<<<"", "", v>>>>
    BY <2>2, CleanInked, Zenon
  <2>4. QED
    BY <2>1, <2>3, Zenon
<1>5. Inked(wrap_call(mark, d)) = <<b>>
  <2>1. CASE ~ Extendable(insn, IsUpper(w))
    <3>1. mark = Tok("Text", "#")
      BY <2>1, Zenon DEF TextToken
    <3>2. Inked(wrap_call(Tok("Text", "#"), d)) = <<b>>
      BY WordsShown, CleanWords, PlainHas
    <3>3. QED
      BY <3>1, <3>2, Zenon
  <2>2. CASE Extendable(insn, IsUpper(w))
    <3> DEFINE x == IF d.extension_valid THEN "##" ELSE "#"
    <3>1. mark = Immed("Extended", ii)
      BY <2>2, Zenon
    <3>2. wrap_call(Immed("Extended", ii), d) = Shown("Text", x, "", 0)
      BY <1>2, ImmedWrapped, Zenon
    <3>3. x # " " /\ Solid(x) = "#"
      BY DEF Solid
    <3> HIDE DEF x
    <3>4. Inked(Shown("Text", x, "", 0)) = IF x = " " THEN << >> ELSE <<<<Solid(x), "", 0>>>>
      BY InkedIs, Zenon
    <3>5. Inked(Shown("Text", x, "", 0)) = <<<<"#", "", 0>>>>
      BY <3>3, <3>4, Zenon
    <3>6. QED
      BY <3>1, <3>2, <3>5, Zenon DEF Word
  <2>3. QED
    BY <2>1, <2>2
<1> HIDE DEF address, mark, number, a, b, c
<1>6. CASE IsRelative(w)
  <2>1. Tokens(insn, s, n) = <<address>>
    BY <1>1, <1>6
  <2>2. f[address] = <<a>>
    BY <1>3, <2>1, RangeOfOne DEF Wraps
  <2>3. Each(f, <<address>>) = <<a>>
    BY <2>2, OneShown
  <2>4. QED
    BY <1>6, <2>1, <2>3, Zenon DEF w, v, a
<1>7. CASE ~ IsRelative(w)
  <2>1. Tokens(insn, s, n) = <<mark, number>>
    BY <1>1, <1>7
  <2>2. f[mark] = <<b>> /\ f[number] = <<c>>
    BY <1>4, <1>5, <2>1, PairIs DEF Wraps
  <2>3. Each(f, <<mark, number>>) = <<b, c>>
    BY <2>2, TwoShown
  <2>4. QED
    BY <1>7, <2>1, <2>3, Zenon DEF w, v, b, c
<1>8. QED
  BY <1>6, <1>7

LEMMA TwoIsSeq == ASSUME NEW x, NEW y PROVE IsSeq(<<x, y>>)
<1> DEFINE S == {x, y}
<1>1. <<x, y>> \in Seq(S)
  OBVIOUS
<1> HIDE DEF S
<1>2. QED
  BY <1>1, SeqIsSeq

LEMMA ThreeIsSeq == ASSUME NEW x, NEW y, NEW z PROVE IsSeq(<<x, y, z>>)
<1> DEFINE S == {x, y, z}
<1>1. <<x, y, z>> \in Seq(S)
  OBVIOUS
<1> HIDE DEF S
<1>2. QED
  BY <1>1, SeqIsSeq

\* What is read, shown and generated are sequences.
LEMMA ReadIsSeq == ASSUME NEW insn, NEW d, NEW x PROVE IsSeq(Read(insn, d, x))
<1>1. CASE x.rule = "reg"
  <2> DEFINE no == d.regno[OperandOf(insn, x)]
             a == <<x.word, x.half, no>>
             b == <<x.word, "", no + 1>>
             c == <<x.word, "", no>>
  <2>1. Read(insn, d, x) = IF Len(x.id) = 1 THEN <<a>> ELSE <<b, Word(":"), c>>
    BY <1>1, RegRead, Zenon
  <2> HIDE DEF a, b, c
  <2>2. QED
    BY <2>1, OneIsSeq, ThreeIsSeq, Zenon
<1>2. CASE x.rule = "imm"
  <2>1. \/ \E a : Read(insn, d, x) = <<a>>
        \/ \E a, b : Read(insn, d, x) = <<a, b>>
    BY <1>2, ImmRead, Zenon
  <2>2. QED
    BY <2>1, OneIsSeq, TwoIsSeq, Zenon
<1>3. CASE x.rule = "const"
  <2>1. \E a, b : Read(insn, d, x) = <<a, b>>
    BY <1>3, ConstRead, Zenon
  <2>2. QED
    BY <2>1, TwoIsSeq, Zenon
<1>4. CASE x.rule = "pred_reg"
  BY <1>4, PredRead, OneIsSeq, Zenon
<1>5. CASE x.rule = "gp_reg"
  BY <1>5, GPRead, OneIsSeq, Zenon
<1>6. CASE x.rule = "sys_reg"
  BY <1>6, SysRead, OneIsSeq, Zenon
<1>7. CASE x.rule \notin Special
  BY <1>7, TerminalRead, OneIsSeq, Zenon
<1>8. QED
  BY <1>1, <1>2, <1>3, <1>4, <1>5, <1>6, <1>7, Zenon DEF Special

LEMMA TokensIsSeq == ASSUME NEW insn, NEW s, NEW n PROVE IsSeq(Tokens(insn, s, n))
<1> DEFINE x == s[n]
<1> HIDE DEF x
<1>1. CASE x.rule = "reg"
  <2>1. \/ \E a : reg(insn, x) = <<a>>
        \/ \E a, b, c : reg(insn, x) = <<a, b, c>>
    BY Zenon DEF reg
  <2>2. Tokens(insn, s, n) = reg(insn, x)
    BY <1>1, RegTokens DEF x
  <2>3. QED
    BY <2>1, <2>2, OneIsSeq, ThreeIsSeq, Zenon
<1>2. CASE x.rule = "imm"
  <2>1. \/ \E a : imm(insn, x.word, Len(Letters(s)), Seen(s, n)) = <<a>>
        \/ \E a, b : imm(insn, x.word, Len(Letters(s)), Seen(s, n)) = <<a, b>>
    BY Zenon DEF imm
  <2>2. Tokens(insn, s, n) = imm(insn, x.word, Len(Letters(s)), Seen(s, n))
    BY <1>2, ImmTokens DEF x
  <2>3. QED
    BY <2>1, <2>2, OneIsSeq, TwoIsSeq, Zenon
<1>3. CASE x.rule = "const"
  <2>1. Tokens(insn, s, n) = const(x.word)
    BY <1>3, ConstTokens DEF x
  <2>2. QED
    BY <2>1, TwoIsSeq, Zenon DEF const
<1>4. CASE x.rule = "pred_reg"
  <2>1. Tokens(insn, s, n) = pred_reg(x.word)
    BY <1>4, PredTokens DEF x
  <2>2. \E a : pred_reg(x.word) = <<a>>
    BY Zenon DEF pred_reg
  <2>3. QED
    BY <2>1, <2>2, OneIsSeq, Zenon
<1>5. CASE x.rule = "gp_reg"
  <2>1. Tokens(insn, s, n) = gp_reg
    BY <1>5, GPTokens DEF x
  <2>2. QED
    BY <2>1, OneIsSeq, Zenon DEF gp_reg
<1>6. CASE x.rule = "sys_reg"
  <2>1. Tokens(insn, s, n) = sys_reg(x.word)
    BY <1>6, SysTokens DEF x
  <2>2. QED
    BY <2>1, OneIsSeq, Zenon DEF sys_reg
<1>7. CASE x.rule \notin Special
  <2>1. Tokens(insn, s, n) = terminal(x)
    BY <1>7, TerminalTokens DEF x
  <2>2. QED
    BY <2>1, OneIsSeq, TerminalIs, Zenon
<1>8. QED
  BY <1>1, <1>2, <1>3, <1>4, <1>5, <1>6, <1>7, Zenon DEF Special

\* A literal of the transformer reads as the literal of the grammar.
LEMMA TextLeafShown ==
    ASSUME NEW x, x.rule = "text", NEW insn, NEW d, NEW f, Wraps(f, Range(terminal(x)), d),
           NEW r, Reads(r, Range(Ink(x)), insn, d)
    PROVE  Each(f, terminal(x)) = Each(r, Ink(x))
<1> DEFINE w == x.word
<1>2. PICK kind \in Plain : terminal(x) = <<Tok(kind, w)>>
  BY TerminalIs
<1> DEFINE k == Tok(kind, w)
<1>3. terminal(x) = <<k>>
  BY <1>2
<1>4. Inked(wrap_call(k, d)) = IF w = " " THEN << >> ELSE <<<<Solid(w), "", 0>>>>
  BY WordShown, Zenon
<1> HIDE DEF k
<1>5. f[k] = Inked(wrap_call(k, d))
  BY <1>3, RangeOfOne DEF Wraps
<1>6. x.rule = "text"
  OBVIOUS
<1>7. \/ Ink(x) = << >> /\ w = " "
      \/ \E y : /\ Ink(x) = <<y>> /\ w # " "
                /\ y.rule = "text" /\ y.word = Solid(w)
  BY <1>6, InkIs, Zenon
<1>8. CASE Ink(x) = << >> /\ w = " "
  <2>1. f[k] = << >>
    BY <1>4, <1>5, <1>8, Zenon
  <2>2. Each(f, <<k>>) = << >>
    BY <2>1, EachOne, EmptyIsSeq
  <2>3. Ink(x) = << >>
    BY <1>8, Zenon
  <2>4. Each(r, Ink(x)) = << >>
    BY <2>3, EachNone
  <2>5. QED
    BY <1>3, <2>2, <2>4, Zenon
<1>9. CASE \E y : /\ Ink(x) = <<y>> /\ w # " "
                  /\ y.rule = "text" /\ y.word = Solid(w)
  <2>1. PICK y : /\ Ink(x) = <<y>> /\ w # " "
                 /\ y.rule = "text" /\ y.word = Solid(w)
    BY <1>9, Zenon
  <2> DEFINE a == Word(Solid(w))
  <2>2. f[k] = <<a>>
    BY <1>4, <1>5, <2>1, Zenon DEF Word
  <2>3. Each(f, <<k>>) = <<a>>
    BY <2>2, OneShown, Zenon
  <2>4. "text" \notin Special
    BY DEF Special
  <2>5. y.rule \notin Special
    BY <2>1, <2>4, Zenon
  <2>6. Read(insn, d, y) = <<Word(y.word)>>
    BY <2>5, TerminalRead, Zenon
  <2>7. Ink(x) = <<y>> /\ y.word = Solid(w)
    BY <2>1, Zenon
  <2>8. r[y] = Read(insn, d, y)
    BY <2>7, RangeOfOne, Zenon DEF Reads
  <2>9. r[y] = <<a>>
    BY <2>6, <2>7, <2>8, Zenon
  <2>10. Each(r, <<y>>) = <<a>>
    BY <2>9, OneShown, Zenon
  <2>11. QED
    BY <1>3, <2>3, <2>7, <2>10, Zenon
<1>10. QED
  BY <1>7, <1>8, <1>9, Zenon

\* A leaf is shown as the leaves that the grammar has in its place read.
LEMMA OperandLeafShown ==
    ASSUME NEW insn, NEW s, IsSeq(s), NEW g, NamesOperands(insn, g),
           NamesImmediates(insn, Letters(s)),
           NEW n \in 1 .. Len(s), s[n] \in ToSet(g), Clean(s[n].word),
           NEW d, Numbered(insn, d),
           NEW f, Wraps(f, Range(Tokens(insn, s, n)), d)
    PROVE  Each(f, Tokens(insn, s, n)) = Read(insn, d, s[n])
<1> DEFINE x == s[n]
           T == Tokens(insn, s, n)
<1>1. CASE x.rule = "reg"
  <2>1. T = reg(insn, x)
    BY <1>1, RegTokens
  <2>2. Wraps(f, Range(reg(insn, x)), d)
    BY <2>1
  <2>3. x \in ToSet(g) /\ Clean(x.word)
    OBVIOUS
  <2> DEFINE no == d.regno[OperandOf(insn, x)]
             R == IF Len(x.id) = 1 THEN <<<<x.word, x.half, no>>>>
                  ELSE <<<<x.word, "", no + 1>>, Word(":"), <<x.word, "", no>>>>
  <2>4. Each(f, reg(insn, x)) = R
    BY <1>1, <2>2, <2>3, RegShown
  <2>5. Read(insn, d, x) = R
    BY <1>1, RegRead, Zenon
  <2> HIDE DEF R
  <2>6. QED
    BY <2>1, <2>4, <2>5, Zenon
<1>2. CASE x.rule = "imm"
  <2> DEFINE R == IF IsRelative(x.word) THEN <<<<"", "", d.pc + Value(d, x.word)>>>>
                  ELSE <<Word("#"), <<"", "", Value(d, x.word)>>>>
  <2>1. Each(f, T) = R
    BY <1>2, ImmShown, Zenon
  <2>2. Read(insn, d, x) = R
    BY <1>2, ImmRead, Zenon
  <2> HIDE DEF R
  <2>3. QED
    BY <2>1, <2>2, Zenon
<1>3. CASE x.rule = "const"
  <2>1. T = const(x.word)
    BY <1>3, ConstTokens
  <2>2. Wraps(f, Range(const(x.word)), d)
    BY <2>1
  <2>3. Each(f, const(x.word)) = <<Word("#"), Word(x.word)>>
    BY <2>2, ConstShown
  <2>4. Read(insn, d, x) = <<Word("#"), Word(x.word)>>
    BY <1>3, ConstRead, Zenon
  <2>5. QED
    BY <2>1, <2>3, <2>4, Zenon
<1>4. CASE x.rule = "pred_reg"
  <2>1. T = pred_reg(x.word)
    BY <1>4, PredTokens
  <2>2. Wraps(f, Range(pred_reg(x.word)), d)
    BY <2>1
  <2>3. x.word \in {"p0", "p1", "p2", "p3"}
    BY <1>4, Zenon DEF NamesOperands
  <2>4. Each(f, pred_reg(x.word)) = <<Word(NameOf(x.word))>>
    BY <2>2, <2>3, PredShown
  <2>5. Read(insn, d, x) = <<Word(NameOf(x.word))>>
    BY <1>4, PredRead, Zenon
  <2>6. QED
    BY <2>1, <2>4, <2>5, Zenon
<1>5. CASE x.rule = "gp_reg"
  <2>1. T = gp_reg
    BY <1>5, GPTokens
  <2>2. Wraps(f, Range(gp_reg), d)
    BY <2>1
  <2>3. Each(f, gp_reg) = <<Word(IF d.extension_valid THEN "0" ELSE "GP")>>
    BY <2>2, GPShows
  <2>4. Read(insn, d, x) = <<Word(IF d.extension_valid THEN "0" ELSE "GP")>>
    BY <1>5, GPRead, Zenon
  <2>5. QED
    BY <2>1, <2>3, <2>4, Zenon
<1>6. CASE x.rule = "sys_reg"
  <2>1. T = sys_reg(x.word)
    BY <1>6, SysTokens
  <2>2. Wraps(f, Range(sys_reg(x.word)), d)
    BY <2>1
  <2>3. x.word \in SysWords
    BY <1>6, Zenon DEF NamesOperands
  <2>4. Each(f, sys_reg(x.word)) = <<Word(NameOf(x.word))>>
    BY <2>2, <2>3, SysShown
  <2>5. Read(insn, d, x) = <<Word(NameOf(x.word))>>
    BY <1>6, SysRead, Zenon
  <2>6. QED
    BY <2>1, <2>4, <2>5, Zenon
<1>7. CASE x.rule \notin Special
  <2>1. T = terminal(x)
    BY <1>7, TerminalTokens
  <2>2. Wraps(f, Range(terminal(x)), d)
    BY <2>1
  <2>3. Each(f, terminal(x)) = <<Word(x.word)>>
    BY <2>2, TerminalShown
  <2>4. Read(insn, d, x) = <<Word(x.word)>>
    BY <1>7, TerminalRead, Zenon
  <2>5. QED
    BY <2>1, <2>3, <2>4, Zenon
<1>8. QED
  BY <1>1, <1>2, <1>3, <1>4, <1>5, <1>6, <1>7, Zenon DEF Special

\* So is one that is not a literal.
LEMMA WordLeafShown ==
    ASSUME NEW insn, NEW s, IsSeq(s), NEW g, Parsed(g), NamesOperands(insn, g),
           NamesImmediates(insn, Letters(s)), NEW n \in 1 .. Len(s), s[n].rule # "text",
           Range(Ink(s[n])) \subseteq Range(g),
           NEW d, Numbered(insn, d),
           NEW f, Wraps(f, Range(Tokens(insn, s, n)), d),
           NEW r, Reads(r, Range(g), insn, d)
    PROVE  Each(f, Tokens(insn, s, n)) = Each(r, Ink(s[n]))
<1> DEFINE x == s[n]
<1>1. Ink(x) = <<x>>
  BY InkIs, Zenon
<1>2. x \in Range(g) /\ x \in ToSet(g)
  BY <1>1, RangeOfOne DEF ToSet, Range
<1>3. Clean(x.word)
  BY <1>2, Zenon DEF Clean, Parsed
<1>4. Each(f, Tokens(insn, s, n)) = Read(insn, d, x)
  BY <1>2, <1>3, OperandLeafShown
<1>5. r[x] = Read(insn, d, x)
  BY <1>2 DEF Reads
<1>6. Each(r, <<x>>) = r[x]
  BY <1>5, ReadIsSeq, EachOne
<1>7. QED
  BY <1>1, <1>4, <1>5, <1>6, Zenon

-----------------------------------------------------------------------------
(* The text of an instruction, and of all of them. *)

LEMMA InkedIsSeq == ASSUME NEW x PROVE IsSeq(Inked(x))
<1> DEFINE a == <<Solid(x.s), x.half, x.v>>
<1>1. Inked(x) = << >> \/ Inked(x) = <<a>>
  BY Zenon DEF Inked
<1> HIDE DEF a
<1>2. QED
  BY <1>1, EmptyIsSeq, OneIsSeq

LEMMA InSeq ==
    ASSUME NEW s, IsSeq(s), NEW S, Range(s) \subseteq S
    PROVE  s \in Seq(S) /\ Len(s) \in Nat /\ DOMAIN s = 1 .. Len(s)
<1>1. s \in Seq(Range(s))
  BY DEF IsSeq
<1>2. Len(s) \in Nat /\ DOMAIN s = 1 .. Len(s)
  BY <1>1, LenProperties
<1>3. s \in [1 .. Len(s) -> Range(s)]
  BY <1>1
<1>4. s \in [1 .. Len(s) -> S]
  BY <1>3
<1>5. QED
  BY <1>2, <1>4

\* The body of a function: the tokens of one leaf after another.
Toks(insn, s) == [n \in 1 .. Len(s) |-> Tokens(insn, s, n)]
LEMMA BodyIs ==
    ASSUME NEW insn, Regular(insn)
    PROVE  LET t == Leaves(insn.tree, Transformer)
               body == process_insn_tokens(insn)
           IN  /\ body = Joined(Toks(insn, t), Len(t)) /\ IsSeq(body)
               /\ Len(t) \in Nat /\ DOMAIN t = 1 .. Len(t)
               /\ Range(body) = UNION {Range(Toks(insn, t)[n]) : n \in 1 .. Len(t)}
<1> DEFINE t == Leaves(insn.tree, Transformer)
           body == process_insn_tokens(insn)
<1>1. IsSeq(t)
  BY LeavesOf
<1>2. Len(t) \in Nat /\ DOMAIN t = 1 .. Len(t)
  BY <1>1, InSeq
<1>3. body = FlattenSeq([n \in DOMAIN t |-> Tokens(insn, t, n)])
  BY DEF process_insn_tokens
<1> HIDE DEF t, body
<1>4. [n \in DOMAIN t |-> Tokens(insn, t, n)] = [n \in 1 .. Len(t) |-> Toks(insn, t)[n]]
  BY <1>2 DEF Toks
<1>5. body = Joined(Toks(insn, t), Len(t))
  BY <1>3, <1>4 DEF Joined
<1>6. \A n \in 1 .. Len(t) : Toks(insn, t)[n] = Tokens(insn, t, n)
  BY DEF Toks
<1>7. \A n \in 1 .. Len(t) : IsSeq(Toks(insn, t)[n])
  BY <1>6, TokensIsSeq
<1>8. /\ IsSeq(Joined(Toks(insn, t), Len(t)))
      /\ Range(Joined(Toks(insn, t), Len(t))) = UNION {Range(Toks(insn, t)[n]) : n \in 1 .. Len(t)}
  BY <1>2, <1>7, JoinedRange
<1>9. QED
  BY <1>2, <1>5, <1>8 DEF t, body

\* Leaf by leaf, what is seen of the tokens is what is read.
Agree(f, r, insn, s) == \A n \in 1 .. Len(s) : Each(f, Tokens(insn, s, n)) = Each(r, Ink(s[n]))
LEMMA LeavesShown ==
    ASSUME NEW insn, Regular(insn), NEW s, s = Leaves(insn.tree, Transformer),
           NEW g, g = Leaves(insn.tree, insn_grammar),
           NEW d, Numbered(insn, d),
           NEW f, Wraps(f, Range(process_insn_tokens(insn)), d), NEW r, Reads(r, Range(g), insn, d)
    PROVE  Agree(f, r, insn, s)
<1>1. /\ IsSeq(s) /\ Parsed(g) /\ NamesOperands(insn, g) /\ NamesImmediates(insn, Letters(s))
      /\ InkAll(s) = g
  BY LeavesOf
<1>2. Range(g) = UNION {Range(Ink(s[n])) : n \in 1 .. Len(s)}
  <2> DEFINE h == [n \in 1 .. Len(s) |-> Ink(s[n])]
  <2>1. Range(InkAll(s)) = UNION {Range(h[n]) : n \in 1 .. Len(s)}
    BY <1>1, InkAllIsJoined
  <2>2. \A n \in 1 .. Len(s) : h[n] = Ink(s[n])
    OBVIOUS
  <2> HIDE DEF h
  <2>3. UNION {Range(h[n]) : n \in 1 .. Len(s)} = UNION {Range(Ink(s[n])) : n \in 1 .. Len(s)}
    BY <2>2
  <2>4. QED
    BY <1>1, <2>1, <2>3
<1>3. Range(process_insn_tokens(insn)) = UNION {Range(Toks(insn, s)[n]) : n \in 1 .. Len(s)}
  BY BodyIs
<1>4. SUFFICES ASSUME NEW n \in 1 .. Len(s)
               PROVE  Each(f, Tokens(insn, s, n)) = Each(r, Ink(s[n]))
  BY DEF Agree
<1>5. Range(Ink(s[n])) \subseteq Range(g)
  BY <1>2
<1>6. Wraps(f, Range(Tokens(insn, s, n)), d)
  <2>1. Toks(insn, s)[n] = Tokens(insn, s, n)
    BY DEF Toks
  <2>2. Range(Tokens(insn, s, n)) \subseteq Range(process_insn_tokens(insn))
    BY <1>3, <2>1
  <2>3. QED
    BY <2>2 DEF Wraps
<1>7. CASE s[n].rule = "text"
  <2>1. Reads(r, Range(Ink(s[n])), insn, d)
    BY <1>5 DEF Reads
  <2>2. "text" \notin Special
    BY DEF Special
  <2>3. Tokens(insn, s, n) = terminal(s[n])
    BY <1>7, <2>2, TerminalTokens
  <2>4. Wraps(f, Range(terminal(s[n])), d)
    BY <1>6, <2>3
  <2>5. Each(f, terminal(s[n])) = Each(r, Ink(s[n]))
    BY <1>7, <2>1, <2>4, TextLeafShown
  <2>6. QED
    BY <2>3, <2>5
<1>8. CASE s[n].rule # "text"
  BY <1>1, <1>5, <1>6, <1>8, WordLeafShown
<1>9. QED
  BY <1>7, <1>8

\* What a reader sees of the text of an instruction is its behaviour string, read.
LEMMA TextReads ==
    ASSUME NEW insn, Regular(insn), NEW d, Numbered(insn, d)
    PROVE  ReadsLike(insn, d, tokenize(gen_insn_text_func(insn), d))
<1> DEFINE s == Leaves(insn.tree, Transformer)
           g == Leaves(insn.tree, insn_grammar)
           l == Len(s)
           body == process_insn_tokens(insn)
           S == Range(body)
           f == [k \in S |-> Inked(wrap_call(k, d))]
           r == [x \in Range(g) |-> Read(insn, d, x)]
           toks == Toks(insn, s)
           inks == [n \in 1 .. l |-> Ink(s[n])]
           h == [n \in 1 .. l |-> Each(f, toks[n])]
<1>1. IsSeq(s) /\ IsSeq(g) /\ InkAll(s) = g
  BY LeavesOf
<1>2. /\ body = Joined(toks, l) /\ IsSeq(body) /\ l \in Nat /\ DOMAIN s = 1 .. l
      /\ S = UNION {Range(toks[n]) : n \in 1 .. l}
  BY BodyIs
<1>3. \A n \in 1 .. l : toks[n] = Tokens(insn, s, n) /\ inks[n] = Ink(s[n]) /\ h[n] = Each(f, toks[n])
  BY DEF Toks
<1>4. g = Joined(inks, l) /\ \A n \in 1 .. l : inks[n] \in Seq(Range(g))
  <2>1. /\ InkAll(s) = Joined(inks, l)
        /\ Range(InkAll(s)) = UNION {Range(inks[n]) : n \in 1 .. l}
        /\ \A n \in 1 .. l : inks[n] \in Seq(UNION {Range(inks[k]) : k \in 1 .. l})
    BY <1>1, InkAllIsJoined
  <2> HIDE DEF inks
  <2>2. QED
    BY <1>1, <2>1
<1>5. /\ DOMAIN f = S /\ \A k \in S : f[k] = Inked(wrap_call(k, d))
      /\ DOMAIN r = Range(g) /\ \A x \in Range(g) : r[x] = Read(insn, d, x)
  OBVIOUS
<1>6. Wraps(f, S, d) /\ Reads(r, Range(g), insn, d)
  BY <1>5 DEF Wraps, Reads
<1>7. \A n \in 1 .. l : Each(f, Tokens(insn, s, n)) = Each(r, Ink(s[n]))
  <2>1. Wraps(f, Range(process_insn_tokens(insn)), d)
    BY <1>6
  <2> HIDE DEF f, r, S, toks, inks, h
  <2>2. Agree(f, r, insn, s)
    BY <1>6, <2>1, LeavesShown
  <2>3. QED
    BY <2>2 DEF Agree
<1>8. DOMAIN body = 1 .. Len(body) /\ DOMAIN g = 1 .. Len(g) /\ body \in Seq(S) /\ g \in Seq(Range(g))
  BY <1>1, <1>2, InSeq
<1> DEFINE shown == tokenize(gen_insn_text_func(insn), d)
<1> HIDE DEF f, r, s, g, l, toks, inks, h
<1>9. Text(shown) = Each(f, body)
  <2>1. DOMAIN shown = 1 .. Len(body) /\ \A n \in 1 .. Len(body) : shown[n] = wrap_call(body[n], d)
    BY <1>8 DEF tokenize, gen_insn_text_func
  <2>2. \A n \in 1 .. Len(body) : body[n] \in S
    BY <1>8 DEF Range
  <2> HIDE DEF shown, body
  <2>3. \A n \in 1 .. Len(body) : Inked(shown[n]) = f[body[n]]
    BY <1>5, <2>1, <2>2
  <2>4. [n \in DOMAIN shown |-> Inked(shown[n])] = [n \in 1 .. Len(body) |-> f[body[n]]]
    BY <2>1, <2>3
  <2>5. QED
    BY <2>4 DEF Text, Each
<1>10. FlattenSeq([n \in DOMAIN g |-> Read(insn, d, g[n])]) = Each(r, g)
  <2>1. \A n \in 1 .. Len(g) : g[n] \in Range(g)
    BY <1>8 DEF Range
  <2>2. \A n \in 1 .. Len(g) : Read(insn, d, g[n]) = r[g[n]]
    BY <1>5, <2>1
  <2>3. [n \in DOMAIN g |-> Read(insn, d, g[n])] = [n \in 1 .. Len(g) |-> r[g[n]]]
    BY <1>8, <2>2
  <2>4. QED
    BY <2>3 DEF Each
<1> HIDE DEF body, S, shown
<1>11. Each(f, Joined(toks, l)) = Joined(h, l)
  <2>1. Makes(f, S)
    BY <1>5, InkedIsSeq DEF Makes
  <2>2. \A n \in 1 .. l : toks[n] \in Seq(S)
    <3> SUFFICES ASSUME NEW n \in 1 .. l PROVE toks[n] \in Seq(S)
      OBVIOUS
    <3>1. IsSeq(toks[n])
      BY <1>3, TokensIsSeq
    <3>2. Range(toks[n]) \subseteq S
      BY <1>2
    <3>3. QED
      BY <3>1, <3>2, InSeq
  <2>3. \A n \in 1 .. l : h[n] = Each(f, toks[n])
    BY <1>3
  <2>4. QED
    BY <1>2, <2>1, <2>2, <2>3, EachJoined
<1>12. Each(r, Joined(inks, l)) = Joined(h, l)
  <2>1. Makes(r, Range(g))
    BY <1>5, ReadIsSeq DEF Makes
  <2>2. \A n \in 1 .. l : h[n] = Each(r, inks[n])
    BY <1>3, <1>7
  <2>3. QED
    BY <1>2, <1>4, <2>1, <2>2, EachJoined
<1>13. Text(shown) = FlattenSeq([n \in DOMAIN g |-> Read(insn, d, g[n])])
  BY <1>2, <1>4, <1>9, <1>10, <1>11, <1>12
<1>14. QED
  BY <1>13 DEF ReadsLike, g, shown

\* What is in the file is an instruction and the text generated from it.
FromInsns == file # NoFile => \A j \in DOMAIN file : file[j].tag \in DOMAIN Insns /\ file[j].body = file[j].tag

\* The files of the pool are such.
LEMMA FromInsnsHolds == Spec => []FromInsns
<1>1. Init => FromInsns
  BY DEF Init, FromInsns
<1>2. IInv /\ FromInsns /\ [Next]_vars => FromInsns'
  <2> SUFFICES ASSUME IInv, FromInsns, [Next]_vars
               PROVE  FromInsns'
    OBVIOUS
  <2>1. ASSUME file' = file
        PROVE  FromInsns'
    BY <2>1 DEF FromInsns
  <2>2. CASE Write
    <3>1. tags \in TagLists /\ file' = IF empty = {} THEN Functions ELSE file
      BY <2>2 DEF Write, IInv
    <3>2. CASE empty # {}
      BY <2>1, <3>1, <3>2
    <3>3. CASE empty = {}
      <4>1. Submitted = All
        <5>1. i = Len(tags) + 1 /\ DOMAIN tags = 1 .. Len(tags) /\ Len(tags) \in Nat
          BY <2>2, TagsAreSeq DEF Write, IInv
        <5>2. {k \in DOMAIN tags : k < i} = DOMAIN tags
          BY <5>1
        <5>3. QED
          BY <3>3, <5>2 DEF Submitted, All
      <4>2. \A t \in All : tag_to_fbody[t] = Body(t)
        BY <2>2, <4>1 DEF Write, IInv, Accounted, OnTheWay
      <4>3. \A j \in DOMAIN tags : tags[j] \in DOMAIN Insns /\ Body(tags[j]) = tags[j]
        BY <3>1, BodyAssumption
      <4>4. \A j \in DOMAIN tags : tag_to_fbody[tags[j]] = tags[j]
        BY <4>2, <4>3 DEF All
      <4>5. file' = [j \in DOMAIN tags |-> [tag |-> tags[j], body |-> tag_to_fbody[tags[j]]]]
        BY <3>1, <3>3 DEF Functions
      <4>6. DOMAIN file' = DOMAIN tags
        BY <4>5
      <4>7. \A j \in DOMAIN tags : file'[j].tag = tags[j] /\ file'[j].body = tag_to_fbody[tags[j]]
        BY <4>5
      <4>8. QED
        BY <4>3, <4>4, <4>6, <4>7 DEF FromInsns
    <3>4. QED
      BY <3>2, <3>3
  <2>3. \A t \in All : Start(t) \/ Finish(t) \/ Take(t) \/ TakeFailed(t) => FromInsns'
    BY <2>1 DEF Start, Finish, Take, TakeFailed
  <2>4. CASE Submit \/ SubmitBroken \/ Collect \/ Crash \/ Raise \/ UNCHANGED vars
    BY <2>1, <2>4 DEF Submit, SubmitBroken, Collect, Crash, Raise, vars
  <2>5. QED
    BY <2>2, <2>3, <2>4 DEF Next, Main, Pool
<1>3. QED
  BY IInvHolds, <1>1, <1>2, PTL DEF Spec

\* Operands are numbered, so their numbers are.
LEMMA DecodingsAre ==
    ASSUME NEW insn, Regular(insn), NEW d \in Decodings(insn)
    PROVE  /\ Numbered(insn, d)
           /\ d.pc = 1000 /\ d.immed[1] = 100 /\ d.immed[2] = 200
           /\ d.extension_valid \in BOOLEAN
           /\ d.extension_valid => insn.immexts # << >>
<1> DEFINE X == IF insn.immexts = << >> THEN {FALSE} ELSE BOOLEAN
           made(x) == [pc |-> 1000, regno |-> [j \in DOMAIN insn.regs |-> 2 * j], immed |-> <<100, 200>>,
                       extension_valid |-> x]
<1>0. Decodings(insn) = {made(x) : x \in X}
  BY DEF Decodings
<1> HIDE DEF X, made
<1>1. PICK x \in X : d = made(x)
  BY <1>0
<1>2. DOMAIN insn.regs \subseteq Nat \ {0}
  BY LeavesOf, Zenon DEF NamesOperands
<1>3. x \in BOOLEAN /\ (x => insn.immexts # << >>)
  BY DEF X
<1>4. \A j \in DOMAIN insn.regs : d.regno[j] = 2 * j
  BY <1>1 DEF made
<1>5. d.pc = 1000 /\ d.immed = <<100, 200>> /\ d.extension_valid = x
  BY <1>1 DEF made
<1>6. Numbered(insn, d)
  BY <1>2, <1>4 DEF Numbered
<1>7. QED
  BY <1>3, <1>5, <1>6

\* ReadsLikeBehaviour for any instructions whose data is regular: the text of an
\* instruction is its behaviour string with the operands in it, whatever its tree
\* (InsnTreeTransformer, wrap_call).
THEOREM TextsReadLikeBehaviour == Spec => []ReadsLikeBehaviour
<1>1. FromInsns => ReadsLikeBehaviour
  <2> SUFFICES ASSUME FromInsns, file # NoFile, NEW j \in DOMAIN file,
                      NEW d \in Decodings(Insns[file[j].tag])
               PROVE  ReadsLike(Insns[file[j].tag], d, tokenize(gen_insn_text_func(Insns[file[j].body]), d))
    BY DEF ReadsLikeBehaviour, InFile
  <2> DEFINE insn == Insns[file[j].tag]
  <2>1. file[j].tag \in DOMAIN Insns /\ file[j].body = file[j].tag
    BY DEF FromInsns
  <2>2. Regular(insn)
    BY <2>1, InsnsAssumption
  <2>3. Numbered(insn, d)
    BY <2>2, DecodingsAre
  <2>4. ReadsLike(insn, d, tokenize(gen_insn_text_func(insn), d))
    BY <2>2, <2>3, TextReads
  <2>5. QED
    BY <2>1, <2>4
<1>2. QED
  BY FromInsnsHolds, <1>1, PTL

-----------------------------------------------------------------------------
(* Addresses and extended numbers. *)

\* A token that is shown neither as an address nor as a number of an immediate.
Dull(k, d) == LET t == wrap_call(k, d) IN t.kind # "CodeRelativeAddress" /\ (t.kind = "Integer" => t.v = 0)

\* Words, registers and GP are.
LEMMA WordsAreDull == ASSUME NEW kind \in Plain, NEW w, NEW d PROVE Dull(Tok(kind, w), d)
<1>1. wrap_call(Tok(kind, w), d) = Shown(kind, w, "", 0)
  BY WordWrapped
<1>2. kind # "CodeRelativeAddress"
  BY DEF Plain
<1>3. Shown(kind, w, "", 0).kind = kind /\ Shown(kind, w, "", 0).v = 0
  BY DEF Shown
<1>4. QED
  BY <1>1, <1>2, <1>3 DEF Dull

LEMMA RegistersAreDull ==
    ASSUME NEW w, NEW half, NEW j \in Nat \ {0}, NEW up, NEW d
    PROVE  Dull(GetRegister(w, half, j, up), d)
<1> DEFINE v == d.regno[j] + up
<1>1. wrap_call(GetRegister(w, half, j, up), d) = Shown("Register", w, half, v)
  BY RegisterWrapped
<1> HIDE DEF v
<1>2. Shown("Register", w, half, v).kind = "Register"
  BY DEF Shown
<1>3. QED
  BY <1>1, <1>2 DEF Dull

LEMMA GPIsDull == ASSUME NEW d PROVE Dull(Tok("GPRegister", "GP"), d)
<1>1. \/ wrap_call(Tok("GPRegister", "GP"), d) = Shown("Integer", "0", "", 0)
      \/ wrap_call(Tok("GPRegister", "GP"), d) = Shown("Register", "GP", "", 0)
  BY GPWrapped
<1>2. /\ Shown("Integer", "0", "", 0).kind = "Integer" /\ Shown("Integer", "0", "", 0).v = 0
      /\ Shown("Register", "GP", "", 0).kind = "Register"
  BY DEF Shown
<1>3. QED
  BY <1>1, <1>2 DEF Dull

LEMMA ElementsAre ==
    /\ \A x : Range(<<x>>) = {x}
    /\ \A x, y : Range(<<x, y>>) = {x, y}
    /\ \A x, y, z : Range(<<x, y, z>>) = {x, y, z}
BY DEF Range

\* Only immediates are shown as addresses and numbers.
LEMMA OthersAreDull ==
    ASSUME NEW insn, NEW s, NEW g, NamesOperands(insn, g), NEW n \in 1 .. Len(s),
           s[n].rule # "imm", s[n].rule = "reg" => s[n] \in ToSet(g),
           NEW d
    PROVE  \A k \in Range(Tokens(insn, s, n)) : Dull(k, d)
<1> DEFINE x == s[n]
<1>1. CASE x.rule = "reg"
  <2> DEFINE j == OperandOf(insn, x)
             odd == GetRegister(x.word, x.half, j, 1)
             colon == Tok("Text", ":")
             even == GetRegister(x.word, x.half, j, 0)
  <2>1. seenregs(insn, x.id) = j /\ j \in Nat \ {0}
    BY <1>1, RegIs
  <2>2. reg(insn, x) = IF Len(x.id) = 2 THEN <<odd, colon, even>> ELSE <<even>>
    BY <2>1 DEF reg, TextToken
  <2> HIDE DEF j
  <2>3. Dull(odd, d) /\ Dull(even, d)
    BY <2>1, RegistersAreDull
  <2>4. Dull(colon, d)
    BY WordsAreDull, PlainHas
  <2>5. Tokens(insn, s, n) = reg(insn, x)
    BY <1>1, RegTokens
  <2> HIDE DEF odd, colon, even, x
  <2>6. Range(reg(insn, x)) \subseteq {odd, colon, even}
    BY <2>2, ElementsAre
  <2>7. QED
    BY <2>3, <2>4, <2>5, <2>6
<1>2. CASE x.rule = "const"
  <2> DEFINE k == Tok("Text", "#")
             m == Tok("Integer", x.word)
  <2>1. Tokens(insn, s, n) = const(x.word)
    BY <1>2, ConstTokens
  <2>2. const(x.word) = <<k, m>>
    BY DEF const, TextToken
  <2>3. Dull(k, d) /\ Dull(m, d)
    BY WordsAreDull, PlainHas
  <2> HIDE DEF k, m
  <2>4. Range(<<k, m>>) = {k, m}
    BY ElementsAre
  <2>5. QED
    BY <2>1, <2>2, <2>3, <2>4
<1>3. CASE x.rule = "pred_reg"
  <2> DEFINE k == Tok("Register", [p0 |-> "P0", p1 |-> "P1", p2 |-> "P2", p3 |-> "P3"][x.word])
  <2>1. Tokens(insn, s, n) = pred_reg(x.word)
    BY <1>3, PredTokens
  <2>2. pred_reg(x.word) = <<k>>
    BY DEF pred_reg
  <2>3. Dull(k, d)
    BY WordsAreDull, PlainHas
  <2> HIDE DEF k
  <2>4. Range(<<k>>) = {k}
    BY ElementsAre
  <2>5. QED
    BY <2>1, <2>2, <2>3, <2>4
<1>4. CASE x.rule = "gp_reg"
  <2> DEFINE k == Tok("GPRegister", "GP")
  <2>1. Tokens(insn, s, n) = gp_reg
    BY <1>4, GPTokens
  <2>2. gp_reg = <<k>>
    BY DEF gp_reg
  <2>3. Dull(k, d)
    BY GPIsDull
  <2> HIDE DEF k
  <2>4. Range(<<k>>) = {k}
    BY ElementsAre
  <2>5. QED
    BY <2>1, <2>2, <2>3, <2>4
<1>5. CASE x.rule = "sys_reg"
  <2> DEFINE shown == upper(x.word)
             name == CASE shown = "R29" -> "SP" [] shown = "R31" -> "LR" [] OTHER -> shown
             k == Tok("Register", name)
  <2>1. Tokens(insn, s, n) = sys_reg(x.word)
    BY <1>5, SysTokens
  <2>2. sys_reg(x.word) = <<k>>
    BY Zenon DEF sys_reg
  <2> HIDE DEF name
  <2>3. Dull(k, d)
    BY WordsAreDull, PlainHas
  <2> HIDE DEF k
  <2>4. Range(<<k>>) = {k}
    BY ElementsAre
  <2>5. QED
    BY <2>1, <2>2, <2>3, <2>4
<1>6. CASE x.rule \notin Special
  <2>1. Tokens(insn, s, n) = terminal(x)
    BY <1>6, TerminalTokens
  <2>2. PICK kind \in Plain : terminal(x) = <<Tok(kind, x.word)>>
    BY TerminalIs
  <2> DEFINE k == Tok(kind, x.word)
  <2>3. Dull(k, d)
    BY WordsAreDull
  <2>4. terminal(x) = <<k>>
    BY <2>2
  <2> HIDE DEF k
  <2>5. Range(<<k>>) = {k}
    BY ElementsAre
  <2>6. QED
    BY <2>1, <2>3, <2>4, <2>5
<1>7. QED
  BY <1>1, <1>2, <1>3, <1>4, <1>5, <1>6, Zenon DEF Special

\* The tokens of an immediate, and what they are shown as.
Which(w) == IF IsUpper(w) THEN 2 ELSE 1
Mark(insn, w) == IF Extendable(insn, IsUpper(w)) THEN Immed("Extended", Which(w)) ELSE TextToken("#")
LEMMA ImmTokensAre ==
    ASSUME NEW insn, NEW s, IsSeq(s), NamesImmediates(insn, Letters(s)),
           NEW n \in 1 .. Len(s), s[n].rule = "imm"
    PROVE  LET w == s[n].word
           IN  Tokens(insn, s, n) = IF IsRelative(w) THEN <<Immed("CodeRelativeAddress", Which(w))>>
                                    ELSE <<Mark(insn, w), Immed("Integer", Which(w))>>
<1> DEFINE w == s[n].word
           ii == IF IsUpper(w) THEN 2 ELSE 1
<1>1. Tokens(insn, s, n) = imm(insn, w, Len(Letters(s)), Seen(s, n))
  BY ImmTokens
<1>2. imm(insn, w, Len(Letters(s)), Seen(s, n))
        = IF IsRelative(w) THEN <<Immed("CodeRelativeAddress", ii)>>
          ELSE <<IF Extendable(insn, IsUpper(w)) THEN Immed("Extended", ii) ELSE TextToken("#"),
                 Immed("Integer", ii)>>
  BY ImmIs DEF Seen
<1>3. QED
  BY <1>1, <1>2, Zenon DEF Which, Mark

\* An address, a number and its mark, shown.
LEMMA ImmTokensWrap ==
    ASSUME NEW insn, NEW w, NEW d
    PROVE  /\ wrap_call(Immed("CodeRelativeAddress", Which(w)), d).kind = "CodeRelativeAddress"
           /\ wrap_call(Immed("CodeRelativeAddress", Which(w)), d).v = d.pc + Value(d, w)
           /\ wrap_call(Immed("Integer", Which(w)), d).kind = "Integer"
           /\ wrap_call(Immed("Integer", Which(w)), d).v = Value(d, w)
           /\ wrap_call(Mark(insn, w), d).kind = "Text"
           /\ wrap_call(Mark(insn, w), d).s = "##" <=> Extendable(insn, IsUpper(w)) /\ d.extension_valid
<1> DEFINE v == Value(d, w)
<1>1. Which(w) > 0 /\ v = d.immed[Which(w)]
  <2>1. Which(w) = 1 \/ Which(w) = 2
    BY DEF Which
  <2>2. Which(w) > 0
    BY <2>1
  <2>3. QED
    BY <2>2, Zenon DEF Which, Value
<1> HIDE DEF v
<1>2. /\ wrap_call(Immed("CodeRelativeAddress", Which(w)), d) = Shown("CodeRelativeAddress", "", "", d.pc + v)
      /\ wrap_call(Immed("Integer", Which(w)), d) = Shown("Integer", "", "", v)
      /\ wrap_call(Immed("Extended", Which(w)), d)
           = Shown("Text", IF d.extension_valid THEN "##" ELSE "#", "", 0)
  BY <1>1, ImmedWrapped, Zenon
<1>3. wrap_call(Tok("Text", "#"), d) = Shown("Text", "#", "", 0)
  BY WordWrapped, PlainHas
<1> DEFINE x == IF d.extension_valid THEN "##" ELSE "#"
<1>4. x = "##" <=> d.extension_valid
  OBVIOUS
<1> HIDE DEF x
<1>5. wrap_call(Mark(insn, w), d) = Shown("Text", IF Extendable(insn, IsUpper(w)) THEN x ELSE "#", "", 0)
  <2>1. CASE Extendable(insn, IsUpper(w))
    BY <1>2, <2>1, Zenon DEF Mark, x
  <2>2. CASE ~ Extendable(insn, IsUpper(w))
    BY <1>3, <2>2, Zenon DEF Mark, TextToken
  <2>3. QED
    BY <2>1, <2>2
<1> DEFINE m == IF Extendable(insn, IsUpper(w)) THEN x ELSE "#"
<1>6. /\ Shown("CodeRelativeAddress", "", "", d.pc + v).kind = "CodeRelativeAddress"
      /\ Shown("CodeRelativeAddress", "", "", d.pc + v).v = d.pc + v
      /\ Shown("Integer", "", "", v).kind = "Integer" /\ Shown("Integer", "", "", v).v = v
      /\ Shown("Text", m, "", 0).kind = "Text" /\ Shown("Text", m, "", 0).s = m
  BY DEF Shown
<1>7. /\ wrap_call(Immed("CodeRelativeAddress", Which(w)), d).kind = "CodeRelativeAddress"
      /\ wrap_call(Immed("CodeRelativeAddress", Which(w)), d).v = d.pc + v
      /\ wrap_call(Immed("Integer", Which(w)), d).kind = "Integer"
      /\ wrap_call(Immed("Integer", Which(w)), d).v = v
      /\ wrap_call(Mark(insn, w), d).kind = "Text"
      /\ wrap_call(Mark(insn, w), d).s = IF Extendable(insn, IsUpper(w)) THEN x ELSE "#"
  BY <1>2, <1>5, <1>6, Zenon
<1>8. wrap_call(Mark(insn, w), d).s = "##" <=> Extendable(insn, IsUpper(w)) /\ d.extension_valid
  BY <1>4, <1>7
<1>9. QED
  BY <1>7, <1>8 DEF v

\* Which leaf a token of the text comes from, and what comes before it.
ComeFrom(body, insn, s) ==
    \A p \in 1 .. Len(body) : \E n \in 1 .. Len(s) : \E q \in 1 .. Len(Tokens(insn, s, n)) :
        /\ body[p] = Tokens(insn, s, n)[q]
        /\ q > 1 => p > 1 /\ body[p - 1] = Tokens(insn, s, n)[q - 1]
LEMMA ShownFrom ==
    ASSUME NEW insn, Regular(insn), NEW d
    PROVE  LET s == Leaves(insn.tree, Transformer)
               body == process_insn_tokens(insn)
               shown == tokenize(gen_insn_text_func(insn), d)
           IN  /\ DOMAIN shown = 1 .. Len(body) /\ DOMAIN body = 1 .. Len(body)
               /\ \A p \in DOMAIN shown : shown[p] = wrap_call(body[p], d)
               /\ Range(body) = UNION {Range(Tokens(insn, s, n)) : n \in 1 .. Len(s)}
               /\ ComeFrom(body, insn, s)
<1> DEFINE s == Leaves(insn.tree, Transformer)
           l == Len(s)
           body == process_insn_tokens(insn)
           shown == tokenize(gen_insn_text_func(insn), d)
           toks == Toks(insn, s)
<1>1. /\ body = Joined(toks, l) /\ IsSeq(body) /\ l \in Nat
      /\ Range(body) = UNION {Range(toks[n]) : n \in 1 .. l}
  BY BodyIs
<1>2. \A n \in 1 .. l : toks[n] = Tokens(insn, s, n)
  BY DEF Toks
<1>3. DOMAIN body = 1 .. Len(body)
  BY <1>1, InSeq
<1>4. DOMAIN shown = 1 .. Len(body) /\ \A p \in 1 .. Len(body) : shown[p] = wrap_call(body[p], d)
  BY <1>3 DEF tokenize, gen_insn_text_func
<1> HIDE DEF s, l, body, shown, toks
<1>5. UNION {Range(toks[n]) : n \in 1 .. l} = UNION {Range(Tokens(insn, s, n)) : n \in 1 .. l}
  BY <1>2
<1>6. Parts(toks, l)
  BY <1>2, TokensIsSeq DEF Parts
<1>7. ASSUME NEW p \in 1 .. Len(body)
      PROVE  \E n \in 1 .. l : \E q \in 1 .. Len(Tokens(insn, s, n)) :
                /\ body[p] = Tokens(insn, s, n)[q]
                /\ q > 1 => p > 1 /\ body[p - 1] = Tokens(insn, s, n)[q - 1]
  <2>1. PICK n \in 1 .. l : \E q \in 1 .. Len(toks[n]) : p = Len(Joined(toks, n - 1)) + q
    BY <1>1, <1>6, JoinedFrom
  <2>2. PICK q \in 1 .. Len(toks[n]) : p = Len(Joined(toks, n - 1)) + q
    BY <2>1
  <2>3. body[p] = toks[n][q]
    BY <1>1, <1>6, <2>2, JoinedAt
  <2>4. ASSUME q > 1 PROVE p > 1 /\ body[p - 1] = toks[n][q - 1]
    <3>1. q - 1 \in 1 .. Len(toks[n])
      BY <2>4
    <3>2. Joined(toks, l)[Len(Joined(toks, n - 1)) + (q - 1)] = toks[n][q - 1]
      BY <1>1, <1>6, <3>1, JoinedAt
    <3>3. Len(Joined(toks, n - 1)) \in Nat
      <4>1. n - 1 \in Nat /\ \A j \in 1 .. n - 1 : IsSeq(toks[j])
        BY <1>1, <1>6 DEF Parts
      <4>2. IsSeq(Joined(toks, n - 1))
        BY <4>1, JoinedRange
      <4>3. QED
        BY <4>2, InSeq
    <3>4. p - 1 = Len(Joined(toks, n - 1)) + (q - 1)
      BY <2>2, <3>3
    <3>5. p > 1
      BY <2>2, <2>4, <3>3
    <3>6. QED
      BY <1>1, <3>2, <3>4, <3>5
  <2>5. QED
    BY <1>2, <2>3, <2>4
<1>8. ComeFrom(body, insn, s)
  BY <1>7 DEF ComeFrom, l
<1>9. QED
  BY <1>1, <1>3, <1>4, <1>5, <1>8 DEF s, l, body, shown

\* A leaf of the transformer that is not a literal is one of the grammar, and the other
\* way round.
LEMMA LeafOfBoth ==
    ASSUME NEW insn, Regular(insn), NEW s, s = Leaves(insn.tree, Transformer),
           NEW g, g = Leaves(insn.tree, insn_grammar)
    PROVE  /\ \A n \in 1 .. Len(s) : s[n].rule # "text" => s[n] \in ToSet(g)
           /\ \A x \in ToSet(g) : x.rule # "text" => \E n \in 1 .. Len(s) : x = s[n]
<1>1. IsSeq(s) /\ IsSeq(g) /\ InkAll(s) = g
  BY LeavesOf
<1>2. ToSet(g) = Range(g)
  BY DEF ToSet, Range
<1> DEFINE h == [n \in 1 .. Len(s) |-> Ink(s[n])]
<1>3. Range(InkAll(s)) = UNION {Range(h[n]) : n \in 1 .. Len(s)}
  BY <1>1, InkAllIsJoined
<1>4. \A n \in 1 .. Len(s) : h[n] = Ink(s[n])
  OBVIOUS
<1> HIDE DEF h
<1>5. ASSUME NEW n \in 1 .. Len(s), s[n].rule # "text"
      PROVE  s[n] \in ToSet(g)
  <2>1. Ink(s[n]) = <<s[n]>>
    BY <1>5, InkIs, Zenon
  <2>2. s[n] \in Range(h[n])
    BY <1>4, <2>1, RangeOfOne
  <2>3. QED
    BY <1>1, <1>2, <1>3, <2>2
<1>6. ASSUME NEW x \in ToSet(g), x.rule # "text"
      PROVE  \E n \in 1 .. Len(s) : x = s[n]
  <2>1. PICK n \in 1 .. Len(s) : x \in Range(h[n])
    BY <1>1, <1>2, <1>3
  <2>2. x \in Range(Ink(s[n]))
    BY <1>4, <2>1
  <2>3. CASE s[n].rule # "text"
    <3>1. Ink(s[n]) = <<s[n]>>
      BY <2>3, InkIs, Zenon
    <3>2. QED
      BY <2>2, <3>1, ElementsAre
  <2>4. CASE s[n].rule = "text"
    <3>1. Ink(s[n]) = << >> \/ \E y : Ink(s[n]) = <<y>> /\ y.rule = "text"
      BY <2>4, InkIs, Zenon
    <3>2. Range(<< >>) = {}
      BY DEF Range
    <3>3. QED
      BY <1>6, <2>2, <3>1, <3>2, ElementsAre
  <2>5. QED
    BY <2>3, <2>4
<1>7. QED
  BY <1>5, <1>6

\* What is shown as an address is what counts from the packet, and nothing else.
LEMMA TargetsAre ==
    ASSUME NEW insn, Regular(insn), NEW d
    PROVE  Targets(insn, d, tokenize(gen_insn_text_func(insn), d))
<1> DEFINE s == Leaves(insn.tree, Transformer)
           g == Leaves(insn.tree, insn_grammar)
           body == process_insn_tokens(insn)
           shown == tokenize(gen_insn_text_func(insn), d)
           relative == {y \in ToSet(g) : y.rule = "imm" /\ IsRelative(y.word)}
           address(x) == Immed("CodeRelativeAddress", Which(x.word))
<1>1. /\ DOMAIN shown = 1 .. Len(body) /\ DOMAIN body = 1 .. Len(body)
      /\ \A p \in DOMAIN shown : shown[p] = wrap_call(body[p], d)
      /\ Range(body) = UNION {Range(Tokens(insn, s, n)) : n \in 1 .. Len(s)}
  BY ShownFrom
<1>2. /\ \A n \in 1 .. Len(s) : s[n].rule # "text" => s[n] \in ToSet(g)
      /\ \A x \in ToSet(g) : x.rule # "text" => \E n \in 1 .. Len(s) : x = s[n]
  BY LeafOfBoth
<1>3. IsSeq(s) /\ NamesOperands(insn, g) /\ NamesImmediates(insn, Letters(s))
  BY LeavesOf
<1> HIDE DEF s, g, body, shown, relative, address
<1>4. ASSUME NEW p \in DOMAIN shown, shown[p].kind = "CodeRelativeAddress"
      PROVE  \E x \in relative : shown[p].v = d.pc + Value(d, x.word)
  <2>1. PICK n \in 1 .. Len(s) : body[p] \in Range(Tokens(insn, s, n))
    BY <1>1 DEF Range
  <2>2. ~ Dull(body[p], d)
    BY <1>1, <1>4 DEF Dull
  <2>3. s[n].rule = "imm"
    <3>1. s[n].rule = "reg" => s[n] \in ToSet(g)
      BY <1>2
    <3>2. QED
      BY <1>3, <2>1, <2>2, <3>1, OthersAreDull
  <2>4. s[n] \in ToSet(g)
    BY <1>2, <2>3
  <2> DEFINE w == s[n].word
             mark == Mark(insn, w)
             number == Immed("Integer", Which(w))
  <2>5. Tokens(insn, s, n) = IF IsRelative(w) THEN <<address(s[n])>> ELSE <<mark, number>>
    BY <1>3, <2>3, ImmTokensAre DEF address
  <2>6. /\ wrap_call(address(s[n]), d).v = d.pc + Value(d, w)
        /\ wrap_call(number, d).kind = "Integer" /\ wrap_call(mark, d).kind = "Text"
    BY ImmTokensWrap DEF address
  <2> HIDE DEF mark, number, w
  <2>7. IsRelative(w)
    <3>1. SUFFICES ASSUME ~ IsRelative(w) PROVE FALSE
      OBVIOUS
    <3>2. body[p] = mark \/ body[p] = number
      BY <2>1, <2>5, <3>1, ElementsAre
    <3>3. QED
      BY <1>1, <1>4, <2>6, <3>2
  <2>8. body[p] = address(s[n])
    BY <2>1, <2>5, <2>7, ElementsAre
  <2>9. shown[p].v = d.pc + Value(d, w)
    BY <1>1, <2>6, <2>8
  <2>10. QED
    BY <2>3, <2>4, <2>7, <2>9 DEF relative, w
<1>5. ASSUME NEW x \in relative
      PROVE  \E p \in DOMAIN shown : /\ shown[p].kind = "CodeRelativeAddress"
                                     /\ shown[p].v = d.pc + Value(d, x.word)
  <2>1. x \in ToSet(g) /\ x.rule = "imm" /\ IsRelative(x.word)
    BY DEF relative
  <2>2. PICK n \in 1 .. Len(s) : x = s[n]
    BY <1>2, <2>1
  <2>3. Tokens(insn, s, n) = <<address(x)>>
    BY <1>3, <2>1, <2>2, ImmTokensAre DEF address
  <2>4. /\ wrap_call(address(x), d).kind = "CodeRelativeAddress"
        /\ wrap_call(address(x), d).v = d.pc + Value(d, x.word)
    BY ImmTokensWrap DEF address
  <2>5. address(x) \in Range(body)
    BY <1>1, <2>3, RangeOfOne
  <2>6. PICK p \in DOMAIN body : body[p] = address(x)
    BY <2>5 DEF Range
  <2>7. QED
    BY <1>1, <2>4, <2>6
<1> DEFINE found == {n \in DOMAIN shown : shown[n].kind = "CodeRelativeAddress"}
<1>6. {t.v : t \in {shown[n] : n \in found}} = {d.pc + Value(d, x.word) : x \in relative}
  BY <1>4, <1>5
<1>7. QED
  BY <1>6 DEF Targets, found, shown, relative, g

\* A number comes after its mark, and what is extended is told by the case of its letter.
LEMMA MarkedIs ==
    ASSUME NEW insn, Regular(insn), NEW d \in Decodings(insn)
    PROVE  Marked(insn, d, tokenize(gen_insn_text_func(insn), d))
<1> DEFINE s == Leaves(insn.tree, Transformer)
           g == Leaves(insn.tree, insn_grammar)
           body == process_insn_tokens(insn)
           shown == tokenize(gen_insn_text_func(insn), d)
<1>1. /\ DOMAIN shown = 1 .. Len(body) /\ DOMAIN body = 1 .. Len(body)
      /\ \A p \in DOMAIN shown : shown[p] = wrap_call(body[p], d)
      /\ ComeFrom(body, insn, s)
  BY ShownFrom
<1>2. \A n \in 1 .. Len(s) : s[n].rule # "text" => s[n] \in ToSet(g)
  BY LeafOfBoth
<1>3. IsSeq(s) /\ NamesOperands(insn, g) /\ NamesImmediates(insn, Letters(s))
  BY LeavesOf
<1>4. /\ d.immed[1] = 100 /\ d.immed[2] = 200
      /\ d.extension_valid => insn.immexts # << >>
  BY DecodingsAre
<1> HIDE DEF s, g, body, shown
<1> SUFFICES ASSUME NEW p \in DOMAIN shown, shown[p].kind = "Integer", shown[p].v # 0
             PROVE  shown[p - 1].s = "##" <=> d.extension_valid /\ shown[p].v = Value(d, insn.immexts[1])
  BY DEF Marked, shown
<1>5. PICK n \in 1 .. Len(s) : \E q \in 1 .. Len(Tokens(insn, s, n)) :
            /\ body[p] = Tokens(insn, s, n)[q]
            /\ q > 1 => p > 1 /\ body[p - 1] = Tokens(insn, s, n)[q - 1]
  BY <1>1 DEF ComeFrom
<1>6. PICK q \in 1 .. Len(Tokens(insn, s, n)) :
            /\ body[p] = Tokens(insn, s, n)[q]
            /\ q > 1 => p > 1 /\ body[p - 1] = Tokens(insn, s, n)[q - 1]
  BY <1>5
<1>7. s[n].rule = "imm"
  <2>1. ~ Dull(body[p], d)
    BY <1>1 DEF Dull
  <2>2. body[p] \in Range(Tokens(insn, s, n))
    <3>1. DOMAIN Tokens(insn, s, n) = 1 .. Len(Tokens(insn, s, n))
      BY TokensIsSeq, InSeq
    <3>2. QED
      BY <1>6, <3>1 DEF Range
  <2>3. s[n].rule = "reg" => s[n] \in ToSet(g)
    BY <1>2
  <2>4. QED
    BY <1>3, <2>1, <2>2, <2>3, OthersAreDull
<1> DEFINE w == s[n].word
           address == Immed("CodeRelativeAddress", Which(w))
           mark == Mark(insn, w)
           number == Immed("Integer", Which(w))
<1>8. Tokens(insn, s, n) = IF IsRelative(w) THEN <<address>> ELSE <<mark, number>>
  BY <1>3, <1>7, ImmTokensAre
<1>9. /\ wrap_call(address, d).kind = "CodeRelativeAddress"
      /\ wrap_call(number, d).v = Value(d, w) /\ wrap_call(mark, d).kind = "Text"
      /\ wrap_call(mark, d).s = "##" <=> Extendable(insn, IsUpper(w)) /\ d.extension_valid
  BY ImmTokensWrap
<1> HIDE DEF w, address, mark, number
<1>10. Tokens(insn, s, n) = <<mark, number>>
  <2>1. SUFFICES ASSUME IsRelative(w) PROVE FALSE
    BY <1>8
  <2>2. Tokens(insn, s, n) = <<address>>
    BY <1>8, <2>1
  <2>3. body[p] = address
    BY <1>6, <2>2
  <2>4. QED
    BY <1>1, <1>9, <2>3
<1>11. q = 2
  <2>1. Len(<<mark, number>>) = 2 /\ <<mark, number>>[1] = mark
    OBVIOUS
  <2>2. q = 1 \/ q = 2
    BY <1>10, <2>1
  <2>3. q = 1 => body[p] = mark
    BY <1>6, <1>10, <2>1
  <2>4. body[p] # mark
    BY <1>1, <1>9
  <2>5. QED
    BY <2>2, <2>3, <2>4
<1>12. body[p] = number /\ body[p - 1] = mark
  BY <1>6, <1>10, <1>11
<1>13. p - 1 \in DOMAIN shown
  <2>1. p > 1
    BY <1>6, <1>11
  <2>2. QED
    BY <1>1, <2>1
<1>14. shown[p].v = Value(d, w) /\ shown[p - 1] = wrap_call(mark, d)
  BY <1>1, <1>9, <1>12, <1>13
<1>15. Extendable(insn, IsUpper(w)) <=> insn.immexts # << >> /\ (IsUpper(insn.immexts[1]) <=> IsUpper(w))
  BY DEF Extendable, extendable_upper_imm, extendable_lower_imm
<1>16. Value(d, w) = Value(d, insn.immexts[1]) <=> (IsUpper(insn.immexts[1]) <=> IsUpper(w))
  BY <1>4 DEF Value
<1>17. QED
  BY <1>4, <1>9, <1>14, <1>15, <1>16

\* AddressesAreTargets for any instructions whose data is regular: whichever flags the
\* transformer goes by, it marks as addresses the immediates that count from the packet
\* (imm, gen_insn_text_funcs.py).
THEOREM AddressesAreTargetsHolds == Spec => []AddressesAreTargets
<1>1. FromInsns => AddressesAreTargets
  <2> SUFFICES ASSUME FromInsns, file # NoFile, NEW j \in DOMAIN file,
                      NEW d \in Decodings(Insns[file[j].tag])
               PROVE  Targets(Insns[file[j].tag], d, tokenize(gen_insn_text_func(Insns[file[j].body]), d))
    BY DEF AddressesAreTargets, InFile
  <2>1. file[j].tag \in DOMAIN Insns /\ file[j].body = file[j].tag
    BY DEF FromInsns
  <2>2. Regular(Insns[file[j].tag])
    BY <2>1, InsnsAssumption
  <2>3. QED
    BY <2>1, <2>2, TargetsAre
<1>2. QED
  BY FromInsnsHolds, <1>1, PTL

\* ExtensionsMarked for any instructions whose data is regular: the number with two marks
\* is the one that the extender extends, which the decoder picks by the case of the letter
\* (imm, gen_insn_text_funcs.py; opcode_which_immediate_is_extended).
THEOREM ExtensionsMarkedHolds == Spec => []ExtensionsMarked
<1>1. FromInsns => ExtensionsMarked
  <2> SUFFICES ASSUME FromInsns, file # NoFile, NEW j \in DOMAIN file,
                      NEW d \in Decodings(Insns[file[j].tag])
               PROVE  Marked(Insns[file[j].tag], d, tokenize(gen_insn_text_func(Insns[file[j].body]), d))
    BY DEF ExtensionsMarked, InFile
  <2>1. file[j].tag \in DOMAIN Insns /\ file[j].body = file[j].tag
    BY DEF FromInsns
  <2>2. Regular(Insns[file[j].tag])
    BY <2>1, InsnsAssumption
  <2>3. QED
    BY <2>1, <2>2, MarkedIs
<1>2. QED
  BY FromInsnsHolds, <1>1, PTL
=============================================================================
