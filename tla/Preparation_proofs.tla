------------------------- MODULE Preparation_proofs -------------------------
(***************************************************************************)
(* The preparation of a packet, for every packet that the decoder makes of *)
(* any classes of instructions.                                            *)
(***************************************************************************)
EXTENDS Preparation, Prepare_proofs

-----------------------------------------------------------------------------
(* What a prepared packet is like. *)

\* No instruction that writes a predicate reads a new one.
PredicatesApart(q) ==
    /\ q \in Seq(Plain)
    /\ \A i \in 1 .. Len(q) : IsCompare(q[i]) \/ IsCmpJump(q[i]) => ~q[i].dotnew

Prepared(t, q) ==
    /\ t \in Seq(Instr) /\ Len(t) <= INSTRUCTIONS_MAX
    /\ \A i \in 1 .. Len(t) : t[i].at \in 1 .. Len(q)
    /\ FitsSlots(q) => InOrder(t, MemoryInsns) /\ InOrder(t, BranchInsns)
    /\ \A at \in 1 .. Len(q), part1 \in BOOLEAN :
          Cardinality(Copies(t, at, part1))
            = IF IsExt(q[at]) \/ (part1 /\ ~IsCmpJump(q[at])) THEN 0 ELSE 1
    /\ \A i, j \in 1 .. Len(t) :
          \/ WritesPred(t[i]) /\ ReadsNew(t[j])
          \/ WritesReg(t[i]) /\ IsNewValue(t[j]) /\ t[i].at < t[j].at
          => i < j
    /\ \A i \in 1 .. Len(t) : EndsLoop(t[i]) => i = Len(t)

LEMMA SplitIs ==
    ASSUME NEW q, NEW s, Entries(q), PredicatesApart(q), Settled(s, q),
           Len(SplitCmpJump(s)) <= INSTRUCTIONS_MAX
    PROVE  Prepared(SplitCmpJump(s), q)
<1> DEFINE n == Len(s)
           m == Len(CompareHalves(s))
           t == SplitCmpJump(s)
<1>1. /\ Arranges(s, q) /\ ComparesFirst(s) /\ Behind(s)
      /\ FitsSlots(q) => InOrder(s, MemoryInsns) /\ InOrder(s, BranchInsns)
  BY DEF Settled
<1>2. Joins(t, m, n, s, q)
  BY <1>1, SplitJoins
<1>3. Len(t) <= INSTRUCTIONS_MAX
  OBVIOUS
<1> HIDE DEF t, m
<1>4. /\ t \in Seq(Instr) /\ m \in Nat /\ n \in Nat /\ Len(t) = m + n
      /\ \A i \in 1 .. m + n : i \in 1 .. m \/ i - m \in 1 .. n
      /\ \A i \in 1 .. m :
            /\ IsCmpJump(t[i]) /\ t[i].part1 = TRUE
            /\ t[i].at \in 1 .. Len(q) /\ t[i] = CompareHalf(q[t[i].at])
            /\ IsCmpJump(q[t[i].at])
      /\ \A i \in 1 .. m + n : i \notin 1 .. m => t[i] = s[i - m]
  BY <1>2 DEF Joins
<1>5. \A k \in 1 .. n : /\ s[k].at \in 1 .. Len(q) /\ s[k] = q[s[k].at]
                        /\ EndsLoop(s[k]) => k = n
  BY <1>1 DEF Arranges
<1>6. \A k \in 1 .. n : /\ ~s[k].part1
                        /\ IsCompare(s[k]) \/ IsCmpJump(s[k]) => ~s[k].dotnew
  BY <1>5 DEF Entries, PredicatesApart
<1>6a. \A i \in 1 .. m : t[i].dotnew = FALSE
  <2>1. ASSUME NEW k \in 1 .. Len(q), IsCmpJump(q[k])
        PROVE  CompareHalf(q[k]).dotnew = FALSE
    <3>1. q[k] \in Plain /\ ~q[k].dotnew
      BY <2>1, ElementOfSeq DEF PredicatesApart
    <3>2. q[k].dotnew = FALSE
      BY <3>1 DEF Plain
    <3>3. QED
      BY <3>1, <3>2, CompareHalfIs DEF Instr
  <2>2. ASSUME NEW i \in 1 .. m
        PROVE  t[i].dotnew = FALSE
    <3>1. /\ t[i].at \in 1 .. Len(q) /\ IsCmpJump(q[t[i].at])
          /\ t[i] = CompareHalf(q[t[i].at])
      BY <1>4
    <3>2. CompareHalf(q[t[i].at]).dotnew = FALSE
      BY <2>1, <3>1
    <3>3. QED
      BY <3>1, <3>2
  <2>3. QED
    BY <2>2
<1> HIDE DEF n
\* What is in front is a compare, and nothing else.
<1>7. \A i \in 1 .. m :
         /\ ~IsMemory(t[i]) /\ ~IsBranch(t[i]) /\ ~ReadsNew(t[i]) /\ ~EndsLoop(t[i])
         /\ ~WritesReg(t[i]) /\ ~IsNewValue(t[i])
  BY <1>4, <1>6a DEF IsCmpJump, IsMemory, IsStore, IsLoad, IsBranch, ReadsNew, EndsLoop, WritesReg, IsNewValue
<1>8. ASSUME NEW i \in 1 .. m + n, i \notin 1 .. m
      PROVE  i - m \in 1 .. n /\ t[i] = s[i - m]
  BY <1>4, <1>8
<1>9. ASSUME NEW i \in 1 .. m + n
      PROVE  t[i].at \in 1 .. Len(q)
  <2>1. CASE i \in 1 .. m
    BY <1>4, <2>1
  <2>2. CASE i \notin 1 .. m
    BY <1>5, <1>8, <2>2
  <2>3. QED
    BY <2>1, <2>2
<1>10. ASSUME NEW C, InOrder(s, C), \A i \in 1 .. m : t[i] \notin C
       PROVE  InOrder(t, C)
  <2>1. ASSUME NEW i \in 1 .. m + n, NEW j \in 1 .. m + n, i < j, t[i] \in C, t[j] \in C
        PROVE  t[i].at < t[j].at
    <3>1. i \notin 1 .. m /\ j \notin 1 .. m
      BY <1>10, <2>1
    <3>2. /\ i - m \in 1 .. n /\ t[i] = s[i - m]
          /\ j - m \in 1 .. n /\ t[j] = s[j - m]
      BY <1>8, <3>1
    <3>3. i - m < j - m
      BY <1>4, <2>1
    <3>4. QED
      BY <1>10, <2>1, <3>2, <3>3 DEF InOrder, n
  <2>2. QED
    BY <1>4, <2>1 DEF InOrder
<1>11. FitsSlots(q) => InOrder(t, MemoryInsns) /\ InOrder(t, BranchInsns)
  BY <1>1, <1>7, <1>10 DEF MemoryInsns, BranchInsns
<1>12. \A at \in 1 .. Len(q), part1 \in BOOLEAN :
          Cardinality(Copies(t, at, part1))
            = IF IsExt(q[at]) \/ (part1 /\ ~IsCmpJump(q[at])) THEN 0 ELSE 1
  BY <1>1, <1>2, JoinsCopies DEF n
<1>13. ASSUME NEW i \in 1 .. m + n, NEW j \in 1 .. m + n, WritesPred(t[i]), ReadsNew(t[j])
       PROVE  i < j
  <2>1. j \notin 1 .. m
    BY <1>7, <1>13
  <2>2. CASE i \in 1 .. m
    BY <1>4, <2>1, <2>2
  <2>3. CASE i \notin 1 .. m
    <3> DEFINE k == i - m
               l == j - m
    <3>1. k \in 1 .. n /\ t[i] = s[k] /\ l \in 1 .. n /\ t[j] = s[l]
      BY <1>8, <2>1, <2>3
    <3> HIDE DEF k, l
    <3>2. IsCompare(s[k])
      BY <1>6, <1>13, <3>1 DEF WritesPred
    <3>3. ~IsCompare(s[l])
      BY <1>6, <1>13, <3>1 DEF ReadsNew, IsCompare, IsCmpJump
    <3>4. ~ (l < k) /\ k # l
      BY <1>1, <3>1, <3>2, <3>3 DEF ComparesFirst, n
    <3>5. k < l
      BY <1>4, <3>1, <3>4
    <3>6. QED
      BY <1>4, <3>5 DEF k, l
  <2>4. QED
    BY <2>2, <2>3
<1>14. ASSUME NEW i \in 1 .. m + n, NEW j \in 1 .. m + n,
              WritesReg(t[i]), IsNewValue(t[j]), t[i].at < t[j].at
       PROVE  i < j
  <2>1. i \notin 1 .. m /\ j \notin 1 .. m
    BY <1>7, <1>14
  <2>2. i - m \in 1 .. n /\ t[i] = s[i - m] /\ j - m \in 1 .. n /\ t[j] = s[j - m]
    BY <1>8, <2>1
  <2>3. i - m < j - m
    BY <1>1, <1>14, <2>2 DEF Behind, n
  <2>4. QED
    BY <1>4, <2>3
<1>15. ASSUME NEW i \in 1 .. m + n, EndsLoop(t[i])
       PROVE  i = m + n
  <2>1. i \notin 1 .. m
    BY <1>7, <1>15
  <2>2. i - m \in 1 .. n /\ t[i] = s[i - m]
    BY <1>8, <2>1
  <2>3. i - m = n
    BY <1>5, <1>15, <2>2
  <2>4. QED
    BY <1>4, <2>3
<1>16. Prepared(t, q)
  BY <1>3, <1>4, <1>9, <1>11, <1>12, <1>13, <1>14, <1>15 DEF Prepared
<1>17. QED
  BY <1>16 DEF t

\* What the passes move about is no longer than the packet.
LEMMA ArrangesFits ==
    ASSUME NEW s, NEW q, Arranges(s, q), q \in Seq(Instr)
    PROVE  Len(s) <= Len(q)
<1> DEFINE f == [k \in 1 .. Len(s) |-> s[k].at]
<1>1. Len(s) \in Nat /\ Len(q) \in Nat
  BY LenProperties DEF Arranges
<1>2. /\ f \in [1 .. Len(s) -> 1 .. Len(q)]
      /\ \A k, l \in 1 .. Len(s) : f[k] = f[l] => k = l
  BY DEF Arranges
<1> HIDE DEF f
<1>3. /\ IsFiniteSet(1 .. Len(q)) /\ Cardinality(1 .. Len(q)) = Len(q)
      /\ Cardinality(1 .. Len(s)) = Len(s)
  BY <1>1, CardinalityUpTo
<1>4. Cardinality(1 .. Len(s)) <= Cardinality(1 .. Len(q))
  BY <1>2, <1>3, OneToOne
<1>5. QED
  BY <1>3, <1>4

\* What the split makes of a packet that an assembler makes fits.
LEMMA DecodedFits ==
    ASSUME NEW q, NEW s, Decoded(q), Arranges(s, q)
    PROVE  Len(SplitCmpJump(s)) <= INSTRUCTIONS_MAX
<1> DEFINE h == CompareHalves(s)
           m == Len(h)
           n == Len(s)
<1>1. Halves(h, n, s)
  BY CompareHalvesIs
<1>2. Joins(SplitCmpJump(s), m, n, s, q)
  BY SplitJoins DEF Decoded
<1> HIDE DEF h
<1>3. n <= 5 /\ m <= 2
  BY <1>1, PreparedFits
<1> HIDE DEF m, n
<1>4. QED
  BY <1>2, <1>3 DEF Joins, INSTRUCTIONS_MAX

-----------------------------------------------------------------------------
(* The packet comes together. *)

LEMMA AppendIs ==
    ASSUME NEW S, NEW s \in Seq(S), NEW e \in S
    PROVE  /\ Append(s, e) \in Seq(S) /\ Len(s) \in Nat /\ Len(Append(s, e)) = Len(s) + 1
           /\ Append(s, e)[Len(s) + 1] = e
           /\ \A i \in 1 .. Len(s) : Append(s, e)[i] = s[i]
BY LenProperties, AppendProperties

LEMMA NothingDecoded == Entries(<< >>)
<1>1. << >> \in Seq(Instr) /\ Len(<< >>) = 0 /\ 1 .. 0 = {}
  OBVIOUS
<1>2. QED
  BY <1>1 DEF Entries

\* One instruction more.
LEMMA AppendEntries ==
    ASSUME NEW q, Entries(q), \A i \in 1 .. Len(q) : ~EndsLoop(q[i]),
           NEW e \in Instr, e.at = Len(q) + 1, ~e.part1,
           EndsInExtender(q) => ~IsExt(e)
    PROVE  Entries(Append(q, e))
<1> DEFINE n == Len(q)
           t == Append(q, e)
<1>1. q \in Seq(Instr)
  BY DEF Entries
<1>2. /\ t \in Seq(Instr) /\ n \in Nat /\ Len(t) = n + 1 /\ t[n + 1] = e
      /\ \A i \in 1 .. n : t[i] = q[i]
  BY <1>1, AppendIs
<1> HIDE DEF t
<1>3. ASSUME NEW i \in 1 .. n
      PROVE  /\ t[i].at = i /\ ~t[i].part1 /\ ~EndsLoop(t[i])
             /\ IsExt(t[i]) => ~IsExt(t[i + 1])
  <2>1. t[i] = q[i] /\ q[i].at = i /\ ~q[i].part1 /\ ~EndsLoop(q[i])
    BY <1>2 DEF Entries
  <2>2. ASSUME IsExt(q[i])
        PROVE  ~IsExt(t[i + 1])
    <3>1. CASE i < n
      <4>1. i + 1 \in 1 .. n /\ ~IsExt(q[i + 1])
        BY <1>2, <2>2, <3>1 DEF Entries
      <4>2. QED
        BY <1>2, <4>1
    <3>2. CASE ~ (i < n)
      <4>1. i = n
        BY <1>2, <3>2
      <4>2. q # << >>
        BY <1>2, <4>1
      <4>3. QED
        BY <1>2, <2>2, <4>1, <4>2 DEF EndsInExtender
    <3>3. QED
      BY <3>1, <3>2
  <2>3. QED
    BY <2>1, <2>2
<1>4. \A i \in 1 .. n + 1 : i = n + 1 \/ (i \in 1 .. n /\ i < n + 1)
  BY <1>2
<1> HIDE DEF n
<1>5. ASSUME NEW i \in 1 .. n + 1
      PROVE  /\ t[i].at = i /\ ~t[i].part1
             /\ EndsLoop(t[i]) => i = n + 1
             /\ IsExt(t[i]) /\ i < n + 1 => ~IsExt(t[i + 1])
  <2>1. CASE i \in 1 .. n
    BY <1>3, <2>1
  <2>2. CASE i = n + 1
    <3>1. e.at = n + 1
      BY DEF n
    <3>2. ~ (n + 1 < n + 1)
      BY <1>2
    <3>3. QED
      BY <1>2, <2>2, <3>1, <3>2
  <2>3. QED
    BY <1>4, <2>1, <2>2
<1>6. Entries(t)
  BY <1>2, <1>5 DEF Entries
<1>7. QED
  BY <1>6 DEF t

LEMMA AppendApart ==
    ASSUME NEW q, PredicatesApart(q), NEW e \in Plain,
           IsCompare(e) \/ IsCmpJump(e) => ~e.dotnew
    PROVE  PredicatesApart(Append(q, e))
<1> DEFINE t == Append(q, e)
<1>1. q \in Seq(Plain)
  BY DEF PredicatesApart
<1>2. /\ t \in Seq(Plain) /\ Len(q) \in Nat /\ Len(t) = Len(q) + 1
      /\ t[Len(q) + 1] = e /\ \A i \in 1 .. Len(q) : t[i] = q[i]
  BY <1>1, AppendIs
<1> HIDE DEF t
<1>3. \A i \in 1 .. Len(t) : i = Len(q) + 1 \/ i \in 1 .. Len(q)
  BY <1>2
<1>4. ASSUME NEW i \in 1 .. Len(t)
      PROVE  IsCompare(t[i]) \/ IsCmpJump(t[i]) => ~t[i].dotnew
  BY <1>2, <1>3 DEF PredicatesApart
<1>5. PredicatesApart(t)
  BY <1>2, <1>4 DEF PredicatesApart
<1>6. QED
  BY <1>5 DEF t

-----------------------------------------------------------------------------
(* The passes, one after the other. *)

\* What each pass finds.
IInv ==
    /\ stage \in {"decode", "duplex", "extenders", "stores", "compares", "newvalue",
                  "split", "done", "overrun"}
    /\ Entries(src) /\ PredicatesApart(src) /\ Len(src) <= MaxWords + 2
    /\ stage = "decode" => Len(src) <= MaxWords
    /\ stage = "duplex" => Len(src) <= MaxWords + 1
    /\ IF stage \in {"decode", "duplex"}
       THEN insns = << >> /\ \A i \in 1 .. Len(src) : ~EndsLoop(src[i])
       ELSE Complete(src)
    /\ stage = "extenders" => insns = src
    /\ stage \in {"stores", "compares", "newvalue"} => Shuffled(insns, src)
    /\ stage = "newvalue" => ComparesFirst(insns)
    /\ stage \in {"split", "overrun"} => Settled(insns, src)
    /\ stage = "overrun" => ~Decoded(src)
    /\ stage = "done" => Prepared(insns, src)

LEMMA InsnIs ==
    ASSUME NEW kind \in Kinds \cup SubKinds, NEW i \in Nat
    PROVE  /\ Insn(kind, i) \in Plain /\ Insn(kind, i) \in Instr
           /\ Insn(kind, i).op = kind.op /\ Insn(kind, i).dotnew = kind.dotnew
           /\ Insn(kind, i).at = i /\ Insn(kind, i).part1 = FALSE
           /\ ~EndsLoop(Insn(kind, i))
           /\ IsCompare(Insn(kind, i)) \/ IsCmpJump(Insn(kind, i)) => ~Insn(kind, i).dotnew
           /\ kind \in SubKinds => ~IsExt(Insn(kind, i))
BY PreparationAssumption DEF Insn, Instr, Plain, Ops, SubOps, EndsLoop, IsCompare, IsCmpJump, IsExt

LEMMA InitIInv == Init => IInv
<1>1. ASSUME Init
      PROVE  IInv
  <2>1. src = << >> /\ insns = << >> /\ stage = "decode" /\ Len(src) = 0 /\ 1 .. 0 = {}
    BY <1>1 DEF Init
  <2>2. MaxWords \in Nat /\ 0 <= MaxWords /\ 0 <= MaxWords + 2
    BY PreparationAssumption
  <2>3. Entries(src) /\ PredicatesApart(src)
    BY <2>1, NothingDecoded DEF PredicatesApart
  <2>4. QED
    BY <2>1, <2>2, <2>3 DEF IInv
<1>2. QED
  BY <1>1

\* One more word, or half of one.
LEMMA AppendInsn ==
    ASSUME NEW q, Entries(q), PredicatesApart(q), \A i \in 1 .. Len(q) : ~EndsLoop(q[i]),
           NEW kind \in Kinds \cup SubKinds,
           EndsInExtender(q) => ~IsExt(Insn(kind, Len(q) + 1))
    PROVE  LET t == Append(q, Insn(kind, Len(q) + 1))
           IN  /\ Entries(t) /\ PredicatesApart(t) /\ Len(q) \in Nat /\ Len(t) = Len(q) + 1
               /\ \A i \in 1 .. Len(t) : ~EndsLoop(t[i])
               /\ EndsInExtender(t) => IsExt(Insn(kind, Len(q) + 1))
<1> DEFINE n == Len(q)
           e == Insn(kind, n + 1)
           t == Append(q, e)
<1>1. q \in Seq(Instr) /\ n \in Nat /\ n + 1 \in Nat
  BY LenProperties DEF Entries
<1>2. /\ e \in Plain /\ e \in Instr /\ e.at = n + 1 /\ ~e.part1 /\ ~EndsLoop(e)
      /\ IsCompare(e) \/ IsCmpJump(e) => ~e.dotnew
  BY <1>1, InsnIs
<1> HIDE DEF e
<1>3. Entries(t) /\ PredicatesApart(t)
  BY <1>2, AppendEntries, AppendApart DEF e
<1>4. /\ Len(t) = n + 1 /\ t[n + 1] = e
      /\ \A i \in 1 .. n : t[i] = q[i]
  BY <1>1, <1>2, AppendIs
<1> HIDE DEF t
<1>5. \A i \in 1 .. Len(t) : ~EndsLoop(t[i])
  <2>1. \A i \in 1 .. n + 1 : i = n + 1 \/ i \in 1 .. n
    BY <1>1
  <2>2. QED
    BY <1>2, <1>4, <2>1
<1>6. EndsInExtender(t) => IsExt(e)
  BY <1>4 DEF EndsInExtender
<1>7. QED
  BY <1>1, <1>3, <1>4, <1>5, <1>6 DEF t, e

LEMMA DecodeIInv ==
    ASSUME IInv, NEW kind \in Kinds, Decode(kind)
    PROVE  IInv'
<1> DEFINE e == Insn(kind, Len(src) + 1)
<1>1. /\ stage = "decode" /\ Len(src) < MaxWords
      /\ EndsInExtender(src) => kind.op \notin {"ext", "rte"}
      /\ src' = Append(src, e) /\ insns' = insns /\ stage' = stage
  BY DEF Decode
<1>2. /\ Entries(src) /\ PredicatesApart(src) /\ insns = << >>
      /\ \A i \in 1 .. Len(src) : ~EndsLoop(src[i])
  BY <1>1 DEF IInv
<1>3. EndsInExtender(src) => ~IsExt(e)
  BY <1>1 DEF IsExt, Insn
<1> HIDE DEF e
<1>4. /\ Entries(src') /\ PredicatesApart(src') /\ Len(src) \in Nat /\ Len(src') = Len(src) + 1
      /\ \A i \in 1 .. Len(src') : ~EndsLoop(src'[i])
  BY <1>1, <1>2, <1>3, AppendInsn DEF e
<1>5. Len(src') <= MaxWords /\ Len(src') <= MaxWords + 2
  BY <1>1, <1>4, PreparationAssumption
<1>6. QED
  BY <1>1, <1>2, <1>4, <1>5 DEF IInv

LEMMA DecodeDuplexIInv ==
    ASSUME IInv, NEW first \in SubKinds, NEW second \in SubKinds, DecodeDuplex(first, second)
    PROVE  IInv'
<1> DEFINE n == Len(src)
           a == Insn(first, n + 1)
           b == Insn(second, n + 2)
           q == Append(src, a)
<1>1. /\ stage = "decode" /\ n < MaxWords
      /\ src' = src \o <<a, b>> /\ insns' = insns /\ stage' = "duplex"
  BY DEF DecodeDuplex
<1>2. /\ Entries(src) /\ PredicatesApart(src) /\ insns = << >>
      /\ \A i \in 1 .. n : ~EndsLoop(src[i])
  BY <1>1 DEF IInv
<1>3. src \in Seq(Instr) /\ n \in Nat /\ n + 1 \in Nat /\ (n + 1) + 1 = n + 2 /\ n + 2 \in Nat
  BY <1>2, LenProperties DEF Entries
<1>4. ~IsExt(a) /\ ~IsExt(b) /\ a \in Instr /\ b \in Instr
  BY <1>3, InsnIs
<1> HIDE DEF a, b
<1>5. /\ Entries(q) /\ PredicatesApart(q) /\ Len(q) = n + 1
      /\ \A i \in 1 .. Len(q) : ~EndsLoop(q[i])
      /\ ~EndsInExtender(q)
  BY <1>2, <1>4, AppendInsn DEF a
<1>6. src' = Append(q, b)
  <2>1. q \in Seq(Instr) /\ <<a, b>> \in Seq(Instr)
    BY <1>4, <1>5 DEF Entries
  <2>2. QED
    BY <1>1, <1>3, <1>4, <2>1
<1> HIDE DEF q
<1>7. b = Insn(second, Len(q) + 1)
  BY <1>3, <1>5 DEF b
<1>8. /\ Entries(src') /\ PredicatesApart(src') /\ Len(src') = Len(q) + 1
      /\ \A i \in 1 .. Len(src') : ~EndsLoop(src'[i])
  BY <1>5, <1>6, <1>7, AppendInsn
<1>9. Len(src') <= MaxWords + 1 /\ Len(src') <= MaxWords + 2
  BY <1>1, <1>3, <1>5, <1>8, PreparationAssumption
<1>10. QED
  BY <1>1, <1>2, <1>8, <1>9 DEF IInv

LEMMA CopyIInv ==
    ASSUME IInv, NEW loops \in BOOLEAN, Copy(loops)
    PROVE  IInv'
<1> DEFINE n == Len(src)
           e == Endloop(n + 1)
<1>1. /\ stage \in {"decode", "duplex"} /\ src # << >> /\ ~EndsInExtender(src)
      /\ src' = IF loops THEN Append(src, e) ELSE src
      /\ insns' = src' /\ stage' = "extenders"
  BY DEF Copy
<1>2. /\ Entries(src) /\ PredicatesApart(src) /\ n <= MaxWords + 1
      /\ \A i \in 1 .. n : ~EndsLoop(src[i])
  <2>1. n \in Nat
    BY LenProperties DEF IInv, Entries
  <2>2. QED
    BY <1>1, <2>1, PreparationAssumption DEF IInv
<1>3. src \in Seq(Instr) /\ n \in Nat /\ n >= 1 /\ MaxWords \in Nat
  <2>1. src \in Seq(Instr) /\ n \in Nat /\ MaxWords \in Nat
    BY <1>2, LenProperties, PreparationAssumption DEF Entries
  <2>2. n # 0
    BY <1>1, <2>1, EmptySeq
  <2>3. QED
    BY <2>1, <2>2
<1>4. CASE ~loops
  <2>1. src' = src
    BY <1>1, <1>4
  <2>2. Complete(src) /\ n <= MaxWords + 2
    BY <1>1, <1>2, <1>3 DEF Complete, EndsInExtender
  <2>3. QED
    BY <1>1, <1>2, <2>1, <2>2 DEF IInv
<1>5. CASE loops
  <2>1. src' = Append(src, e)
    BY <1>1, <1>5
  <2>2. /\ e \in Plain /\ e \in Instr /\ e.at = n + 1 /\ ~e.part1 /\ ~IsExt(e)
        /\ ~IsCompare(e) /\ ~IsCmpJump(e)
    BY <1>3 DEF Endloop, Insn, Instr, Plain, Ops, IsExt, IsCompare, IsCmpJump
  <2> HIDE DEF e
  <2>3. Entries(src') /\ PredicatesApart(src')
    BY <1>2, <2>1, <2>2, AppendEntries, AppendApart
  <2>4. Len(src') = n + 1 /\ src'[n + 1] = e
    BY <1>3, <2>1, <2>2, AppendIs
  <2>5. Complete(src') /\ Len(src') <= MaxWords + 2
    BY <1>2, <1>3, <2>2, <2>4 DEF Complete
  <2>6. QED
    BY <1>1, <2>3, <2>5 DEF IInv
<1>6. QED
  BY <1>4, <1>5

LEMMA NextIInv == IInv /\ [Next]_vars => IInv'
<1>1. SUFFICES ASSUME IInv, [Next]_vars
               PROVE  IInv'
  OBVIOUS
<1>2. CASE UNCHANGED vars
  <2>1. src' = src /\ insns' = insns /\ stage' = stage
    BY <1>2 DEF vars
  <2>2. QED
    BY <1>1, <2>1 DEF IInv
<1>3. ASSUME NEW kind \in Kinds, Decode(kind)
      PROVE  IInv'
  BY <1>1, <1>3, DecodeIInv
<1>3a. ASSUME NEW first \in SubKinds, NEW second \in SubKinds, DecodeDuplex(first, second)
       PROVE  IInv'
  BY <1>1, <1>3a, DecodeDuplexIInv
<1>4. ASSUME NEW loops \in BOOLEAN, Copy(loops)
      PROVE  IInv'
  BY <1>1, <1>4, CopyIInv
<1>5. CASE Extenders
  <2>1. /\ stage = "extenders" /\ insns' = RemoveExtenders(insns)
        /\ stage' = "stores" /\ src' = src
    BY <1>5 DEF Extenders
  <2>2. /\ insns = src /\ Entries(src) /\ PredicatesApart(src) /\ Complete(src)
        /\ Len(src) <= MaxWords + 2
    BY <1>1, <2>1 DEF IInv
  <2>3. Shuffled(insns', src)
    BY <2>1, <2>2, RemoveExtendersIs, IncreasingIsShuffled
  <2>4. QED
    BY <2>1, <2>2, <2>3 DEF IInv
<1>6. CASE Stores
  <2>1. /\ stage = "stores" /\ insns' = ShuffleStores(insns).insns
        /\ stage' \in {"stores", "compares"} /\ src' = src
    BY <1>6 DEF Stores
  <2>2. /\ Shuffled(insns, src) /\ Entries(src) /\ PredicatesApart(src) /\ Complete(src)
        /\ Len(src) <= MaxWords + 2
    BY <1>1, <2>1 DEF IInv
  <2>3. Shuffled(insns', src)
    BY <2>1, <2>2, ShuffleStoresIs
  <2>4. QED
    BY <2>1, <2>2, <2>3 DEF IInv
<1>7. CASE Compares
  <2>1. /\ stage = "compares" /\ insns' = ShuffleCompares(insns).insns
        /\ stage' = IF ShuffleCompares(insns).changed THEN "stores" ELSE "newvalue"
        /\ src' = src
    BY <1>7 DEF Compares
  <2>2. /\ Shuffled(insns, src) /\ Entries(src) /\ PredicatesApart(src) /\ Complete(src)
        /\ Len(src) <= MaxWords + 2
    BY <1>1, <2>1 DEF IInv
  <2>3. Shuffled(insns', src) /\ (stage' = "newvalue" => ComparesFirst(insns'))
    BY <2>1, <2>2, ShuffleComparesIs
  <2>4. QED
    BY <2>1, <2>2, <2>3 DEF IInv
<1>8. CASE LastMoves
  <2>1. /\ stage = "newvalue" /\ insns' = RteLast(NewValueLast(insns))
        /\ stage' = "split" /\ src' = src
    BY <1>8 DEF LastMoves
  <2>2. /\ Shuffled(insns, src) /\ ComparesFirst(insns)
        /\ Entries(src) /\ PredicatesApart(src) /\ Complete(src)
        /\ Len(src) <= MaxWords + 2
    BY <1>1, <2>1 DEF IInv
  <2>3. Settled(insns', src)
    BY <2>1, <2>2, NewValueLastIs, RteLastIs
  <2>4. QED
    BY <2>1, <2>2, <2>3 DEF IInv
<1>9. CASE Split
  <2>1. /\ stage = "split" /\ insns' = SplitCmpJump(insns)
        /\ stage' = "done" /\ src' = src
        /\ Len(SplitCmpJump(insns)) <= INSTRUCTIONS_MAX
    BY <1>9 DEF Split
  <2>2. /\ Settled(insns, src) /\ Entries(src) /\ PredicatesApart(src) /\ Complete(src)
        /\ Len(src) <= MaxWords + 2
    BY <1>1, <2>1 DEF IInv
  <2>3. Prepared(insns', src)
    BY <2>1, <2>2, SplitIs
  <2>4. QED
    BY <2>1, <2>2, <2>3 DEF IInv
<1>10. CASE Overrun
  <2>1. /\ stage = "split" /\ stage' = "overrun" /\ src' = src /\ insns' = insns
        /\ Len(SplitCmpJump(insns)) > INSTRUCTIONS_MAX
    BY <1>10 DEF Overrun
  <2>2. /\ Settled(insns, src) /\ Entries(src) /\ PredicatesApart(src) /\ Complete(src)
        /\ Len(src) <= MaxWords + 2
    BY <1>1, <2>1 DEF IInv
  <2>3. Arranges(insns, src)
    BY <2>2 DEF Settled
  <2>4. ~Decoded(src)
    <3>1. Len(SplitCmpJump(insns)) \in Nat
      <4>1. Joins(SplitCmpJump(insns), Len(CompareHalves(insns)), Len(insns), insns, src)
        BY <2>2, <2>3, SplitJoins
      <4>2. SplitCmpJump(insns) \in Seq(Instr)
        BY <4>1 DEF Joins
      <4>3. QED
        BY <4>2, LenProperties
    <3>2. ASSUME Decoded(src)
          PROVE  Len(SplitCmpJump(insns)) <= INSTRUCTIONS_MAX
      BY <2>3, <3>2, DecodedFits
    <3>3. QED
      BY <2>1, <3>1, <3>2 DEF INSTRUCTIONS_MAX
  <2>5. QED
    BY <2>1, <2>2, <2>4 DEF IInv
<1>11. QED
  BY <1>1, <1>2, <1>3, <1>3a, <1>4, <1>5, <1>6, <1>7, <1>8, <1>9, <1>10 DEF Next, Passes

LEMMA Inductive == Spec => []IInv
BY InitIInv, NextIInv, PTL DEF Spec

-----------------------------------------------------------------------------
(* The rounds of the shuffle's loop, in the passes one after the other. *)

\* What the copy is, stage by stage, in terms of the rounds, if the packet fits
\* the slots.
Rounds ==
    LET s == RemoveExtenders(src)
    IN  FitsSlots(src) =>
        /\ stage = "stores" => insns \in {s, Stored(s), FirstRound(s), AtRest(s)}
        /\ stage = "compares" => insns \in {Stored(s), AtRest(s)}
        /\ stage = "newvalue" => insns = AtRest(s)
        /\ stage = "split" => insns = RteLast(NewValueLast(AtRest(s)))
        /\ stage = "done" => insns = SplitCmpJump(RteLast(NewValueLast(AtRest(s))))

LEMMA NextRounds == IInv /\ Rounds /\ [Next]_vars => Rounds'
<1> DEFINE s == RemoveExtenders(src)
<1>1. SUFFICES ASSUME IInv, Rounds, [Next]_vars
               PROVE  Rounds'
  OBVIOUS
<1>2. stage \notin {"decode", "duplex"} => Shuffled(s, src)
  BY <1>1, RemoveExtendersIs, IncreasingIsShuffled DEF IInv
<1>3. FitsSlots(src) =>
      /\ stage = "stores" => insns \in {s, Stored(s), FirstRound(s), AtRest(s)}
      /\ stage = "compares" => insns \in {Stored(s), AtRest(s)}
      /\ stage = "newvalue" => insns = AtRest(s)
      /\ stage = "split" => insns = RteLast(NewValueLast(AtRest(s)))
  BY <1>1 DEF Rounds
<1>4. CASE UNCHANGED vars
  BY <1>1, <1>4 DEF Rounds, vars
<1>5. ASSUME NEW kind \in Kinds, Decode(kind)
      PROVE  Rounds'
  BY <1>5 DEF Decode, Rounds
<1>5a. ASSUME NEW first \in SubKinds, NEW second \in SubKinds, DecodeDuplex(first, second)
       PROVE  Rounds'
  BY <1>5a DEF DecodeDuplex, Rounds
<1>6. ASSUME NEW loops \in BOOLEAN, Copy(loops)
      PROVE  Rounds'
  BY <1>6 DEF Copy, Rounds
<1>7. CASE Extenders
  <2>1. insns' = s /\ stage' = "stores" /\ src' = src
    BY <1>1, <1>7 DEF Extenders, IInv
  <2>2. QED
    BY <2>1 DEF Rounds
<1>8. CASE Stores
  <2>1. /\ stage = "stores" /\ insns' = Stored(insns)
        /\ stage' \in {"stores", "compares"} /\ src' = src
    BY <1>8 DEF Stores, Stored
  <2>2. FitsSlots(src) => insns' \in {Stored(s), AtRest(s)}
    BY <1>2, <1>3, <2>1, RoundsSettle DEF AtRest
  <2>3. QED
    BY <2>1, <2>2 DEF Rounds
<1>9. CASE Compares
  <2>1. /\ stage = "compares" /\ insns' = Compared(insns)
        /\ stage' = IF ShuffleCompares(insns).changed THEN "stores" ELSE "newvalue"
        /\ src' = src /\ Shuffled(s, src)
        /\ FitsSlots(src) => insns \in {Stored(s), AtRest(s)}
    BY <1>2, <1>3, <1>9 DEF Compares, Compared
  <2>2. FitsSlots(src) => insns' \in {FirstRound(s), AtRest(s)}
    BY <2>1, RoundsSettle DEF FirstRound
  <2>3. ASSUME FitsSlots(src), ~ShuffleCompares(insns).changed
        PROVE  insns' = AtRest(s)
    <3>1. CASE insns = AtRest(s)
      BY <2>1, <2>3, <3>1, RoundsSettle
    <3>2. CASE insns = Stored(s)
      <4>1. Compared(Stored(s)) = Stored(s)
        BY <2>1, <2>3, <3>2, RoundsSettle, ShuffleComparesIs DEF Compared
      <4>2. AtRest(s) = Stored(s)
        BY <2>1, <2>3, <4>1, RoundsSettle DEF AtRest, FirstRound
      <4>3. QED
        BY <2>1, <3>2, <4>1, <4>2
    <3>3. QED
      BY <2>1, <2>3, <3>1, <3>2
  <2>4. QED
    BY <2>1, <2>2, <2>3 DEF Rounds
<1>10. CASE LastMoves
  BY <1>3, <1>10 DEF LastMoves, Rounds
<1>11. CASE Split
  BY <1>3, <1>11 DEF Split, Rounds
<1>12. CASE Overrun
  BY <1>12 DEF Overrun, Rounds
<1>13. QED
  BY <1>1, <1>4, <1>5, <1>5a, <1>6, <1>7, <1>8, <1>9, <1>10, <1>11, <1>12 DEF Next, Passes

-----------------------------------------------------------------------------
(* Theorems. *)

LEMMA IInvOrders ==
    ASSUME IInv, FitsSlots(src)
    PROVE  /\ \A i, j \in 1 .. Len(insns) :
                 i < j /\ IsMemory(insns[i]) /\ IsMemory(insns[j]) => insns[i].at < insns[j].at
           /\ \A i, j \in 1 .. Len(insns) :
                 i < j /\ IsBranch(insns[i]) /\ IsBranch(insns[j]) => insns[i].at < insns[j].at
<1>1. CASE stage \in {"decode", "duplex"}
  <2>1. Len(insns) = 0 /\ 1 .. 0 = {}
    BY <1>1 DEF IInv
  <2>2. QED
    BY <2>1
<1>2. CASE stage = "extenders"
  <2>1. insns = src /\ \A i \in 1 .. Len(src) : src[i].at = i
    BY <1>2 DEF IInv, Entries
  <2>2. QED
    BY <2>1
<1>3. CASE stage \in {"stores", "compares", "newvalue", "split", "overrun", "done"}
  <2>1. insns \in Seq(Instr)
    BY <1>3 DEF IInv, Shuffled, Settled, Prepared, Arranges
  <2>2. \A i \in 1 .. Len(insns) : insns[i] \in Instr
    BY <2>1, ElementOfSeq
  <2>3. InOrder(insns, BranchInsns)
    BY <1>3 DEF IInv, Shuffled, Settled, Prepared
  <2>4. MemoryTail(insns) \/ InOrder(insns, MemoryInsns)
    BY <1>3 DEF IInv, Shuffled, Settled, Prepared
  <2>5. QED
    BY <2>2, <2>3, <2>4 DEF InOrder, MemoryTail, MemoryInsns, BranchInsns
<1>4. QED
  BY <1>1, <1>2, <1>3 DEF IInv

\* "Don't shuffle stores wrt each other or a load": at no point of the
\* preparation of a packet whose accesses are where the slots want them is one
\* before another that was encoded before it.
THEOREM KeepsMemoryOrder == Spec => []MemoryInOrder
<1>1. IInv => MemoryInOrder
  BY IInvOrders DEF MemoryInOrder, InEncodingOrder
<1>2. QED
  BY Inductive, <1>1, PTL

\* The branches of a packet that fits the slots, whose order is their priority,
\* stay in the order of their encoding, as many as there are.
THEOREM KeepsBranchOrder == Spec => []BranchesInOrder
<1>1. IInv => BranchesInOrder
  BY IInvOrders DEF BranchesInOrder, InEncodingOrder
<1>2. QED
  BY Inductive, <1>1, PTL

\* Every instruction is lifted once, the compare of a compare-jump once more,
\* and no extender is: no pass drops or doubles an instruction.
THEOREM LosesNothing == Spec => []NothingLost
<1>1. IInv => NothingLost
  BY DEF IInv, Prepared, NothingLost, Copies
<1>2. QED
  BY Inductive, <1>1, PTL

\* "Move compares to beginning (for use by .new insns)": everything that writes
\* a predicate is lifted before everything that reads its new value, and a
\* new-value consumer after its producer.
THEOREM PutsProducersFirst == Spec => []ProducersFirst
<1>1. IInv => ProducersFirst
  BY DEF IInv, Prepared, ProducersFirst
<1>2. QED
  BY Inductive, <1>1, PTL

\* "Skip end loops": the endloop stays behind its packet.
THEOREM LeavesEndloop == Spec => []EndloopStaysLast
<1>1. IInv => EndloopStaysLast
  BY DEF IInv, Prepared, EndloopStaysLast
<1>2. QED
  BY Inductive, <1>1, PTL

\* The do-while loop stops with the packet that any number of rounds from as
\* many as there are instructions on would leave: preparing a packet that fits
\* the slots in one step, as the lifter's model does, is what the passes do.
THEOREM PreparesInOneStep == Spec => [](FitsSlots(src) => SameInOneStep)
<1>1. Init => Rounds
  BY DEF Init, Rounds
<1>2. Spec => []Rounds
  BY <1>1, NextRounds, Inductive, PTL DEF Spec
<1>3. IInv /\ Rounds => (FitsSlots(src) => SameInOneStep)
  <2> SUFFICES ASSUME IInv, Rounds, FitsSlots(src), stage = "done"
               PROVE  insns = PreparePacketForLifting(src)
    BY DEF SameInOneStep
  <2> DEFINE s == RemoveExtenders(src)
  <2>1. Shuffled(s, src)
    BY RemoveExtendersIs, IncreasingIsShuffled DEF IInv
  <2>2. insns = SplitCmpJump(RteLast(NewValueLast(AtRest(s))))
    BY DEF Rounds
  <2> HIDE DEF s
  <2>3. ShuffleForExecution(s) = RteLast(NewValueLast(AtRest(s)))
    BY <2>1, ShuffleForExecutionIs
  <2>4. QED
    BY <2>2, <2>3 DEF PreparePacketForLifting, s
<1>4. QED
  BY <1>2, <1>3, Inductive, PTL

\* "2 pairs + loopend": the split writes behind pkt->insn[] for no packet that
\* fits the four slots and has no more than two branches.  For others it does.
THEOREM AssembledPacketsFit == Spec => []AssembledFits
<1>1. IInv => AssembledFits
  BY DEF IInv, Decoded, AssembledFits
<1>2. QED
  BY Inductive, <1>1, PTL

\* Every packet that the decoder makes, of four words with a duplex and an
\* endloop at most, is in order, and the copy that the passes work on holds
\* entries of it, as many as pkt->insn[] has place for until the split writes
\* behind it.
THEOREM TypeCorrect == Spec => []TypeOK
<1>1. ASSUME IInv
      PROVE  TypeOK
  <2>1. /\ stage \in {"decode", "duplex", "extenders", "stores", "compares", "newvalue",
                      "split", "done", "overrun"}
        /\ Len(src) <= MaxWords + 2 /\ Entries(src)
    BY <1>1 DEF IInv
  <2>2. src \in Seq(Instr) /\ \A i \in 1 .. Len(src) : src[i].at = i
    BY <2>1 DEF Entries
  <2>3. Len(src) \in Nat /\ Len(src) <= 6
    BY <2>1, <2>2, LenProperties, PreparationAssumption
  <2>4. (\A i \in 1 .. Len(insns) : insns[i].at \in 1 .. Len(src)) /\ Len(insns) <= INSTRUCTIONS_MAX
    <3>1. CASE stage \in {"decode", "duplex"}
      <4>1. Len(insns) = 0 /\ 1 .. 0 = {}
        BY <1>1, <3>1 DEF IInv
      <4>2. QED
        BY <4>1 DEF INSTRUCTIONS_MAX
    <3>2. CASE stage = "extenders"
      <4>1. insns = src
        BY <1>1, <3>2 DEF IInv
      <4>2. QED
        BY <2>2, <2>3, <4>1 DEF INSTRUCTIONS_MAX
    <3>3. CASE stage \in {"stores", "compares", "newvalue", "split", "overrun"}
      <4>1. Arranges(insns, src)
        BY <1>1, <3>3 DEF IInv, Shuffled, Settled
      <4>2. Len(insns) <= Len(src) /\ Len(insns) \in Nat
        BY <2>2, <4>1, ArrangesFits, LenProperties DEF Arranges
      <4>3. Len(insns) <= INSTRUCTIONS_MAX
        BY <2>3, <4>2 DEF INSTRUCTIONS_MAX
      <4>4. QED
        BY <4>1, <4>3 DEF Arranges
    <3>4. CASE stage = "done"
      BY <1>1, <3>4 DEF IInv, Prepared
    <3>5. QED
      BY <2>1, <3>1, <3>2, <3>3, <3>4
  <2>5. QED
    BY <2>1, <2>2, <2>4 DEF TypeOK
<1>2. QED
  BY Inductive, <1>1, PTL
=============================================================================
