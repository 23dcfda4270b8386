---------------------------- MODULE Lifter_proofs ---------------------------
(***************************************************************************)
(* The lifter: what it keeps to for every legal packet, and that it does   *)
(* what the packet does for those that its technique covers.               *)
(***************************************************************************)
EXTENDS Lifter, Prepare_proofs

-----------------------------------------------------------------------------
(* The prepared packet. *)

LEMMA LegalDecoded ==
    ASSUME NEW q \in Seq(Instruction), q # << >>, Legal(q)
    PROVE  Decoded(q) /\ Complete(q)
<1>1. q \in Seq(Instr) /\ Len(q) \in Nat /\ Len(q) >= 1
  <2>1. Instruction \subseteq Instr
    BY DEF Instr
  <2>2. q \in Seq(Instr)
    BY <2>1
  <2>3. Len(q) \in Nat /\ Len(q) # 0
    BY EmptySeq, LenProperties
  <2>4. QED
    BY <2>2, <2>3
<1>2. \A i \in 1 .. Len(q) : q[i] \in Instruction
  BY ElementOfSeq
<1>3. \A x \in Instruction : ~IsExt(x)
  BY DEF Instruction, IsExt
<1>4. \A i \in 1 .. Len(q) : ~IsExt(q[i])
  BY <1>2, <1>3
<1>5. /\ \A i \in 1 .. Len(q) : q[i].at = i /\ ~q[i].part1
      /\ \A i \in 1 .. Len(q) : EndsLoop(q[i]) => i = Len(q)
      /\ FitsSlots(q) /\ FewBranches(q)
  BY DEF Legal, LoopsApart
<1>6. Decoded(q)
  <2>1. \A i \in 1 .. Len(q) : i < Len(q) => ~IsExt(q[i])
    BY <1>4
  <2>2. QED
    BY <1>1, <1>4, <1>5 DEF Decoded, Entries
<1>7. Complete(q)
  BY <1>1, <1>4 DEF Complete
<1>8. QED
  BY <1>6, <1>7

\* The prepared packet is a settled one with the compares of its compare-jumps
\* in front.
LEMMA PreparePacketIs ==
    ASSUME NEW q \in Seq(Instruction), q # << >>, Legal(q)
    PROVE  \E s, m : /\ Settled(s, q) /\ Len(s) \in 1 .. 5 /\ m \in 0 .. 2
                     /\ Joins(PreparePacketForLifting(q), m, Len(s), s, q)
<1> DEFINE r == RemoveExtenders(q)
           s == RteLast(NewValueLast(AtRest(r)))
<1>1. Decoded(q) /\ Entries(q) /\ FitsSlots(q) /\ Complete(q)
  BY LegalDecoded DEF Decoded
<1>2. Shuffled(r, q)
  BY <1>1, RemoveExtendersIs, IncreasingIsShuffled
<1>3. ShuffleForExecution(r) = s
  BY <1>1, <1>2, ShuffleForExecutionIs
<1>4. Shuffled(AtRest(r), q) /\ Compared(AtRest(r)) = AtRest(r)
  BY <1>1, <1>2, RoundsSettle
<1>5. ComparesFirst(AtRest(r))
  BY <1>1, <1>4, ShuffleComparesIs DEF Compared
<1>6. Settled(s, q)
  BY <1>1, <1>4, <1>5, NewValueLastIs, RteLastIs
<1>7. PreparePacketForLifting(q) = SplitCmpJump(s)
  BY <1>3 DEF PreparePacketForLifting
<1> HIDE DEF s
<1>8. Arranges(s, q)
  BY <1>6 DEF Settled
<1>9. PICK m \in 0 .. 2 : Joins(SplitCmpJump(s), m, Len(s), s, q)
  <2> DEFINE h == CompareHalves(s)
             k == Len(h)
  <2>1. Halves(h, Len(s), s)
    BY <1>1, <1>8, CompareHalvesIs
  <2>2. Joins(SplitCmpJump(s), k, Len(s), s, q)
    BY <1>1, <1>8, SplitJoins
  <2> HIDE DEF h
  <2>3. k <= 2
    BY <1>1, <1>8, <2>1, PreparedFits
  <2> HIDE DEF k
  <2>3a. k \in Nat
    BY <2>2 DEF Joins
  <2>4. k \in 0 .. 2
    BY <2>3, <2>3a
  <2>5. QED
    BY <2>2, <2>4
<1>10. Len(s) \in 1 .. 5
  <2>1. Len(s) <= 5
    BY <1>1, <1>8, CompareHalvesIs, PreparedFits
  <2>2. s \in Seq(Instr)
    BY <1>8 DEF Arranges
  <2>3. Len(s) >= 1
    BY <1>8 DEF Arranges
  <2>4. Len(s) \in Nat
    BY <2>2, LenProperties
  <2>5. \A k \in Nat : k >= 1 /\ k <= 5 => k \in 1 .. 5
    OBVIOUS
  <2>6. QED
    BY <2>1, <2>3, <2>4, <2>5
<1>11. QED
  BY <1>6, <1>7, <1>9, <1>10

\* It has the instructions of the packet, each once, and compares that do not
\* leave the packet; it fits the numbers of the flags.
LEMMA PreparedPacket ==
    ASSUME NEW q \in Seq(Instruction), q # << >>, Legal(q)
    PROVE  LET t == PreparePacketForLifting(q)
           IN  /\ Len(t) \in 1 .. 7
               /\ \A i \in 1 .. Len(t) : t[i] \in Instruction
               /\ \A i \in 1 .. Len(t) : ~t[i].part1 => \E k \in 1 .. Len(q) : t[i] = q[k]
               /\ \A k \in 1 .. Len(q) : ~q[k].part1 /\ \E i \in 1 .. Len(t) : t[i] = q[k]
<1> DEFINE t == PreparePacketForLifting(q)
<1>1. PICK s, m : /\ Settled(s, q) /\ Len(s) \in 1 .. 5 /\ m \in 0 .. 2
                  /\ Joins(t, m, Len(s), s, q)
  BY PreparePacketIs
<1> HIDE DEF t
<1> DEFINE len == Len(s)
<1>2. len \in 1 .. 5
  BY <1>1
<1>3. \A k \in 1 .. Len(q) : q[k] \in Instruction /\ ~q[k].part1 /\ ~IsExt(q[k])
  <2>1. \A k \in 1 .. Len(q) : q[k] \in Instruction
    BY ElementOfSeq
  <2>2. \A x \in Instruction : ~IsExt(x)
    BY DEF Instruction, IsExt
  <2>3. \A k \in 1 .. Len(q) : ~q[k].part1
    BY DEF Legal
  <2>4. QED
    BY <2>1, <2>2, <2>3
<1>4. /\ \A k \in 1 .. len : s[k].at \in 1 .. Len(q) /\ s[k] = q[s[k].at]
      /\ \A k \in 1 .. Len(q) : ~IsExt(q[k]) => \E i \in 1 .. len : s[i].at = k
  BY <1>1 DEF Settled, Arranges
<1>5. /\ Len(t) = m + len
      /\ \A i \in 1 .. m + len : i \in 1 .. m \/ i - m \in 1 .. len
      /\ \A i \in 1 .. m :
            /\ t[i].part1 = TRUE /\ t[i].at \in 1 .. Len(q)
            /\ t[i] = CompareHalf(q[t[i].at])
      /\ \A i \in 1 .. m + len : i \notin 1 .. m => t[i] = s[i - m]
      /\ \A j \in 1 .. len : m + j \in 1 .. m + len /\ t[m + j] = s[j]
  BY <1>1 DEF Joins
<1> HIDE DEF len
<1>6. Len(t) \in 1 .. 7
  BY <1>1, <1>2, <1>5
<1>7. ASSUME NEW i \in 1 .. Len(t)
      PROVE  t[i] \in Instruction /\ (~t[i].part1 => \E k \in 1 .. Len(q) : t[i] = q[k])
  <2>1. CASE i \in 1 .. m
    <3>1. /\ t[i].part1 = TRUE /\ t[i].at \in 1 .. Len(q)
          /\ t[i] = CompareHalf(q[t[i].at])
      BY <1>5, <2>1
    <3>2. q[t[i].at] \in Instruction
      BY <1>3, <3>1
    <3>3. CompareHalf(q[t[i].at]) \in Instruction
      BY <3>2, CompareHalfIs DEF Instr
    <3>4. QED
      BY <3>1, <3>3
  <2>2. CASE i \notin 1 .. m
    <3>1. i - m \in 1 .. len /\ t[i] = s[i - m]
      BY <1>5, <2>2
    <3>2. s[i - m].at \in 1 .. Len(q) /\ s[i - m] = q[s[i - m].at]
      BY <1>4, <3>1
    <3>3. QED
      BY <1>3, <3>1, <3>2
  <2>3. QED
    BY <2>1, <2>2
<1>8. ASSUME NEW k \in 1 .. Len(q)
      PROVE  ~q[k].part1 /\ \E i \in 1 .. Len(t) : t[i] = q[k]
  <2>1. PICK j \in 1 .. len : s[j].at = k
    BY <1>3, <1>4
  <2>2. m + j \in 1 .. Len(t) /\ t[m + j] = q[k]
    BY <1>4, <1>5, <2>1
  <2>3. QED
    BY <1>3, <2>2
<1>9. QED
  BY <1>6, <1>7, <1>8 DEF t
-----------------------------------------------------------------------------
(* The first of the values an instruction computes with. *)

LEMMA FlattenWalk ==
    ASSUME NEW seqs, Len(seqs) \in Nat, Len(seqs) >= 1
    PROVE  \E walk : /\ walk[1] = seqs[1]
                     /\ \A i \in 2 .. Len(seqs) : walk[i] = walk[i - 1] \o seqs[i]
                     /\ FlattenSeq(seqs) = walk[Len(seqs)]
<1> DEFINE len == Len(seqs)
           Step(g, i) == IF i = 1 THEN seqs[i] ELSE g[i - 1] \o seqs[i]
           Unfolds(g, m) == g = [i \in 1 .. m |-> Step(g, i)]
           Defined == {m \in 0 .. len : \E g : Unfolds(g, m)}
           walk[i \in 1 .. len] == IF i = 1 THEN seqs[i] ELSE walk[i - 1] \o seqs[i]
<1>1. FlattenSeq(seqs) = walk[len]
  BY DEF FlattenSeq
<1>2. walk = CHOOSE g : Unfolds(g, len)
  OBVIOUS
<1> HIDE DEF len, walk
<1>3. 0 \in Defined
  <2>1. Unfolds([i \in 1 .. 0 |-> 0], 0)
    OBVIOUS
  <2>2. 0 \in 0 .. len
    BY DEF len
  <2> HIDE DEF Unfolds
  <2>3. QED
    BY <2>1, <2>2
<1>4. ASSUME NEW m \in 1 .. len, m - 1 \in Defined
      PROVE  m \in Defined
  <2>1. PICK g : Unfolds(g, m - 1)
    BY <1>4
  <2> DEFINE h == [i \in 1 .. m |-> IF i = m THEN Step(g, m) ELSE g[i]]
  <2>2. ASSUME NEW i \in 1 .. m
        PROVE  h[i] = Step(h, i)
    <3>1. CASE i = m
      BY <3>1
    <3>2. CASE i # m
      <4>1. i \in 1 .. m - 1
        BY <3>2
      <4>2. h[i] = g[i]
        BY <3>2
      <4>3. g[i] = Step(g, i)
        <5> HIDE DEF Step, h
        <5> QED BY <2>1, <4>1
      <4>4. i = 1 \/ h[i - 1] = g[i - 1]
        BY <4>1
      <4>5. QED
        BY <4>2, <4>3, <4>4
    <3>3. QED
      BY <3>1, <3>2
  <2>3. Unfolds(h, m)
    BY <2>2
  <2>4. m \in 0 .. len
    BY DEF len
  <2> HIDE DEF Unfolds
  <2>5. QED
    BY <2>3, <2>4
<1>5. \E g : Unfolds(g, len)
  <2>1. len \in 0 .. len /\ len \in Nat
    BY DEF len
  <2>2. 0 .. len \subseteq Defined
    <3> HIDE DEF Defined
    <3> QED BY <1>3, <1>4, <2>1, InductionUpTo
  <2>3. QED
    BY <2>1, <2>2
<1>6. Unfolds(walk, len)
  BY <1>2, <1>5
<1>7. walk[1] = seqs[1] /\ \A i \in 2 .. len : walk[i] = walk[i - 1] \o seqs[i]
  <2>1. 1 \in 1 .. len /\ 2 .. len \subseteq 1 .. len /\ \A i \in 2 .. len : i # 1
    BY DEF len
  <2>2. \A i \in 1 .. len : walk[i] = IF i = 1 THEN seqs[i] ELSE walk[i - 1] \o seqs[i]
    BY <1>6
  <2>3. QED
    BY <2>1, <2>2
<1>8. QED
  BY <1>1, <1>7 DEF len

LEMMA FlattenFirst ==
    ASSUME NEW S, NEW seqs, Len(seqs) \in Nat, Len(seqs) >= 1,
           \A i \in 1 .. Len(seqs) : seqs[i] \in Seq(S), Len(seqs[1]) >= 1
    PROVE  /\ FlattenSeq(seqs) \in Seq(S)
           /\ Len(FlattenSeq(seqs)) >= 1
           /\ FlattenSeq(seqs)[1] = seqs[1][1]
<1> DEFINE len == Len(seqs)
<1>1. PICK w : /\ w[1] = seqs[1]
               /\ \A i \in 2 .. len : w[i] = w[i - 1] \o seqs[i]
               /\ FlattenSeq(seqs) = w[len]
  BY FlattenWalk
<1> DEFINE First(v) == v \in Seq(S) /\ Len(v) >= 1 /\ v[1] = seqs[1][1]
           T == {i \in 0 .. len : i = 0 \/ First(w[i])}
<1>2. 0 \in T
  OBVIOUS
<1>3. First(w[1])
  BY <1>1
<1>4. ASSUME NEW i \in 1 .. len, i - 1 \in T
      PROVE  i \in T
  <2>1. CASE i = 1
    BY <1>3, <2>1
  <2>2. CASE i # 1
    <3>1. i \in 2 .. len /\ i - 1 # 0
      BY <2>2
    <3>2. First(w[i - 1]) /\ w[i] = w[i - 1] \o seqs[i]
      BY <1>1, <1>4, <3>1
    <3> DEFINE u == w[i - 1]
               v == seqs[i]
    <3>3. u \in Seq(S) /\ v \in Seq(S) /\ w[i] = u \o v /\ Len(u) >= 1 /\ u[1] = seqs[1][1]
      BY <3>2
    <3> HIDE DEF u, v
    <3>4. /\ u \o v \in Seq(S) /\ Len(u \o v) = Len(u) + Len(v)
          /\ Len(u) \in Nat /\ Len(v) \in Nat
          /\ \A k \in 1 .. Len(u) + Len(v) : (u \o v)[k] = IF k <= Len(u) THEN u[k] ELSE v[k - Len(u)]
      BY <3>3, ConcatProperties, LenProperties
    <3>5. 1 \in 1 .. Len(u) + Len(v) /\ Len(u) + Len(v) >= 1
      BY <3>3, <3>4
    <3>6. First(w[i])
      BY <3>3, <3>4, <3>5
    <3> HIDE DEF First
    <3>7. QED
      BY <3>6
  <2>3. QED
    BY <2>1, <2>2
<1>5. 0 .. len \subseteq T
  <2> HIDE DEF T
  <2> QED BY <1>2, <1>4, InductionUpTo
<1>6. First(w[len])
  <2>1. len \in 0 .. len /\ len # 0
    OBVIOUS
  <2> HIDE DEF First
  <2>2. QED
    BY <1>5, <2>1
<1>7. QED
  BY <1>1, <1>6

-----------------------------------------------------------------------------
(* What the registers and the temporaries hold is never the place of a direct *)
(* target, nor that of the next packet.                                       *)

IsData(v) == v.by[1] \in {"reg", "insn", "one", "zero", "stale"}

Tables(r, t) ==
    /\ DOMAIN r = Registers /\ \A k \in Registers : IsData(r[k])
    /\ DOMAIN t = Temps
    /\ \A k \in Temps : t[k] = <<t[k][1], t[k][2]>> /\ IsData(t[k][1]) /\ IsData(t[k][2])

LEMMA ValuesAreData ==
    /\ IsData(One) /\ IsData(Zero)
    /\ \A r : IsData(Initially(r))
    /\ \A insn, r, args : IsData(Result(insn, r, args))
    /\ \A insn : ~IsData(Target(insn))
    /\ ~IsData(Nowhere.to)
BY DEF IsData, One, Zero, Initially, Result, Target, Nowhere, Value

LEMMA RegistersAreTemps ==
    /\ Registers \subseteq Temps
    /\ \A r \in Pairs : r \in Registers /\ r + 1 \in Registers /\ SourcePair(r) \in Temps
    /\ EA_REG \in Temps
    /\ \A i \in 1 .. 7 : BranchrDest(i) \in Temps /\ BranchTaken(i) \in Temps
BY DEF Temps, Pairs, Registers, SP, FP, LR, SA0, LC0, P0, P3, EA_REG

\* What an operand reads is in the tables.
LEMMA OperandIs ==
    ASSUME NEW t, Tables(regs, t), NEW operand \in Sources
    PROVE  \E a, b : /\ IsData(a) /\ IsData(b)
                     /\ Operand(operand, t) \in {<<a>>, <<a, b>>}
<1>1. CASE operand \in {<<kind, r>> : kind \in {"reg", "rw", "new"}, r \in Registers}
  <2>1. PICK kind \in {"reg", "rw", "new"}, r \in Registers : operand = <<kind, r>>
    BY <1>1
  <2>2. operand[1] = kind /\ operand[2] = r
    BY <2>1
  <2>3. r \in Temps /\ IsData(regs[r]) /\ IsData(t[r][1])
    BY RegistersAreTemps DEF Tables
  <2>4. Operand(operand, t) = <<regs[r]>> \/ Operand(operand, t) = <<t[r][1]>>
    BY <2>2 DEF Operand, Dest
  <2>5. QED
    BY <2>3, <2>4
<1>2. CASE operand \in {<<"pair", r>> : r \in Pairs}
  <2>1. PICK r \in Pairs : operand = <<"pair", r>>
    BY <1>2
  <2>2. operand[1] = "pair" /\ operand[2] = r
    BY <2>1
  <2> DEFINE k == SourcePair(r)
  <2>3. k \in Temps
    BY RegistersAreTemps
  <2> HIDE DEF k
  <2>4. t[k] = <<t[k][1], t[k][2]>> /\ IsData(t[k][1]) /\ IsData(t[k][2])
    BY <2>3 DEF Tables
  <2>5. Operand(operand, t) = t[k]
    BY <2>2 DEF Operand, k
  <2>6. QED
    BY <2>4, <2>5
<1>3. QED
  BY <1>1, <1>2 DEF Sources
-----------------------------------------------------------------------------
(* The inductive invariant. *)

\* The destinations asked for, with their sizes.
Sizes(d) ==
    /\ DOMAIN d \subseteq Registers
    /\ \A r \in DOMAIN d : d[r] = 4 \/ (d[r] = 8 /\ r \in Pairs)

\* Where control goes at the end of the packet.
Gone ==
    \/ next = Nowhere /\ \A i \in 1 .. Len(insns) : ~Goes(i)
    \/ \E i \in 1 .. Len(insns) :
          Goes(i) /\ next = [call |-> insns[i].cof \in {"call", "callr"}, to |-> Goal(i)]

IInv ==
    /\ src \in Fetched
    /\ phase \in {"prepare", "lift", "write_back", "done"}
    /\ phase = "prepare" => insns = << >> /\ n = 1
    /\ phase # "prepare" => insns = PreparePacketForLifting(src)
    /\ n \in 1 .. Len(insns) + 1
    /\ Sizes(dests)
    /\ Tables(regs, temp)
    /\ phase = "done" => Gone
-----------------------------------------------------------------------------
(* The lifter of one instruction. *)

LEMMA OperandsAre ==
    ASSUME NEW insn \in Instruction
    PROVE  /\ Range(insn.from) \subseteq Sources
           /\ Range(insn.to) \subseteq Destinations
<1>1. insn.from \in Seq(Sources) /\ insn.to \in Seq(Destinations)
  BY DEF Instruction
<1>2. QED
  BY <1>1, ElementOfSeq DEF Range

LEMMA SourcesAre ==
    ASSUME NEW insn \in Instruction
    PROVE  /\ insn.from \in Seq(Sources)
           /\ IsMemory(insn) \/ insn.op \in {"jumpr", "endloop"} => insn.from # << >>
           /\ insn.cof \in Branching(insn.op)
<1>1. /\ insn.from \in Seq(Sources) /\ insn.cof \in Branching(insn.op)
      /\ OperandsFit(insn)
  BY DEF Instruction
<1>2. ASSUME insn.op = "jumpr"
      PROVE  insn.from # << >>
  <2>1. PICK r \in Registers : insn.from = << <<"reg", r>> >>
    BY <1>1, <1>2 DEF OperandsFit
  <2>2. QED
    BY <2>1
<1>3. QED
  BY <1>1, <1>2 DEF OperandsFit, EndsLoop

LEMMA PlacesAre ==
    \A d \in Sources \cup Destinations :
        d[2] \in Registers /\ (Wide(d) => d[2] \in Pairs)
<1>1. /\ Pairs \subseteq Registers /\ Predicates \subseteq Registers
      /\ {SP, FP, LC0, SA0} \subseteq Registers
  BY DEF Registers, Pairs, Predicates
<1>2. \A d \in Sources : d[2] \in Registers /\ (Wide(d) => d[2] \in Pairs)
  BY <1>1 DEF Sources, Wide
<1>3. \A d \in Destinations : d[2] \in Registers /\ (Wide(d) => d[2] \in Pairs)
  BY <1>1 DEF Destinations, Wide
<1>4. QED
  BY <1>2, <1>3

LEMMA DeclaredAre ==
    ASSUME NEW insn \in Instruction, NEW d \in Declared(insn)
    PROVE  d[2] \in Registers /\ (Wide(d) => d[2] \in Pairs)
<1>1. CASE d \in Range(insn.to) \cup Range(insn.from)
  BY <1>1, OperandsAre, PlacesAre
<1>2. CASE d = <<"new", insn.guard.r>> /\ insn.guard.new
  <2>1. insn.guard \in {NoGuard} \cup [r : Registers, sense : BOOLEAN, new : BOOLEAN]
    BY DEF Instruction
  <2>2. insn.guard # NoGuard
    BY <1>2 DEF NoGuard
  <2>3. insn.guard.r \in Registers
    BY <2>1, <2>2
  <2>4. QED
    BY <1>2, <2>3 DEF Wide
<1>3. QED
  BY <1>1, <1>2 DEF Declared

LEMMA AddDestsIs ==
    ASSUME Sizes(dests), NEW insn \in Instruction
    PROVE  Sizes(AddDests(insn))
<1> DEFINE more == {d[2] : d \in Declared(insn)}
           d2 == AddDests(insn)
<1>1. more \subseteq Registers
  BY DeclaredAre
<1>2. DOMAIN d2 = DOMAIN dests \cup more
  BY DEF AddDests
<1>3. ASSUME NEW r \in DOMAIN d2
      PROVE  d2[r] = 4 \/ (d2[r] = 8 /\ r \in Pairs)
  <2>1. CASE r \in DOMAIN dests
    <3>1. d2[r] = dests[r]
      BY <2>1 DEF AddDests
    <3>2. QED
      BY <2>1, <3>1 DEF Sizes
  <2>2. CASE r \notin DOMAIN dests /\ \E d \in Declared(insn) : d[2] = r /\ Wide(d)
    <3>1. d2[r] = 8
      BY <1>2, <2>2 DEF AddDests
    <3>2. r \in Pairs
      BY <2>2, DeclaredAre
    <3>3. QED
      BY <3>1, <3>2
  <2>3. CASE r \notin DOMAIN dests /\ ~ \E d \in Declared(insn) : d[2] = r /\ Wide(d)
    BY <1>2, <2>3 DEF AddDests
  <2>4. QED
    BY <2>1, <2>2, <2>3
<1>4. QED
  BY <1>1, <1>2, <1>3 DEF Sizes

LEMMA CopyToTempIs ==
    ASSUME Tables(regs, temp), NEW insn \in Instruction
    PROVE  Tables(regs, CopyToTemp(insn))
<1> DEFINE t == CopyToTemp(insn)
           copied == {Dest(r) : r \in CopiedOnce(insn)}
<1>1. DOMAIN t = Temps
  BY DEF CopyToTemp
<1>2. copied \subseteq Registers
  BY DeclaredAre DEF CopiedOnce, Dest
<1>3. /\ \A k \in Registers : IsData(regs[k])
      /\ \A k \in Temps : /\ temp[k] = <<temp[k][1], temp[k][2]>>
                            /\ IsData(temp[k][1]) /\ IsData(temp[k][2])
  BY DEF Tables
<1>4. ASSUME NEW k \in Temps
      PROVE  \E a, b : t[k] = <<a, b>> /\ IsData(a) /\ IsData(b)
  <2>1. CASE k \in copied
    <3>1. t[k] = <<regs[k], temp[k][2]>>
      BY <2>1 DEF CopyToTemp
    <3>2. QED
      BY <1>2, <1>3, <2>1, <3>1
  <2>2. CASE k \notin copied /\ \E x \in Range(insn.from) : Wide(x) /\ k = SourcePair(x[2])
    <3> DEFINE x == CHOOSE x \in Range(insn.from) : Wide(x) /\ k = SourcePair(x[2])
    <3>1. t[k] = <<regs[x[2]], regs[x[2] + 1]>>
      BY <2>2 DEF CopyToTemp
    <3>2. x \in Range(insn.from) /\ Wide(x)
      BY <2>2
    <3> HIDE DEF x
    <3>3. x[2] \in Pairs
      BY <3>2, OperandsAre, PlacesAre
    <3>4. x[2] \in Registers /\ x[2] + 1 \in Registers
      BY <3>3, RegistersAreTemps
    <3>5. QED
      BY <1>3, <3>1, <3>4
  <2>3. CASE k \notin copied /\ ~ \E x \in Range(insn.from) : Wide(x) /\ k = SourcePair(x[2])
    <3>1. t[k] = temp[k]
      BY <2>3 DEF CopyToTemp
    <3>2. QED
      BY <1>3, <3>1
  <2>4. QED
    BY <2>1, <2>2, <2>3
<1> HIDE DEF t
<1>5. \A k \in Temps : t[k] = <<t[k][1], t[k][2]>> /\ IsData(t[k][1]) /\ IsData(t[k][2])
  BY <1>4
<1>6. Tables(regs, t)
  BY <1>1, <1>5 DEF Tables
<1>7. QED
  BY <1>6 DEF t

\* One temporary is set.
LEMMA SetTemp ==
    ASSUME NEW r, NEW t, Tables(r, t), NEW k \in Temps, NEW a, NEW b, IsData(a), IsData(b)
    PROVE  Tables(r, [t EXCEPT ![k] = <<a, b>>])
BY DEF Tables

LEMMA SetEAIs ==
    ASSUME NEW t, Tables(regs, t), NEW insn \in Instruction
    PROVE  Tables(regs, SetEA(insn, t))
<1>1. CASE IsMemory(insn)
  <2> DEFINE a == Operand(insn.from[1], t)[1]
             b == t[EA_REG][2]
  <2>1. insn.from \in Seq(Sources) /\ insn.from # << >>
    BY <1>1, SourcesAre
  <2>2. insn.from[1] \in Sources
    BY <2>1
  <2>3. IsData(a)
    BY <2>2, OperandIs
  <2>4. EA_REG \in Temps /\ IsData(b)
    BY RegistersAreTemps DEF Tables
  <2>5. SetEA(insn, t) = [t EXCEPT ![EA_REG] = <<a, b>>]
    BY <1>1 DEF SetEA
  <2> HIDE DEF a, b
  <2>6. Tables(regs, [t EXCEPT ![EA_REG] = <<a, b>>])
    BY <2>3, <2>4, SetTemp
  <2>7. QED
    BY <2>5, <2>6
<1>2. CASE ~IsMemory(insn)
  BY <1>2 DEF SetEA
<1>3. QED
  BY <1>1, <1>2

\* The target of an indirect branch comes from a register.
LEMMA TargetIsData ==
    ASSUME NEW t, Tables(regs, t), NEW insn \in Instruction,
           insn.cof \in {"jumpr", "callr", "loop"}
    PROVE  IsData(Values(insn, t)[1])
<1>1. /\ insn.cof \in Branching(insn.op)
      /\ insn.op \in {"jumpr", "endloop"} => insn.from # << >>
      /\ insn.from \in Seq(Sources)
  BY SourcesAre
<1>2. insn.op \in {"jumpr", "endloop"}
  BY <1>1 DEF Branching
<1>3. ~IsMemory(insn) /\ ~IsLoad(insn)
  BY <1>2 DEF IsMemory, IsStore, IsLoad
<1> DEFINE from == insn.from
           read == [k \in 1 .. Len(from) |-> Operand(from[k], t)]
<1>4. from \in Seq(Sources) /\ from # << >>
  BY <1>1, <1>2
<1>5. Values(insn, t) = FlattenSeq(read)
  <2>1. read = [k \in 1 .. Len(insn.from) |->
                   IF k = 1 /\ IsMemory(insn) THEN <<t[EA_REG][1]>> ELSE Operand(insn.from[k], t)]
    BY <1>3
  <2>2. QED
    BY <1>3, <2>1 DEF Values
<1> HIDE DEF from
<1>6. Len(from) \in Nat /\ Len(from) >= 1 /\ \A k \in 1 .. Len(from) : from[k] \in Sources
  <2>1. Len(from) \in Nat /\ Len(from) # 0
    BY <1>4, EmptySeq, LenProperties
  <2>2. QED
    BY <1>4, <2>1, ElementOfSeq
<1>7. Len(read) = Len(from)
  BY <1>6
<1> DEFINE S == UNION {{read[k][1], read[k][2]} : k \in 1 .. Len(from)}
<1>8. ASSUME NEW k \in 1 .. Len(from)
      PROVE  /\ read[k] \in Seq(S) /\ Len(read[k]) >= 1 /\ IsData(read[k][1])
  <2>1. from[k] \in Sources /\ read[k] = Operand(from[k], t)
    BY <1>6
  <2>2. PICK a, b : IsData(a) /\ IsData(b) /\ Operand(from[k], t) \in {<<a>>, <<a, b>>}
    BY <2>1, OperandIs
  <2>3. read[k][1] \in S /\ read[k][2] \in S
    OBVIOUS
  <2> HIDE DEF read, S
  <2>4. CASE read[k] = <<a>>
    <3>1. a \in S
      BY <2>3, <2>4
    <3>2. QED
      BY <2>2, <2>4, <3>1
  <2>5. CASE read[k] = <<a, b>>
    <3>1. a \in S /\ b \in S
      BY <2>3, <2>5
    <3>2. QED
      BY <2>2, <2>5, <3>1
  <2>6. QED
    BY <2>1, <2>2, <2>4, <2>5
<1> HIDE DEF read, S
<1>9. 1 \in 1 .. Len(from)
  BY <1>6
<1>10. FlattenSeq(read)[1] = read[1][1]
  BY <1>6, <1>7, <1>8, <1>9, FlattenFirst
<1>11. QED
  BY <1>5, <1>8, <1>9, <1>10

LEMMA BranchTempsIs ==
    ASSUME NEW t, Tables(regs, t), NEW insn, NEW i \in 1 .. 7, NEW args,
           insn.cof \in {"jumpr", "callr", "loop"} => IsData(args[1])
    PROVE  Tables(regs, BranchTemps(insn, i, args, t))
<1> DEFINE j == BranchTaken(i)
           k == BranchrDest(i)
           a == IF Leaves(insn) /\ Guarded(insn) THEN One ELSE t[j][1]
           u == [t EXCEPT ![j] = <<a, t[j][2]>>]
           b == IF insn.cof \in {"jumpr", "callr", "loop"} THEN args[1] ELSE t[k][1]
           v == [u EXCEPT ![k] = <<b, t[k][2]>>]
<1>1. j \in Temps /\ k \in Temps /\ j # k
  BY RegistersAreTemps DEF BranchTaken, BranchrDest
<1> HIDE DEF j, k
<1>2. /\ DOMAIN t = Temps
      /\ t[j] = <<t[j][1], t[j][2]>> /\ IsData(t[j][1]) /\ IsData(t[j][2])
      /\ t[k] = <<t[k][1], t[k][2]>> /\ IsData(t[k][1]) /\ IsData(t[k][2])
  BY <1>1 DEF Tables
<1>3. IsData(a) /\ IsData(b)
  BY <1>2, ValuesAreData
<1>4. BranchTemps(insn, i, args, t) = v
  <2>1. BranchTemps(insn, i, args, t) =
            [t EXCEPT ![j] = IF Leaves(insn) /\ Guarded(insn) THEN <<One, @[2]>> ELSE @,
                      ![k] = IF insn.cof \in {"jumpr", "callr", "loop"} THEN <<args[1], @[2]>> ELSE @]
    BY DEF BranchTemps, j, k
  <2>2. (IF Leaves(insn) /\ Guarded(insn) THEN <<One, t[j][2]>> ELSE t[j]) = <<a, t[j][2]>>
    BY <1>2
  <2>3. (IF insn.cof \in {"jumpr", "callr", "loop"} THEN <<args[1], t[k][2]>> ELSE t[k])
          = <<b, t[k][2]>>
    BY <1>2
  <2>4. u[k] = t[k]
    BY <1>1, <1>2
  <2>5. QED
    BY <2>1, <2>2, <2>3, <2>4
<1> HIDE DEF a, b
<1>5. Tables(regs, u)
  BY <1>1, <1>2, <1>3, SetTemp
<1> HIDE DEF u
<1>6. Tables(regs, v)
  BY <1>1, <1>2, <1>3, <1>5, SetTemp
<1>7. QED
  BY <1>4, <1>6

LEMMA WriteTempsIs ==
    ASSUME NEW r, NEW t, Tables(r, t), NEW insn, NEW args
    PROVE  Tables(r, WriteTemps(insn, args, t))
<1> DEFINE u == WriteTemps(insn, args, t)
<1>1. DOMAIN u = Temps
  BY DEF WriteTemps
<1>2. ASSUME NEW k \in Temps
      PROVE  \E a, b : u[k] = <<a, b>> /\ IsData(a) /\ IsData(b)
  <2> DEFINE P2(d) == d[1] \in {"reg", "rw", "pair"} /\ k = Dest(d[2])
  <2>1. t[k] = <<t[k][1], t[k][2]>> /\ IsData(t[k][1]) /\ IsData(t[k][2])
    BY DEF Tables
  <2>2. CASE \E d \in Writes(insn) : P2(d)
    <3> DEFINE d == CHOOSE d \in Writes(insn) : k = Dest(d[2])
    <3>1. u[k] = <<Result(insn, k, args), IF Wide(d) THEN Result(insn, k + 1, args) ELSE t[k][2]>>
      BY <2>2 DEF WriteTemps
    <3> HIDE DEF d, u
    <3>2. QED
      BY <2>1, <3>1, ValuesAreData
  <2>3. CASE ~ \E d \in Writes(insn) : P2(d)
    <3>1. u[k] = t[k]
      BY <2>3 DEF WriteTemps
    <3>2. QED
      BY <2>1, <3>1
  <2>4. QED
    BY <2>2, <2>3
<1> HIDE DEF u
<1>3. \A k \in Temps : u[k] = <<u[k][1], u[k][2]>> /\ IsData(u[k][1]) /\ IsData(u[k][2])
  BY <1>2
<1>4. Tables(r, u)
  BY <1>1, <1>3 DEF Tables
<1>5. QED
  BY <1>4 DEF u
-----------------------------------------------------------------------------
(* The steps. *)

LEMMA FetchedIs ==
    ASSUME NEW q \in Fetched
    PROVE  q \in Seq(Instruction) /\ q # << >> /\ Legal(q)
BY LifterAssumption

\* What the lifter walks over.
LEMMA InsnsAre ==
    ASSUME IInv, phase # "prepare"
    PROVE  /\ Len(insns) \in 1 .. 7
           /\ \A i \in 1 .. Len(insns) : insns[i] \in Instruction
           /\ \A i \in 1 .. Len(insns) :
                 ~insns[i].part1 => \E k \in 1 .. Len(src) : insns[i] = src[k]
           /\ \A k \in 1 .. Len(src) :
                 ~src[k].part1 /\ \E i \in 1 .. Len(insns) : insns[i] = src[k]
<1>1. insns = PreparePacketForLifting(src) /\ src \in Fetched
  BY DEF IInv
<1>2. QED
  BY <1>1, FetchedIs, PreparedPacket

LEMMA FewInsns == \A l \in 1 .. 7 : 1 .. l \subseteq 1 .. 7
OBVIOUS

LEMMA InitIInv == Init => IInv
<1>1. SUFFICES ASSUME Init
               PROVE  IInv
  OBVIOUS
<1>2. /\ src \in Fetched /\ insns = << >> /\ n = 1 /\ dests = << >> /\ phase = "prepare"
      /\ regs = [r \in Registers |-> Initially(r)]
      /\ temp = [t \in Temps |-> Stale(t)]
  BY <1>1 DEF Init
<1>3. n \in 1 .. Len(insns) + 1
  BY <1>2
<1>4. Sizes(dests)
  BY <1>2 DEF Sizes
<1>5. ASSUME NEW k \in Temps
      PROVE  \E a, b : temp[k] = <<a, b>> /\ IsData(a) /\ IsData(b)
  <2> DEFINE a == Value("stale", k, 0, << >>)
             b == Value("stale", k, 1, << >>)
  <2>1. temp[k] = <<One, One>> \/ temp[k] = <<a, b>>
    BY <1>2 DEF Stale
  <2>2. IsData(a) /\ IsData(b)
    BY DEF IsData, Value
  <2> HIDE DEF a, b
  <2>3. QED
    BY <2>1, <2>2, ValuesAreData
<1>6. Tables(regs, temp)
  <2>1. DOMAIN temp = Temps /\ DOMAIN regs = Registers
    BY <1>2
  <2>2. \A r \in Registers : IsData(regs[r])
    BY <1>2, ValuesAreData
  <2>3. \A k \in Temps : temp[k] = <<temp[k][1], temp[k][2]>> /\ IsData(temp[k][1]) /\ IsData(temp[k][2])
    BY <1>5
  <2>4. QED
    BY <2>1, <2>2, <2>3 DEF Tables
<1>7. QED
  BY <1>2, <1>3, <1>4, <1>6 DEF IInv

LEMMA PrepareIInv ==
    ASSUME IInv, Prepare
    PROVE  IInv'
<1>1. /\ phase = "prepare" /\ insns' = PreparePacketForLifting(src)
      /\ temp' = ClearTaken(insns', temp) /\ phase' = "lift"
      /\ src' = src /\ n' = n /\ dests' = dests /\ regs' = regs
  BY DEF Prepare
<1>2. src \in Fetched /\ n = 1 /\ Sizes(dests) /\ Tables(regs, temp)
  BY <1>1 DEF IInv
<1>3. Len(insns') \in 1 .. 7
  BY <1>1, <1>2, FetchedIs, PreparedPacket
<1>4. n' \in 1 .. Len(insns') + 1
  BY <1>1, <1>2, <1>3
<1>5. ASSUME NEW k \in Temps
      PROVE  \E a, b : temp'[k] = <<a, b>> /\ IsData(a) /\ IsData(b)
  <2>1. temp[k] = <<temp[k][1], temp[k][2]>> /\ IsData(temp[k][1]) /\ IsData(temp[k][2])
    BY <1>2 DEF Tables
  <2>2. temp'[k] = <<Zero, temp[k][2]>> \/ temp'[k] = temp[k]
    BY <1>1 DEF ClearTaken
  <2>3. QED
    BY <2>1, <2>2, ValuesAreData
<1>6. Tables(regs', temp')
  <2>1. DOMAIN temp' = Temps
    BY <1>1 DEF ClearTaken
  <2>2. DOMAIN regs' = Registers /\ \A r \in Registers : IsData(regs'[r])
    BY <1>1, <1>2 DEF Tables
  <2>3. \A k \in Temps : temp'[k] = <<temp'[k][1], temp'[k][2]>> /\ IsData(temp'[k][1]) /\ IsData(temp'[k][2])
    BY <1>5
  <2>4. QED
    BY <2>1, <2>2, <2>3 DEF Tables
<1>7. QED
  BY <1>1, <1>2, <1>4, <1>6 DEF IInv

LEMMA LiftIInv ==
    ASSUME IInv, Lift
    PROVE  IInv'
<1> DEFINE insn == insns[n]
           t    == SetEA(insn, CopyToTemp(insn))
           args == Values(insn, t)
           u    == BranchTemps(insn, n, args, t)
<1>1. /\ phase = "lift" /\ n <= Len(insns) /\ n' = n + 1
      /\ dests' = AddDests(insn)
      /\ phase' \in {"lift", "write_back"} /\ src' = src /\ insns' = insns
  BY DEF Lift
<1>2. \/ /\ temp' = WriteTemps(insn, args, u)
         /\ regs' = [r \in Registers |-> IF <<"direct", r>> \in Writes(insn)
                                          THEN Result(insn, r, args) ELSE regs[r]]
      \/ temp' = t /\ regs' = regs
  BY DEF Lift
<1>3. /\ src \in Fetched /\ insns = PreparePacketForLifting(src)
      /\ n \in 1 .. Len(insns) + 1 /\ Sizes(dests) /\ Tables(regs, temp)
  BY <1>1 DEF IInv
<1>4. Len(insns) \in 1 .. 7 /\ \A i \in 1 .. Len(insns) : insns[i] \in Instruction
  BY <1>1, InsnsAre
<1>5. n \in 1 .. 7 /\ n \in 1 .. Len(insns) /\ n' \in 1 .. Len(insns') + 1
  BY <1>1, <1>3, <1>4
<1>6. insn \in Instruction
  BY <1>4, <1>5
<1> HIDE DEF insn
<1>7. Sizes(dests')
  BY <1>1, <1>3, <1>6, AddDestsIs
<1>8. Tables(regs, t)
  BY <1>3, <1>6, CopyToTempIs, SetEAIs
<1> HIDE DEF t
<1>9. insn.cof \in {"jumpr", "callr", "loop"} => IsData(args[1])
  BY <1>6, <1>8, TargetIsData
<1> HIDE DEF args
<1>10. Tables(regs, u)
  BY <1>5, <1>8, <1>9, BranchTempsIs
<1> HIDE DEF u
<1>11. Tables(regs, WriteTemps(insn, args, u))
  BY <1>10, WriteTempsIs
<1>12. Tables(regs, temp')
  BY <1>2, <1>8, <1>11
<1>13. DOMAIN regs' = Registers /\ \A r \in Registers : IsData(regs'[r])
  <2>1. DOMAIN regs = Registers /\ \A r \in Registers : IsData(regs[r])
    BY <1>3 DEF Tables
  <2>2. \A r : IsData(Result(insn, r, args))
    BY ValuesAreData
  <2>3. CASE regs' = regs
    BY <2>1, <2>3
  <2>4. CASE regs' = [r \in Registers |-> IF <<"direct", r>> \in Writes(insn)
                                         THEN Result(insn, r, args) ELSE regs[r]]
    BY <2>1, <2>2, <2>4
  <2>5. QED
    BY <1>2, <2>3, <2>4
<1>14. Tables(regs', temp')
  BY <1>12, <1>13 DEF Tables
<1>15. QED
  BY <1>1, <1>3, <1>5, <1>7, <1>14 DEF IInv

LEMMA WriteBackIInv ==
    ASSUME IInv, NEW r \in DOMAIN dests, WriteBack(r)
    PROVE  IInv'
<1>1. /\ phase = "write_back"
      /\ regs' = [q \in Registers |-> IF q = r THEN temp[Dest(r)][1]
                                       ELSE IF q = r + 1 /\ dests[r] = 8 THEN temp[Dest(r)][2]
                                       ELSE regs[q]]
      /\ dests' = [q \in DOMAIN dests \ {r} |-> dests[q]]
      /\ src' = src /\ insns' = insns /\ n' = n /\ temp' = temp /\ phase' = phase
  BY DEF WriteBack
<1>2. /\ src \in Fetched /\ insns = PreparePacketForLifting(src)
      /\ n \in 1 .. Len(insns) + 1 /\ Sizes(dests) /\ Tables(regs, temp)
  BY <1>1 DEF IInv
<1>3. Dest(r) \in Temps
  BY <1>2, RegistersAreTemps DEF Sizes, Dest
<1>4. IsData(temp[Dest(r)][1]) /\ IsData(temp[Dest(r)][2]) /\ \A q \in Registers : IsData(regs[q])
  BY <1>2, <1>3 DEF Tables
<1>5. Sizes(dests')
  BY <1>1, <1>2 DEF Sizes
<1>6. DOMAIN regs' = Registers /\ \A q \in Registers : IsData(regs'[q])
  BY <1>1, <1>4
<1>7. Tables(regs', temp')
  BY <1>1, <1>2, <1>6 DEF Tables
<1>8. QED
  BY <1>1, <1>2, <1>5, <1>7 DEF IInv

LEMMA LeaveIInv ==
    ASSUME IInv, Leave
    PROVE  IInv'
<1> DEFINE going == {i \in 1 .. Len(insns) : Goes(i)}
           i == FirstToGo(going)
<1>1. /\ phase = "write_back" /\ phase' = "done"
      /\ next' = IF going = {} THEN Nowhere
                 ELSE [call |-> insns[i].cof \in {"call", "callr"}, to |-> Goal(i)]
      /\ src' = src /\ insns' = insns /\ n' = n /\ dests' = dests
      /\ regs' = regs /\ temp' = temp
  BY DEF Leave
<1>2. /\ src \in Fetched /\ insns = PreparePacketForLifting(src)
      /\ n \in 1 .. Len(insns) + 1 /\ Sizes(dests) /\ Tables(regs, temp)
  BY <1>1 DEF IInv
<1>3. Gone'
  <2>1. \A k : Goes(k)' <=> Goes(k)
    BY <1>1 DEF Goes
  <2>2. \A k : Goal(k)' = Goal(k)
    BY <1>1 DEF Goal
  <2>3. CASE going = {}
    <3>1. next' = Nowhere
      BY <1>1, <2>3
    <3>2. \A k \in 1 .. Len(insns) : ~Goes(k)
      BY <2>3
    <3>3. QED
      BY <1>1, <2>1, <3>1, <3>2 DEF Gone
  <2>4. CASE going # {}
    <3>1. \E k \in going : \A j \in going : k <= j
      <4>1. going \in SUBSET Nat
        OBVIOUS
      <4> HIDE DEF going
      <4>2. QED
        BY <2>4, <4>1, LeastExists
    <3>2. i \in going
      <4> HIDE DEF going
      <4>1. QED
        BY <3>1 DEF FirstToGo
    <3>3. next' = [call |-> insns[i].cof \in {"call", "callr"}, to |-> Goal(i)]
      BY <1>1, <2>4
    <3>4. i \in 1 .. Len(insns) /\ Goes(i)
      BY <3>2
    <3> HIDE DEF i
    <3>5. QED
      BY <1>1, <2>1, <2>2, <3>3, <3>4 DEF Gone
  <2>5. QED
    BY <2>3, <2>4
<1>4. QED
  BY <1>1, <1>2, <1>3 DEF IInv

LEMMA NextIInv == IInv /\ [Next]_vars => IInv'
<1>1. SUFFICES ASSUME IInv, [Next]_vars
               PROVE  IInv'
  OBVIOUS
<1>2. CASE UNCHANGED vars
  BY <1>1, <1>2 DEF vars, IInv, Gone, Goes, Goal
<1>3. CASE Prepare
  BY <1>1, <1>3, PrepareIInv
<1>4. CASE Lift
  BY <1>1, <1>4, LiftIInv
<1>5. ASSUME NEW r \in DOMAIN dests, WriteBack(r)
      PROVE  IInv'
  BY <1>1, <1>5, WriteBackIInv
<1>6. CASE Leave
  BY <1>1, <1>6, LeaveIInv
<1>7. QED
  BY <1>1, <1>2, <1>3, <1>4, <1>5, <1>6 DEF Next

LEMMA Inductive == Spec => []IInv
BY InitIInv, NextIInv, PTL DEF Spec
-----------------------------------------------------------------------------
(* The branches that are reported. *)

LEMMA ReportedIs ==
    ASSUME NEW q, NEW k \in 1 .. Len(q)
    PROVE  AddBranch(q, q[k]) \subseteq Reported(q)
BY DEF Reported

LEMMA SuccessorIs ==
    ASSUME NEW q, NEW type, NEW to, Branch(type, to) \in Reported(q), type # "CallDestination"
    PROVE  to \in Successors(q)
BY DEF Successors, Branch

LEMMA CallReported ==
    ASSUME NEW q, NEW k \in 1 .. Len(q), q[k].cof = "call"
    PROVE  Branch("CallDestination", Target(q[k])) \in Reported(q)
<1>1. AddBranch(q, q[k]) = {Branch("CallDestination", Target(q[k]))}
  BY DEF AddBranch, IsJump, IsCall, IsIndirect, IsReturn, IsDirectJump
<1>2. QED
  BY <1>1, ReportedIs

LEMMA JumpReported ==
    ASSUME NEW q, NEW k \in 1 .. Len(q), q[k].cof = "jump"
    PROVE  Target(q[k]) \in Successors(q)
<1>1. IsDirectJump(q[k]) /\ IsJump(q[k]) /\ ~IsIndirect(q[k]) /\ ~IsReturn(q[k]) /\ ~IsCall(q[k])
  BY DEF IsJump, IsCall, IsIndirect, IsReturn, IsDirectJump
<1>2. PICK type : /\ Branch(type, Target(q[k])) \in AddBranch(q, q[k])
                  /\ type # "CallDestination"
  <2>1. CASE Guarded(q[k])
    <3>1. Branch("TrueBranch", Target(q[k])) \in AddBranch(q, q[k])
      BY <1>1, <2>1 DEF AddBranch
    <3>2. QED
      BY <3>1
  <2>2. CASE ~Guarded(q[k])
    <3> DEFINE type == IF HasCondJump(q) THEN "FalseBranch" ELSE "UnconditionalBranch"
    <3>1. AddBranch(q, q[k]) = {Branch(type, Target(q[k]))}
      BY <1>1, <2>2 DEF AddBranch
    <3>2. QED
      BY <3>1
  <2>3. QED
    BY <2>1, <2>2
<1>3. QED
  BY <1>2, ReportedIs, SuccessorIs

LEMMA IndirectReported ==
    ASSUME NEW q, NEW k \in 1 .. Len(q), IsJump(q[k]), IsIndirect(q[k]), ~Guarded(q[k])
    PROVE  Unknown \in Successors(q)
<1>1. PICK type : Branch(type, Unknown) \in AddBranch(q, q[k]) /\ type # "CallDestination"
  <2>1. CASE IsReturn(q[k])
    <3>1. AddBranch(q, q[k]) = {Branch("FunctionReturn", Unknown)}
      BY <2>1 DEF AddBranch, IsReturn, IsIndirect, IsJump, IsDirectJump, IsCall
    <3>2. QED
      BY <3>1
  <2>2. CASE ~IsReturn(q[k])
    <3>1. AddBranch(q, q[k]) = {Branch("IndirectBranch", Unknown)}
      BY <2>2 DEF AddBranch, IsReturn, IsIndirect, IsJump, IsDirectJump, IsCall
    <3>2. QED
      BY <3>1
  <2>3. QED
    BY <2>1, <2>2
<1>2. QED
  BY <1>1, ReportedIs, SuccessorIs

\* Where every jump is conditional, the next packet is a successor.
LEMMA FallsThrough ==
    ASSUME NEW q, \A k \in 1 .. Len(q) : IsJump(q[k]) => Guarded(q[k])
    PROVE  NextPacket \in Successors(q)
<1>1. CASE \E k \in 1 .. Len(q) : IsDirectJump(q[k])
  <2>1. PICK k \in 1 .. Len(q) : IsDirectJump(q[k])
    BY <1>1
  <2>2. IsJump(q[k]) /\ ~IsIndirect(q[k]) /\ Guarded(q[k])
    BY <2>1 DEF IsDirectJump
  <2>3. ~HasUncondJump(q)
    BY DEF HasUncondJump, IsDirectJump
  <2>4. ~IsReturn(q[k]) /\ ~IsCall(q[k])
    BY <2>2 DEF IsReturn, IsIndirect, IsCall, IsJump
  <2>5. AddBranch(q, q[k]) = {Branch("TrueBranch", Target(q[k]))}
                                \cup {Branch("FalseBranch", NextPacket)}
    BY <2>1, <2>2, <2>3, <2>4 DEF AddBranch
  <2>6. Branch("FalseBranch", NextPacket) \in Reported(q)
    BY <2>5, ReportedIs
  <2>7. QED
    BY <2>6, SuccessorIs
<1>2. CASE ~ \E k \in 1 .. Len(q) : IsDirectJump(q[k])
  <2>1. ASSUME NEW k \in 1 .. Len(q), NEW b \in AddBranch(q, q[k])
        PROVE  b.type = "CallDestination"
    <3>1. ~IsDirectJump(q[k]) /\ (IsJump(q[k]) => Guarded(q[k]))
      BY <1>2
    <3>2. ~ (IsReturn(q[k]) /\ ~Guarded(q[k]))
      BY <3>1 DEF IsReturn, IsJump
    <3>3. b \in {Branch("CallDestination", Target(q[k]))}
      BY <2>1, <3>1, <3>2 DEF AddBranch
    <3>4. QED
      BY <3>3 DEF Branch
  <2>2. \A b \in Reported(q) : b.type = "CallDestination"
    BY <2>1 DEF Reported
  <2>3. ~EndsBlock(q)
    BY <2>2 DEF EndsBlock
  <2>4. QED
    BY <2>3 DEF Successors
<1>3. QED
  BY <1>1, <1>2

-----------------------------------------------------------------------------
(* The order in which the instructions of a packet are lifted. *)

\* What goes first: the compares, those of the compare-jumps included.
Leads(x) == IsCompare(x) \/ x.part1

\* t has the instructions of q and the compares of its compare-jumps, each once,
\* in an order in which memory accesses and branches keep theirs, compares come
\* first, and what reads a new register value behind everything but an endloop.
Arranged(t, q) ==
    /\ Len(t) \in 1 .. 7
    /\ \A k \in 1 .. Len(t) :
          /\ t[k] \in Instruction /\ t[k].at \in 1 .. Len(q)
          /\ ~t[k].part1 => t[k] = q[t[k].at]
          /\ t[k].part1 => IsCmpJump(t[k]) /\ t[k] = CompareHalf(q[t[k].at])
          /\ EndsLoop(t[k]) => k = Len(t)
    /\ \A k, l \in 1 .. Len(t) : t[k].at = t[l].at /\ t[k].part1 = t[l].part1 => k = l
    /\ \A i \in 1 .. Len(q) :
          /\ \E k \in 1 .. Len(t) : t[k].at = i /\ ~t[k].part1
          /\ IsCmpJump(q[i]) => \E k \in 1 .. Len(t) : t[k].at = i /\ t[k].part1
    /\ \A k, l \in 1 .. Len(t) : k < l =>
          /\ IsMemory(t[k]) /\ IsMemory(t[l]) => t[k].at < t[l].at
          /\ IsBranch(t[k]) /\ IsBranch(t[l]) => t[k].at < t[l].at
          /\ Leads(t[l]) => Leads(t[k])
    /\ \A k, l \in 1 .. Len(t) :
          IsNewValue(t[l]) /\ k # l /\ ~EndsLoop(t[k]) => k < l

\* A legal packet is prepared in that order.
LEMMA PreparedOrder ==
    ASSUME NEW q \in Seq(Instruction), q # << >>, Legal(q)
    PROVE  Arranged(PreparePacketForLifting(q), q)
<1> DEFINE t == PreparePacketForLifting(q)
<1>1. PICK s, m : /\ Settled(s, q) /\ Len(s) \in 1 .. 5 /\ m \in 0 .. 2
                  /\ Joins(t, m, Len(s), s, q)
  BY PreparePacketIs
<1>2. /\ Len(t) \in 1 .. 7 /\ \A i \in 1 .. Len(t) : t[i] \in Instruction
  BY PreparedPacket
<1>3. Decoded(q) /\ Entries(q) /\ FitsSlots(q)
  BY LegalDecoded DEF Decoded
<1> HIDE DEF t
<1> DEFINE len == Len(s)
<1>4. /\ Arranges(s, q) /\ ComparesFirst(s) /\ NewValueAfter(s)
      /\ InOrder(s, MemoryInsns) /\ InOrder(s, BranchInsns)
      /\ len \in 1 .. 5 /\ m \in 0 .. 2
  BY <1>1, <1>3 DEF Settled
<1>5. \A k \in 1 .. Len(q) : q[k] \in Instruction /\ q[k] \in Instr /\ ~q[k].part1 /\ ~IsExt(q[k])
  <2>1. \A k \in 1 .. Len(q) : q[k] \in Instruction
    BY ElementOfSeq
  <2>2. \A x \in Instruction : ~IsExt(x) /\ x \in Instr
    BY DEF Instruction, IsExt, Instr
  <2>3. \A k \in 1 .. Len(q) : ~q[k].part1
    BY DEF Legal
  <2>4. QED
    BY <2>1, <2>2, <2>3
<1>6. /\ Len(t) = m + len
      /\ \A i \in 1 .. m + len : i \in 1 .. m \/ i - m \in 1 .. len
      /\ \A i \in 1 .. m :
            /\ IsCmpJump(t[i]) /\ t[i].part1 = TRUE
            /\ t[i].at \in 1 .. Len(q) /\ t[i] = CompareHalf(q[t[i].at])
            /\ IsCmpJump(q[t[i].at])
      /\ \A i \in 1 .. m + len : i \notin 1 .. m => t[i] = s[i - m]
      /\ \A j \in 1 .. len : m + j \in 1 .. m + len /\ m + j \notin 1 .. m /\ t[m + j] = s[j]
      /\ \A i, j \in 1 .. m : t[i].at = t[j].at => i = j
      /\ \A k \in 1 .. Len(q) : IsCmpJump(q[k]) => \E i \in 1 .. m : t[i].at = k
  BY <1>1 DEF Joins
<1>7a. /\ \A i \in 1 .. len : s[i].at \in 1 .. Len(q) /\ s[i] = q[s[i].at]
       /\ \A i, j \in 1 .. len : s[i].at = s[j].at => i = j
  BY <1>4 DEF Arranges
<1>7b. \A i \in 1 .. len : /\ s[i] \in Instruction /\ s[i] \in Instr /\ ~s[i].part1
                          /\ ~IsExt(s[i])
  BY <1>5, <1>7a
<1>7c. \A k \in 1 .. Len(q) : \E i \in 1 .. len : s[i].at = k
  BY <1>4, <1>5 DEF Arranges
<1>7d. \A i \in 1 .. len : EndsLoop(s[i]) => i = len
  BY <1>4 DEF Arranges
<1>8. \A i \in 1 .. m + len : i \notin 1 .. m => i - m \in 1 .. len /\ t[i] = s[i - m] /\ ~t[i].part1
  BY <1>6, <1>7b
<1>9. /\ \A x : IsCmpJump(x) => ~IsMemory(x) /\ ~EndsLoop(x) /\ ~IsNewValue(x) /\ ~IsCompare(x)
      /\ \A x : x.part1 => ~IsBranch(x)
      /\ \A i \in 1 .. m : t[i].part1
  BY <1>6 DEF IsCmpJump, IsMemory, IsStore, IsLoad, EndsLoop, IsNewValue, IsBranch, IsCompare
<1>10. /\ \A k, l \in 1 .. len : k < l /\ IsMemory(s[k]) /\ IsMemory(s[l]) => s[k].at < s[l].at
       /\ \A k, l \in 1 .. len : k < l /\ IsBranch(s[k]) /\ IsBranch(s[l]) => s[k].at < s[l].at
       /\ \A k, l \in 1 .. len : k < l /\ IsCompare(s[l]) => IsCompare(s[k])
  <2>2. ASSUME NEW k \in 1 .. len, NEW l \in 1 .. len, k < l, IsMemory(s[k]), IsMemory(s[l])
        PROVE  s[k].at < s[l].at
    <3>1. s[k] \in MemoryInsns /\ s[l] \in MemoryInsns
      BY <1>7b, <2>2 DEF MemoryInsns
    <3>2. QED
      BY <1>4, <2>2, <3>1 DEF InOrder
  <2>3. ASSUME NEW k \in 1 .. len, NEW l \in 1 .. len, k < l, IsBranch(s[k]), IsBranch(s[l])
        PROVE  s[k].at < s[l].at
    <3>1. s[k] \in BranchInsns /\ s[l] \in BranchInsns
      BY <1>7b, <2>3 DEF BranchInsns
    <3>2. QED
      BY <1>4, <2>3, <3>1 DEF InOrder
  <2>4. \A k, l \in 1 .. len : k < l /\ IsCompare(s[l]) => IsCompare(s[k])
    BY <1>4 DEF ComparesFirst
  <2>5. QED
    BY <2>2, <2>3, <2>4
<1>11. ASSUME NEW k \in 1 .. len, NEW l \in 1 .. len, IsNewValue(s[l]), k # l, ~EndsLoop(s[k])
       PROVE  k < l
  <2>1. ~IsExt(s[k]) /\ ~IsRte(s[k])
    <3>1. \A x \in Instruction : ~IsRte(x)
      BY DEF Instruction, IsRte
    <3>2. QED
      BY <1>7b, <3>1
  <2>2. CASE IsNewValue(s[k])
    <3> DEFINE a == s[k].at
               b == s[l].at
    <3>1. /\ a \in 1 .. Len(q) /\ b \in 1 .. Len(q) /\ IsNewValue(q[a]) /\ IsNewValue(q[b])
      BY <1>7a, <1>11, <2>2
    <3>2. Executes(q[a]) /\ Executes(q[b])
      BY <3>1 DEF Executes, IsNewValue, IsExt, EndsLoop
    <3> HIDE DEF a, b
    <3>3. b <= a /\ a <= b /\ a \in Nat /\ b \in Nat
      BY <1>3, <3>1, <3>2, NewValueIsLast
    <3>4. a = b
      BY <3>3
    <3>5. QED
      BY <1>7a, <1>11, <3>4 DEF a, b
  <2>3. CASE ~IsNewValue(s[k])
    <3>1. Feeds(s[k])
      BY <1>11, <2>1, <2>3 DEF Feeds, Executes
    <3>2. QED
      BY <1>4, <1>11, <3>1 DEF NewValueAfter
  <2>4. QED
    BY <2>2, <2>3
<1> HIDE DEF len
<1>12. ASSUME NEW k \in 1 .. m + len
       PROVE  /\ t[k].at \in 1 .. Len(q)
              /\ ~t[k].part1 => t[k] = q[t[k].at]
              /\ t[k].part1 => IsCmpJump(t[k]) /\ t[k] = CompareHalf(q[t[k].at])
              /\ EndsLoop(t[k]) => k = m + len
  <2>1. CASE k \in 1 .. m
    BY <1>6, <1>9, <2>1
  <2>2. CASE k \notin 1 .. m
    <3>1. k - m \in 1 .. len /\ t[k] = s[k - m] /\ ~t[k].part1
      BY <1>8, <2>2
    <3>2. EndsLoop(t[k]) => k - m = len
      BY <1>7d, <3>1
    <3>3. k - m = len => k = m + len
      BY <1>4
    <3>4. QED
      BY <1>7a, <3>1, <3>2, <3>3
  <2>3. QED
    BY <2>1, <2>2
<1>13. ASSUME NEW k \in 1 .. m + len, NEW l \in 1 .. m + len, t[k].at = t[l].at, t[k].part1 = t[l].part1
       PROVE  k = l
  <2>1. CASE k \in 1 .. m /\ l \in 1 .. m
    BY <1>6, <1>13, <2>1
  <2>2. CASE k \notin 1 .. m /\ l \notin 1 .. m
    <3>1. k - m \in 1 .. len /\ t[k] = s[k - m] /\ l - m \in 1 .. len /\ t[l] = s[l - m]
      BY <1>8, <2>2
    <3>2. k - m = l - m
      BY <1>7a, <1>13, <3>1
    <3>3. QED
      BY <1>4, <3>2
  <2>3. QED
    BY <1>8, <1>9, <1>13, <2>1, <2>2
<1>14. ASSUME NEW i \in 1 .. Len(q)
       PROVE  /\ \E k \in 1 .. m + len : t[k].at = i /\ ~t[k].part1
              /\ IsCmpJump(q[i]) => \E k \in 1 .. m + len : t[k].at = i /\ t[k].part1
  <2>1. PICK j \in 1 .. len : s[j].at = i
    BY <1>7c
  <2>2. m + j \in 1 .. m + len /\ t[m + j] = s[j] /\ ~t[m + j].part1
    BY <1>6, <1>7b
  <2>3. ASSUME IsCmpJump(q[i])
        PROVE  \E k \in 1 .. m + len : t[k].at = i /\ t[k].part1
    <3>1. PICK k \in 1 .. m : t[k].at = i
      BY <1>6, <2>3
    <3>2. k \in 1 .. m + len
      BY <1>4
    <3>3. QED
      BY <1>9, <3>1, <3>2
  <2>4. QED
    BY <2>1, <2>2, <2>3
<1>15. ASSUME NEW k \in 1 .. m + len, NEW l \in 1 .. m + len
       PROVE  /\ k \notin 1 .. m /\ l \notin 1 .. m => (k < l <=> k - m < l - m)
              /\ k \in 1 .. m /\ l \notin 1 .. m => k < l /\ ~ (l < k)
              /\ k < l => l \notin 1 .. m \/ k \in 1 .. m
  BY <1>4
<1>16. ASSUME NEW k \in 1 .. m + len, NEW l \in 1 .. m + len, k < l
       PROVE  /\ IsMemory(t[k]) /\ IsMemory(t[l]) => t[k].at < t[l].at
              /\ IsBranch(t[k]) /\ IsBranch(t[l]) => t[k].at < t[l].at
              /\ Leads(t[l]) => Leads(t[k])
  <2>1. CASE k \in 1 .. m
    <3>1. IsCmpJump(t[k]) /\ t[k].part1
      BY <1>6, <1>9, <2>1
    <3>2. ~IsMemory(t[k]) /\ ~IsBranch(t[k]) /\ Leads(t[k])
      BY <1>9, <3>1 DEF Leads
    <3>3. QED
      BY <3>2
  <2>2. CASE k \notin 1 .. m
    <3>1. l \notin 1 .. m
      BY <1>15, <1>16, <2>2
    <3>2. /\ k - m \in 1 .. len /\ t[k] = s[k - m] /\ ~t[k].part1
          /\ l - m \in 1 .. len /\ t[l] = s[l - m] /\ ~t[l].part1
          /\ k - m < l - m
      BY <1>8, <1>15, <1>16, <2>2, <3>1
    <3>3. QED
      BY <1>10, <3>2 DEF Leads
  <2>3. QED
    BY <2>1, <2>2
<1>17. ASSUME NEW k \in 1 .. m + len, NEW l \in 1 .. m + len, IsNewValue(t[l]), k # l, ~EndsLoop(t[k])
       PROVE  k < l
  <2>1. l \notin 1 .. m
    BY <1>6, <1>9, <1>17
  <2>2. CASE k \in 1 .. m
    BY <1>15, <2>1, <2>2
  <2>3. CASE k \notin 1 .. m
    <3>1. k - m \in 1 .. len /\ t[k] = s[k - m] /\ l - m \in 1 .. len /\ t[l] = s[l - m]
      BY <1>8, <2>1, <2>3
    <3>2. k - m # l - m
      BY <1>4, <1>17
    <3>3. k - m < l - m
      BY <1>11, <1>17, <3>1, <3>2 DEF len
    <3>4. QED
      BY <1>15, <2>1, <2>3, <3>3
  <2>4. QED
    BY <2>2, <2>3
<1>18. QED
  BY <1>2, <1>6, <1>12, <1>13, <1>14, <1>16, <1>17 DEF Arranged, t, len

-----------------------------------------------------------------------------
(* Sequences put together. *)

IsSeq(v) == v \in Seq(Range(v))

\* Sequences over any set are meant.
LEMMA SeqIsSeq ==
    ASSUME NEW S, NEW v \in Seq(S)
    PROVE  IsSeq(v)
<1>1. \A i \in 1 .. Len(v) : v[i] \in Range(v)
  BY DEF Range
<1>2. QED
  BY <1>1 DEF IsSeq

\* Two sequences in a row are one.
LEMMA ConcatIsSeq ==
    ASSUME NEW a, NEW b, IsSeq(a), IsSeq(b)
    PROVE  IsSeq(a \o b)
<1> DEFINE S == Range(a) \cup Range(b)
<1>1. a \in Seq(S) /\ b \in Seq(S)
  BY DEF IsSeq
<1> HIDE DEF S
<1>2. a \o b \in Seq(S)
  BY <1>1, ConcatProperties
<1>3. QED
  BY <1>2, SeqIsSeq

\* Nothing is added by an empty sequence.
LEMMA ConcatNothing ==
    ASSUME NEW a, IsSeq(a)
    PROVE  a \o << >> = a /\ << >> \o a = a
BY ConcatEmptySeq DEF IsSeq

\* The empty sequence is one of them.
LEMMA EmptyIsSeq == IsSeq(<< >>)
<1> DEFINE S == {}
<1>1. << >> \in Seq(S)
  OBVIOUS
<1> HIDE DEF S
<1>2. QED
  BY <1>1, SeqIsSeq

\* No sequences flatten to the empty one.
LEMMA FlattenNone ==
    ASSUME NEW g
    PROVE  FlattenSeq([j \in 1 .. 0 |-> g[j]]) = << >>
<1>1. [j \in 1 .. 0 |-> g[j]] = << >>
  OBVIOUS
<1>2. Len(<< >>) = 0
  OBVIOUS
<1>3. QED
  BY <1>1, <1>2 DEF FlattenSeq

\* One sequence more.
LEMMA FlattenMore ==
    ASSUME NEW g, NEW m \in Nat, m >= 1, \A j \in 1 .. m : IsSeq(g[j])
    PROVE  FlattenSeq([j \in 1 .. m |-> g[j]]) = FlattenSeq([j \in 1 .. m - 1 |-> g[j]]) \o g[m]
<1> DEFINE s == [j \in 1 .. m |-> g[j]]
           u == [j \in 1 .. m - 1 |-> g[j]]
<1>1. Len(s) = m /\ Len(u) = m - 1 /\ m - 1 \in Nat
  OBVIOUS
<1>2. s[m] = g[m] /\ \A j \in 1 .. m - 1 : s[j] = u[j]
  OBVIOUS
<1> HIDE DEF s, u
<1>3. PICK w : w[1] = s[1] /\ (\A i \in 2 .. m : w[i] = w[i - 1] \o s[i]) /\ FlattenSeq(s) = w[m]
  BY <1>1, FlattenWalk
<1>4. CASE m = 1
  <2>1. FlattenSeq(u) = << >>
    BY <1>4, FlattenNone DEF u
  <2>2. FlattenSeq(s) = g[m]
    BY <1>2, <1>3, <1>4
  <2>3. << >> \o g[m] = g[m]
    BY <1>4, ConcatNothing
  <2>4. QED
    BY <2>1, <2>2, <2>3 DEF s, u
<1>5. CASE m # 1
  <2>1. m - 1 >= 1 /\ m \in 2 .. m
    BY <1>5
  <2>2. PICK v : /\ v[1] = u[1] /\ (\A i \in 2 .. m - 1 : v[i] = v[i - 1] \o u[i])
                 /\ FlattenSeq(u) = v[m - 1]
    BY <1>1, <2>1, FlattenWalk
  <2> DEFINE T == {i \in 0 .. m - 1 : i = 0 \/ v[i] = w[i]}
  <2>3. 0 \in T
    BY <1>1
  <2>4. ASSUME NEW i \in 1 .. m - 1, i - 1 \in T
        PROVE  i \in T
    <3>1. CASE i = 1
      <4>1. v[1] = w[1]
        BY <1>2, <1>3, <2>1, <2>2
      <4>2. QED
        BY <3>1, <4>1
    <3>2. CASE i # 1
      <4>1. i \in 2 .. m - 1 /\ i \in 2 .. m /\ i - 1 # 0
        BY <3>2
      <4>2. v[i - 1] = w[i - 1]
        BY <2>4, <4>1
      <4>3. s[i] = u[i]
        BY <1>2
      <4>4. v[i] = w[i]
        BY <1>3, <2>2, <4>1, <4>2, <4>3
      <4>5. QED
        BY <4>4
    <3>3. QED
      BY <3>1, <3>2
  <2>5. 0 .. m - 1 \subseteq T
    <3> DEFINE k == m - 1
    <3>1. 0 \in T /\ \A i \in 1 .. k : i - 1 \in T => i \in T
      BY <2>3, <2>4
    <3>2. k \in Nat
      BY <1>1
    <3> HIDE DEF T, k
    <3>3. 0 .. k \subseteq T
      BY <3>1, <3>2, InductionUpTo
    <3>4. QED
      BY <3>3 DEF k
  <2>6. v[m - 1] = w[m - 1]
    <3>1. m - 1 \in 0 .. m - 1 /\ m - 1 # 0
      BY <2>1
    <3>2. QED
      BY <2>5, <3>1
  <2>7. FlattenSeq(s) = FlattenSeq(u) \o g[m]
    BY <1>2, <1>3, <2>1, <2>2, <2>6
  <2>8. QED
    BY <2>7 DEF s, u
<1>6. QED
  BY <1>4, <1>5

\* Sequences flatten to a sequence.
LEMMA FlattenIsSeq ==
    ASSUME NEW g, NEW l \in Nat, \A j \in 1 .. l : IsSeq(g[j])
    PROVE  IsSeq(FlattenSeq([j \in 1 .. l |-> g[j]]))
<1> DEFINE F(m) == FlattenSeq([j \in 1 .. m |-> g[j]])
           T == {m \in 0 .. l : IsSeq(F(m))}
<1>1. 0 \in T
  BY FlattenNone, EmptyIsSeq
<1>2. ASSUME NEW m \in 1 .. l, m - 1 \in T
      PROVE  m \in T
  <2>1. F(m) = F(m - 1) \o g[m]
    <3>1. m \in Nat /\ m >= 1 /\ \A j \in 1 .. m : IsSeq(g[j])
      OBVIOUS
    <3>2. QED
      BY <3>1, FlattenMore
  <2>2. IsSeq(F(m - 1)) /\ IsSeq(g[m])
    BY <1>2
  <2> HIDE DEF F
  <2>3. IsSeq(F(m))
    BY <2>1, <2>2, ConcatIsSeq
  <2>4. QED
    BY <2>3
<1>3. 0 .. l \subseteq T
  <2> HIDE DEF T
  <2> QED BY <1>1, <1>2, InductionUpTo
<1>4. l \in 0 .. l
  OBVIOUS
<1>5. QED
  BY <1>3, <1>4

\* Nothing follows.
LEMMA FlattenPrefix ==
    ASSUME NEW g, NEW l \in Nat, NEW m \in 0 .. l, \A j \in 1 .. l : IsSeq(g[j]),
           \A j \in m + 1 .. l : g[j] = << >>
    PROVE  FlattenSeq([j \in 1 .. l |-> g[j]]) = FlattenSeq([j \in 1 .. m |-> g[j]])
<1> DEFINE F(k) == FlattenSeq([j \in 1 .. k |-> g[j]])
           T == {k \in 0 .. l : k < m \/ F(k) = F(m)}
<1>1. 0 \in T
  OBVIOUS
<1>2. ASSUME NEW k \in 1 .. l, k - 1 \in T
      PROVE  k \in T
  <2>1. CASE k <= m
    BY <2>1
  <2>2. CASE k > m
    <3>1. F(k) = F(k - 1) \o g[k]
      <4>1. k \in Nat /\ k >= 1 /\ \A j \in 1 .. k : IsSeq(g[j])
        OBVIOUS
      <4>2. QED
        BY <4>1, FlattenMore
    <3>2. F(k - 1) = F(m)
      BY <1>2, <2>2
    <3>3. g[k] = << >>
      BY <2>2
    <3>4. IsSeq(F(m))
      BY FlattenIsSeq
    <3> HIDE DEF F
    <3>5. F(k) = F(m)
      BY <3>1, <3>2, <3>3, <3>4, ConcatNothing
    <3>6. QED
      BY <3>5
  <2>3. QED
    BY <2>1, <2>2
<1>3. 0 .. l \subseteq T
  <2> HIDE DEF T
  <2> QED BY <1>1, <1>2, InductionUpTo
<1>4. l \in 0 .. l
  OBVIOUS
<1>5. QED
  BY <1>3, <1>4

\* The first l of them put together.
Joined(g, l) == FlattenSeq([j \in 1 .. l |-> g[j]])

\* What is added behind the rest.
LEMMA FlattenAdd ==
    ASSUME NEW g, NEW h, NEW l \in Nat, NEW m \in 1 .. l,
           \A j \in 1 .. l : IsSeq(g[j]) /\ IsSeq(h[j]),
           \A j \in 1 .. l : j # m => h[j] = g[j],
           \A j \in m .. l : g[j] = << >>
    PROVE  Joined(h, l) = Joined(g, l) \o h[m]
<1>1. FlattenSeq([j \in 1 .. l |-> h[j]]) = FlattenSeq([j \in 1 .. m |-> h[j]])
  <2>1. \A j \in m + 1 .. l : h[j] = << >>
    OBVIOUS
  <2>2. m \in 0 .. l
    OBVIOUS
  <2>3. QED
    BY <2>1, <2>2, FlattenPrefix
<1>2. FlattenSeq([j \in 1 .. m |-> h[j]]) = FlattenSeq([j \in 1 .. m - 1 |-> h[j]]) \o h[m]
  <2>1. m \in Nat /\ m >= 1 /\ \A j \in 1 .. m : IsSeq(h[j])
    OBVIOUS
  <2>2. QED
    BY <2>1, FlattenMore
<1>3. FlattenSeq([j \in 1 .. l |-> g[j]]) = FlattenSeq([j \in 1 .. m - 1 |-> g[j]])
  <2> DEFINE k == m - 1
  <2>1. k \in 0 .. l /\ \A j \in k + 1 .. l : g[j] = << >>
    OBVIOUS
  <2> HIDE DEF k
  <2>2. FlattenSeq([j \in 1 .. l |-> g[j]]) = FlattenSeq([j \in 1 .. k |-> g[j]])
    BY <2>1, FlattenPrefix
  <2>3. QED
    BY <2>2 DEF k
<1>4. [j \in 1 .. m - 1 |-> h[j]] = [j \in 1 .. m - 1 |-> g[j]]
  OBVIOUS
<1>5. QED
  BY <1>1, <1>2, <1>3, <1>4 DEF Joined

-----------------------------------------------------------------------------
(* The packet in parallel, one instruction at a time. *)

\* What an operand of the instruction at i contributes to its arguments, given
\* the arguments A of the others.
ReadBy(q, A, i, operand) ==
    IF operand[1] = "new"
    THEN LET j == ProducerOf(q, i, operand[2]) IN <<Result(q[j], operand[2], A[j])>>
    ELSE [k \in 1 .. Len(RegistersOf(operand)) |-> Initially(RegistersOf(operand)[k])]

StoredBy(q, tr, A, j) == IF IsStore(q[j]) /\ Happens(q, j, tr) THEN A[j] ELSE << >>

OperandsOf(q, A, i) ==
    FlattenSeq([k \in 1 .. Len(q[i].from) |-> ReadBy(q, A, i, q[i].from[k])])

ArgsOf(q, tr, A, i) ==
    IF IsLoad(q[i])
    THEN OperandsOf(q, A, i) \o FlattenSeq([j \in 1 .. i - 1 |-> StoredBy(q, tr, A, j)])
    ELSE OperandsOf(q, A, i)

\* The instructions whose results are written.
Writers(q, tr) == {i \in 1 .. Len(q) : Happens(q, i, tr) \/ IsCmpJump(q[i])}

\* What makes the register that is read as .new: an instruction before, alone to
\* write it, whose result is always written.
LEMMA NewSource ==
    ASSUME NEW q \in Seq(Instruction), Legal(q), NEW i \in 1 .. Len(q),
           NEW s \in Range(q[i].from), s[1] = "new"
    PROVE  \E j \in 1 .. i - 1 :
              /\ ProducersOf(q, s[2]) = {j} /\ (Guarded(q[j]) => IsCmpJump(q[j]))
              /\ {<<"reg", s[2]>>, <<"rw", s[2]>>} \cap Range(q[j].to) # {}
<1>1. NewProduced(q)
  BY DEF Legal
<1>2. \A x \in Range(q[i].from) : x[1] = "new" =>
        \E j \in 1 .. i - 1 :
           /\ ProducersOf(q, x[2]) = {j} /\ (Guarded(q[j]) => IsCmpJump(q[j]))
           /\ {<<"reg", x[2]>>, <<"rw", x[2]>>} \cap Range(q[j].to) # {}
  BY <1>1, Zenon DEF NewProduced
<1>3. QED
  BY ONLY <1>2, s \in Range(q[i].from), s[1] = "new", Zenon

\* What makes the predicate of a .new guard: one instruction, whose result is
\* always written, for a compare-jump the jump's own.
LEMMA NewGuard ==
    ASSUME NEW q \in Seq(Instruction), Legal(q), NEW i \in 1 .. Len(q), q[i].guard.new
    PROVE  \E j \in 1 .. Len(q) :
              /\ ProducersOf(q, q[i].guard.r) = {j} /\ (Guarded(q[j]) => IsCmpJump(q[j]))
              /\ IsCmpJump(q[i]) => j = i
<1>1. NewProduced(q)
  BY DEF Legal
<1>2. QED
  BY <1>1 DEF NewProduced

\* The arguments of an instruction only depend on those before it.
LEMMA ArgsLocal ==
    ASSUME NEW q \in Seq(Instruction), Legal(q), NEW tr, NEW i \in 1 .. Len(q),
           NEW f, NEW g, \A j \in 1 .. i - 1 : f[j] = g[j]
    PROVE  ArgsOf(q, tr, f, i) = ArgsOf(q, tr, g, i)
<1>1. ASSUME NEW k \in 1 .. Len(q[i].from)
      PROVE  ReadBy(q, f, i, q[i].from[k]) = ReadBy(q, g, i, q[i].from[k])
  <2> DEFINE s == q[i].from[k]
  <2>1. s \in Range(q[i].from)
    BY DEF Range
  <2> HIDE DEF s
  <2>2. CASE s[1] = "new"
    <3>1. PICK j \in 1 .. i - 1 : ProducersOf(q, s[2]) = {j}
      BY <2>1, <2>2, NewSource
    <3>2. ProducerOf(q, i, s[2]) = j
      BY <3>1 DEF ProducerOf
    <3>3. ReadBy(q, f, i, s) = ReadBy(q, g, i, s)
      BY <2>2, <3>1, <3>2 DEF ReadBy
    <3>4. QED
      BY <3>3 DEF s
  <2>3. CASE s[1] # "new"
    <3>1. ReadBy(q, f, i, s) = ReadBy(q, g, i, s)
      BY <2>3 DEF ReadBy
    <3>2. QED
      BY <3>1 DEF s
  <2>4. QED
    BY <2>2, <2>3
<1>2. OperandsOf(q, f, i) = OperandsOf(q, g, i)
  <2>1. [k \in 1 .. Len(q[i].from) |-> ReadBy(q, f, i, q[i].from[k])]
          = [k \in 1 .. Len(q[i].from) |-> ReadBy(q, g, i, q[i].from[k])]
    BY <1>1
  <2>2. QED
    BY <2>1 DEF OperandsOf
<1>3. [j \in 1 .. i - 1 |-> StoredBy(q, tr, f, j)] = [j \in 1 .. i - 1 |-> StoredBy(q, tr, g, j)]
  BY DEF StoredBy
<1>4. QED
  BY <1>2, <1>3 DEF ArgsOf

\* The arguments of a packet are those of its instructions, one by one.
LEMMA ArgumentsAre ==
    ASSUME NEW q \in Seq(Instruction), Legal(q), NEW tr, NEW i \in 1 .. Len(q)
    PROVE  Arguments(q, tr)[i] = ArgsOf(q, tr, Arguments(q, tr), i)
<1> DEFINE len == Len(q)
           A == Arguments(q, tr)
           Unfolds(g, m) == g = [k \in 1 .. m |-> ArgsOf(q, tr, g, k)]
           Defined == {m \in 0 .. len : \E g : Unfolds(g, m)}
<1>1. A = CHOOSE g : Unfolds(g, len)
  BY DEF Arguments, ArgsOf, OperandsOf, ReadBy, StoredBy
<1>2. len \in Nat
  BY LenProperties
<1> HIDE DEF len, A
<1>3. 0 \in Defined
  <2>1. Unfolds([k \in 1 .. 0 |-> 0], 0)
    OBVIOUS
  <2>2. 0 \in 0 .. len
    BY <1>2
  <2> HIDE DEF Unfolds
  <2>3. QED
    BY <2>1, <2>2
<1>4. ASSUME NEW m \in 1 .. len, m - 1 \in Defined
      PROVE  m \in Defined
  <2>1. PICK g : Unfolds(g, m - 1)
    BY <1>4
  <2> DEFINE h == [k \in 1 .. m |-> IF k = m THEN ArgsOf(q, tr, g, m) ELSE g[k]]
  <2>2. ASSUME NEW k \in 1 .. m
        PROVE  h[k] = ArgsOf(q, tr, h, k)
    <3>1. k \in 1 .. Len(q)
      BY <1>2 DEF len
    <3>2. \A j \in 1 .. k - 1 : h[j] = g[j]
      BY <1>2
    <3>3. h[k] = ArgsOf(q, tr, g, k)
      <4>1. CASE k = m
        BY <4>1
      <4>2. CASE k # m
        <5>1. k \in 1 .. m - 1 /\ h[k] = g[k]
          BY <1>2, <4>2
        <5>2. g[k] = ArgsOf(q, tr, g, k)
          <6> HIDE DEF h
          <6>1. QED
            BY <2>1, <5>1
        <5>3. QED
          BY <5>1, <5>2
      <4>3. QED
        BY <4>1, <4>2
    <3> HIDE DEF h
    <3>4. ArgsOf(q, tr, h, k) = ArgsOf(q, tr, g, k)
      BY <3>1, <3>2, ArgsLocal
    <3>5. QED
      BY <3>3, <3>4
  <2>3. h = [k \in 1 .. m |-> h[k]]
    OBVIOUS
  <2> HIDE DEF h
  <2>4. [k \in 1 .. m |-> h[k]] = [k \in 1 .. m |-> ArgsOf(q, tr, h, k)]
    BY <2>2
  <2>5. Unfolds(h, m)
    BY <2>3, <2>4
  <2> HIDE DEF Unfolds
  <2>6. m \in 0 .. len
    BY <1>2
  <2>7. QED
    BY <2>5, <2>6
<1>5. 0 .. len \subseteq Defined
  <2> HIDE DEF Defined
  <2> QED BY <1>2, <1>3, <1>4, InductionUpTo
<1>6. len \in Defined
  BY <1>2, <1>5
<1>7. Unfolds(A, len)
  <2>1. \E g : Unfolds(g, len)
    BY <1>6
  <2> HIDE DEF Unfolds
  <2>2. QED
    BY <1>1, <2>1
<1>8. i \in 1 .. len
  BY DEF len
<1>9. A[i] = ArgsOf(q, tr, A, i)
  BY <1>7, <1>8
<1>10. QED
  BY <1>9 DEF A

-----------------------------------------------------------------------------
(* Who writes what. *)

\* The registers of a pair and of the other operands.
LEMMA RegistersOfIs ==
    \A d : /\ d[1] = "pair" => Range(RegistersOf(d)) = {d[2], d[2] + 1}
           /\ d[1] # "pair" => Range(RegistersOf(d)) = {d[2]}
<1>1. \A a, b : Range(<<a, b>>) = {a, b} /\ Range(<<a>>) = {a}
  BY DEF Range
<1>2. QED
  BY <1>1 DEF RegistersOf

\* A register is written by a destination that is not just kept.
LEMMA WrittenIs ==
    ASSUME NEW x, NEW r
    PROVE  r \in Written(x) <=> \E d \in Range(x.to) : d[1] # "keep" /\ r \in Range(RegistersOf(d))
BY DEF Written

\* The rules of the instruction set.
LEMMA Fits ==
    ASSUME NEW x \in Instruction
    PROVE  /\ x.guard \in {NoGuard} \cup [r : Registers, sense : BOOLEAN, new : BOOLEAN]
           /\ x.cof \in Branching(x.op) /\ OperandsFit(x) /\ PredicatesFit(x)
           /\ x.part1 \in BOOLEAN /\ x.at \in Nat
BY DEF Instruction

\* An instruction of a packet knows its place.
LEMMA IndexIs ==
    ASSUME NEW q \in Seq(Instruction), Legal(q), NEW i \in 1 .. Len(q)
    PROVE  q[i] \in Instruction /\ q[i].at = i /\ ~q[i].part1
<1>1. q[i] \in Instruction
  BY ElementOfSeq
<1>2. QED
  BY <1>1 DEF Legal

\* A new-value jump writes nothing.
LEMMA JumpsWriteNothing ==
    ASSUME NEW x \in Instruction, x.op = "newjump", NEW d \in Range(x.to)
    PROVE  FALSE
<1>1. x.to = << >>
  BY Fits DEF OperandsFit
<1>2. QED
  BY <1>1 DEF Range

\* A compare-jump writes the predicate it branches on.
LEMMA CmpJumpIs ==
    ASSUME NEW x \in Instruction, IsCmpJump(x)
    PROVE  /\ x.guard.new /\ Guarded(x) /\ x.op # "newjump" /\ x.guard.r \in Predicates
           /\ Range(x.to) = {<<"rw", x.guard.r>>}
           /\ Written(x) = {x.guard.r}
           /\ \A s \in Range(x.from) : s[1] = "reg"
<1>1. x.guard.new /\ x.to = << <<"rw", x.guard.r>> >> /\ x.op = "cmpjump"
  BY Fits DEF PredicatesFit, IsCmpJump
<1>2. Guarded(x)
  BY <1>1 DEF Guarded, NoGuard
<1>3. x.guard.r \in Predicates
  BY <1>1, <1>2, Fits DEF PredicatesFit, EndsLoop
<1>4. Range(x.to) = {<<"rw", x.guard.r>>}
  BY <1>1 DEF Range
<1>5. Written(x) = {x.guard.r}
  <2> DEFINE d == <<"rw", x.guard.r>>
  <2>1. Range(RegistersOf(d)) = {x.guard.r} /\ d[1] # "keep"
    BY RegistersOfIs
  <2>2. \A r : r \in Written(x) <=> r \in Range(RegistersOf(d))
    BY <1>4, <2>1, WrittenIs
  <2>3. QED
    BY <2>1, <2>2
<1>6. \A s \in Range(x.from) : s[1] = "reg"
  BY Fits DEF OperandsFit
<1>7. QED
  BY <1>1, <1>2, <1>3, <1>4, <1>5, <1>6

\* Guards that exclude each other wait for the same value.
LEMMA DeciderShared ==
    ASSUME NEW q \in Seq(Instruction), Legal(q), NEW i \in 1 .. Len(q), NEW j \in 1 .. Len(q),
           Alternatives(q[i], q[j]), q[i].op # "newjump", q[j].op # "newjump"
    PROVE  Decider(q, i) = Decider(q, j)
<1>1. q[i].guard.r = q[j].guard.r /\ q[i].guard.new = q[j].guard.new
  BY DEF Alternatives
<1>2. CASE q[i].guard.new
  <2>1. PICK k \in 1 .. Len(q) :
                 /\ ProducersOf(q, q[i].guard.r) = {k} /\ (Guarded(q[k]) => IsCmpJump(q[k]))
                 /\ IsCmpJump(q[i]) => k = i
    BY <1>2, NewGuard
  <2>2. ProducerOf(q, i, q[i].guard.r) = k
    BY <2>1 DEF ProducerOf
  <2>3. ProducerOf(q, j, q[i].guard.r) = k
    BY <2>1 DEF ProducerOf
  <2>4. QED
    BY <1>1, <1>2, <2>2, <2>3 DEF Decider
<1>3. CASE ~q[i].guard.new
  BY <1>1, <1>3 DEF Decider
<1>4. QED
  BY <1>2, <1>3

\* Of two alternatives exactly one executes.
LEMMA OneOfTwo ==
    ASSUME NEW q \in Seq(Instruction), Legal(q), NEW i \in 1 .. Len(q), NEW j \in 1 .. Len(q),
           Alternatives(q[i], q[j]), q[i].op # "newjump", q[j].op # "newjump", NEW tr
    PROVE  Happens(q, i, tr) <=> ~Happens(q, j, tr)
<1>1. Decider(q, i) = Decider(q, j)
  BY DeciderShared
<1>2. Guarded(q[i]) /\ Guarded(q[j]) /\ q[i].guard.sense # q[j].guard.sense
  BY DEF Alternatives
<1>3. q[i].guard.sense \in BOOLEAN /\ q[j].guard.sense \in BOOLEAN
  <2>1. \A x \in Instruction : Guarded(x) => x.guard.sense \in BOOLEAN
    BY Fits DEF Guarded
  <2>2. QED
    BY <1>2, <2>1, IndexIs
<1> DEFINE b == Decider(q, i) \in tr
<1>4. (Happens(q, i, tr) <=> b = q[i].guard.sense) /\ (Happens(q, j, tr) <=> b = q[j].guard.sense)
  BY <1>1, <1>2, Zenon DEF Happens
<1>5. b \in BOOLEAN
  OBVIOUS
<1> HIDE DEF b
<1>6. QED
  BY <1>2, <1>3, <1>4, <1>5

\* A register is written by one instruction.
LEMMA WriterUnique ==
    ASSUME NEW q \in Seq(Instruction), Legal(q), NEW tr, NEW i \in Writers(q, tr),
           NEW j \in Writers(q, tr), NEW r, r \in Written(q[i]), r \in Written(q[j])
    PROVE  i = j
<1>1. SUFFICES ASSUME i # j
               PROVE  FALSE
  OBVIOUS
<1>2. i \in 1 .. Len(q) /\ j \in 1 .. Len(q)
  BY DEF Writers
<1>3. q[i] \in Instruction /\ q[j] \in Instruction
  BY <1>2, IndexIs
<1>4. Alternatives(q[i], q[j])
  BY <1>1, <1>2 DEF Legal, WrittenOnce
<1>5. ASSUME NEW k \in 1 .. Len(q), NEW l \in 1 .. Len(q), k # l, IsCmpJump(q[k]),
             r \in Written(q[l]), r \in Written(q[k])
      PROVE  FALSE
  <2>1. q[k] \in Instruction
    BY IndexIs
  <2>2. q[k].guard.new /\ Written(q[k]) = {q[k].guard.r}
    BY <1>5, <2>1, CmpJumpIs
  <2>3. ProducersOf(q, q[k].guard.r) = {k}
    BY <1>5, <2>2, NewGuard
  <2>4. l \in ProducersOf(q, q[k].guard.r)
    BY <1>5, <2>2 DEF ProducersOf
  <2>5. QED
    BY <1>5, <2>3, <2>4
<1>6. ~IsCmpJump(q[i]) /\ ~IsCmpJump(q[j])
  BY <1>1, <1>2, <1>5
<1>7. Happens(q, i, tr) /\ Happens(q, j, tr)
  BY <1>6 DEF Writers
<1>8. q[i].op # "newjump" /\ q[j].op # "newjump"
  BY <1>3, WrittenIs, JumpsWriteNothing
<1>9. QED
  BY <1>2, <1>4, <1>7, <1>8, OneOfTwo

\* What the registers hold after the packet.
LEMMA FinalRegister ==
    ASSUME NEW q \in Seq(Instruction), Legal(q), NEW tr, NEW r \in Registers
    PROVE  /\ \A j \in Writers(q, tr) : r \in Written(q[j]) =>
                 InParallel(q, tr).regs[r] = Result(q[j], r, Arguments(q, tr)[j])
           /\ (\A j \in Writers(q, tr) : r \notin Written(q[j])) =>
                 InParallel(q, tr).regs[r] = Initially(r)
<1> DEFINE on == {i \in 1 .. Len(q) : Happens(q, i, tr)}
           writers == on \cup {i \in 1 .. Len(q) : IsCmpJump(q[i])}
           w == CHOOSE i \in writers : r \in Written(q[i])
<1>1. InParallel(q, tr).regs[r] = IF \E i \in writers : r \in Written(q[i])
                                  THEN Result(q[w], r, Arguments(q, tr)[w])
                                  ELSE Initially(r)
  BY DEF InParallel
<1>2. writers = Writers(q, tr)
  BY DEF Writers
<1> HIDE DEF on, writers
<1>3. ASSUME NEW j \in Writers(q, tr), r \in Written(q[j])
      PROVE  w = j
  <2>1. w \in Writers(q, tr) /\ r \in Written(q[w])
    BY <1>2, <1>3
  <2> HIDE DEF w
  <2>2. QED
    BY <1>3, <2>1, WriterUnique
<1> HIDE DEF w
<1>4. QED
  BY <1>1, <1>2, <1>3

-----------------------------------------------------------------------------
(* The state between the lifters of two instructions. *)

Args  == Arguments(src, truthy)
Final == InParallel(src, truthy)

\* Of a compare-jump the compare carries out the writes.
Carries(insn) == IsCmpJump(insn) => insn.part1

\* The instructions of the packet whose writes are lifted, and those of them
\* whose results are written.
Lifted == {insns[k].at : k \in {l \in 1 .. n - 1 : Carries(insns[l])}}
Active == Lifted \cap Writers(src, truthy)

\* Registers written by name have their results, the others are untouched.
NamedDone ==
    /\ \A i \in Active : \A r \in Registers :
          <<"direct", r>> \in Range(src[i].to) => regs[r] = Result(src[i], r, Args[i])
    /\ \A r \in Registers :
          (\A i \in Active : <<"direct", r>> \notin Range(src[i].to)) => regs[r] = Initially(r)

\* The other results are in the temporaries.
TempsDone ==
    \A i \in Active : \A d \in Range(src[i].to) : d[1] \in {"reg", "rw", "pair"} =>
        /\ temp[d[2]][1] = Result(src[i], d[2], Args[i])
        /\ Wide(d) => temp[d[2]][2] = Result(src[i], d[2] + 1, Args[i])

Unwritten(d) ==
    \/ d[1] = "keep"
    \/ d[1] = "rw" /\ \A j \in Active : d \notin Range(src[j].to)

\* The temporary of a register that is read and written has its old value until
\* it is written.
CopiesKept ==
    \A i \in Lifted : \A d \in Range(src[i].to) : Unwritten(d) => temp[d[2]][1] = Initially(d[2])

\* The destinations are those of the instructions lifted, each with its size.
Asked ==
    /\ \A r \in DOMAIN dests : \E i \in Lifted : \E d \in Range(src[i].to) :
          d[1] # "direct" /\ d[2] = r /\ dests[r] = IF Wide(d) THEN 8 ELSE 4
    /\ \A i \in Lifted : \A d \in Range(src[i].to) : d[1] # "direct" => d[2] \in DOMAIN dests

\* The log has what the instructions lifted store, in the order of the packet.
LogOf(done) ==
    FlattenSeq([j \in 1 .. Len(src) |->
                   IF j \in done THEN StoredBy(src, truthy, Args, j) ELSE << >>])
StoresDone == mem = LogOf(Lifted)

\* The flags and the targets of the branches lifted.
FlagsDone ==
    \A k \in 1 .. Len(insns) : Leaves(insns[k]) /\ Guarded(insns[k]) =>
        temp[BranchTaken(k)][1] =
            IF k < n /\ Happens(src, insns[k].at, truthy) THEN One ELSE Zero
TargetsDone ==
    \A k \in 1 .. n - 1 :
        insns[k].cof \in {"jumpr", "callr", "loop"} /\ Happens(src, insns[k].at, truthy) =>
            temp[BranchrDest(k)][1] = Args[insns[k].at][1]

Midway ==
    /\ NamedDone /\ TempsDone /\ CopiesKept /\ Asked /\ StoresDone
    /\ FlagsDone /\ TargetsDone

\* The registers that the write-back is still to set.
Pending(r) == r \in DOMAIN dests \/ \E p \in DOMAIN dests : dests[p] = 8 /\ r = p + 1

\* During the write-back.
Settling ==
    /\ n = Len(insns) + 1
    /\ \A r \in Registers : Pending(r) \/ regs[r] = Final.regs[r]
    /\ \A p \in DOMAIN dests :
          /\ temp[p][1] = Final.regs[p]
          /\ dests[p] = 8 => temp[p][2] = Final.regs[p + 1]
    /\ mem = Final.mem
    /\ FlagsDone /\ TargetsDone

\* Between two lifters.
Ready ==
    /\ IInv /\ Covered(src)
    /\ phase = "lift" /\ n <= Len(insns) /\ Midway

\* An instruction of the prepared packet is executed.
Acts(insn) == insn.part1 \/ Happens(src, insn.at, truthy)

\* The registers, numbers of their own temporaries, the copies of pairs and the
\* others are apart.
LEMMA TempsApart ==
    /\ \A r \in Registers : r \in 0 .. 99
    /\ \A p \in Pairs : p \in 0 .. 30 /\ SourcePair(p) = 100 + p
    /\ EA_REG = 100
    /\ \A i \in 1 .. 7 : BranchrDest(i) = 199 + i /\ BranchTaken(i) = 209 + i
BY DEF Registers, Pairs, SP, FP, LR, SA0, LC0, P0, P3, SourcePair, EA_REG, BranchrDest, BranchTaken

\* The kinds of destinations, and where they are.
LEMMA DestinationIs ==
    ASSUME NEW x \in Instruction, NEW d \in Range(x.to)
    PROVE  /\ d[1] \in {"reg", "rw", "pair", "direct", "keep"} /\ d = <<d[1], d[2]>>
           /\ d[2] \in Registers
           /\ d[1] = "pair" => d[2] \in Pairs
           /\ d[1] = "direct" => d[2] \notin Predicates
           /\ d[1] = "keep" => d[2] \in Predicates
<1>1. d \in Destinations
  BY OperandsAre
<1>2. CASE d \in {<<kind, r>> : kind \in {"reg", "rw"}, r \in Registers}
  BY <1>2
<1>3. CASE d \in {<<"pair", r>> : r \in Pairs}
  BY <1>3, RegistersAreTemps
<1>4. CASE d \in {<<"direct", r>> : r \in {SP, FP, LC0, SA0}}
  BY <1>4 DEF Registers, Predicates, SP, FP, LC0, SA0, P0, P3
<1>5. CASE d \in {<<"keep", r>> : r \in Predicates}
  BY <1>5 DEF Predicates, Registers
<1>6. QED
  BY <1>1, <1>2, <1>3, <1>4, <1>5 DEF Destinations

\* The kinds of sources, and where they are.
LEMMA SourceIs ==
    ASSUME NEW x \in Instruction, NEW s \in Range(x.from)
    PROVE  /\ s[1] \in {"reg", "rw", "pair", "new"} /\ s = <<s[1], s[2]>>
           /\ s[2] \in Registers
           /\ s[1] = "pair" => s[2] \in Pairs
<1>1. s \in Sources
  BY OperandsAre
<1>2. CASE s \in {<<kind, r>> : kind \in {"reg", "rw", "new"}, r \in Registers}
  BY <1>2
<1>3. CASE s \in {<<"pair", r>> : r \in Pairs}
  BY <1>3, RegistersAreTemps
<1>4. QED
  BY <1>1, <1>2, <1>3 DEF Sources

\* The packet and its instructions in the order they are lifted.
LEMMA ReadyIs ==
    ASSUME IInv, phase # "prepare"
    PROVE  /\ src \in Seq(Instruction) /\ Legal(src) /\ Len(src) \in Nat
           /\ insns = PreparePacketForLifting(src) /\ Arranged(insns, src)
           /\ Len(insns) \in 1 .. 7 /\ n \in 1 .. Len(insns) + 1
<1>1. src \in Seq(Instruction) /\ src # << >> /\ Legal(src)
  BY FetchedIs DEF IInv
<1>2. insns = PreparePacketForLifting(src) /\ n \in 1 .. Len(insns) + 1
  BY DEF IInv
<1>3. Arranged(insns, src)
  BY <1>1, <1>2, PreparedOrder
<1>4. QED
  BY <1>1, <1>2, <1>3, LenProperties DEF Arranged

\* An instruction of the prepared packet is one of the packet, or its compare.
LEMMA InsnIs ==
    ASSUME IInv, phase # "prepare", NEW k \in 1 .. Len(insns)
    PROVE  /\ insns[k] \in Instruction /\ insns[k].at \in 1 .. Len(src)
           /\ src[insns[k].at] \in Instruction /\ src[insns[k].at].at = insns[k].at
           /\ insns[k].op = src[insns[k].at].op /\ insns[k].from = src[insns[k].at].from
           /\ insns[k].to = src[insns[k].at].to /\ insns[k].guard = src[insns[k].at].guard
           /\ insns[k].cof = src[insns[k].at].cof
           /\ insns[k].part1 => IsCmpJump(insns[k])
<1> DEFINE x == insns[k]
           y == src[insns[k].at]
<1>1. /\ x \in Instruction /\ x.at \in 1 .. Len(src)
      /\ ~x.part1 => x = y
      /\ x.part1 => IsCmpJump(x) /\ x = CompareHalf(y)
  BY ReadyIs DEF Arranged
<1>2. src \in Seq(Instruction) /\ Legal(src)
  BY ReadyIs
<1>3. y \in Instruction /\ y.at = x.at
  BY <1>1, <1>2, IndexIs
<1> HIDE DEF x, y
<1>4. CompareHalf(y) = [y EXCEPT !.part1 = TRUE]
  BY DEF CompareHalf
<1>5. x.op = y.op /\ x.from = y.from /\ x.to = y.to /\ x.guard = y.guard /\ x.cof = y.cof
  <2>1. CASE x.part1
    <3>1. x = [y EXCEPT !.part1 = TRUE]
      BY <1>1, <1>4, <2>1
    <3>2. QED
      BY <1>3, <3>1 DEF Instruction
  <2>2. CASE ~x.part1
    BY <1>1, <2>2
  <2>3. QED
    BY <2>1, <2>2
<1>6. QED
  BY <1>1, <1>3, <1>5 DEF x, y

\* What is lifted has been reached.
LEMMA LiftedAre ==
    ASSUME IInv, phase # "prepare", NEW i \in Lifted
    PROVE  /\ i \in 1 .. Len(src)
           /\ \E l \in 1 .. Len(insns) : l < n /\ insns[l].at = i /\ Carries(insns[l])
<1>1. PICK l \in 1 .. n - 1 : insns[l].at = i /\ Carries(insns[l])
  BY DEF Lifted
<1>2. l \in 1 .. Len(insns) /\ l < n
  BY ReadyIs
<1>3. QED
  BY <1>1, <1>2, InsnIs

\* What is read is untouched.
LEMMA OldSource ==
    ASSUME Ready, NEW s \in Range(insns[n].from), NEW r \in Range(RegistersOf(s))
    PROVE  r \in Registers /\ regs[r] = Initially(r)
<1>1. IInv /\ phase # "prepare" /\ n \in 1 .. Len(insns) /\ NamedDone /\ DirectWritesLast(src)
      /\ insns = PreparePacketForLifting(src)
  BY ReadyIs DEF Ready, Midway, Covered
<1>2. insns[n] \in Instruction
  BY <1>1, InsnIs
<1>3. r \in Registers
  <2>1. s[2] \in Registers /\ (s[1] = "pair" => s[2] \in Pairs)
    BY <1>2, SourceIs
  <2>2. QED
    BY <2>1, RegistersOfIs, RegistersAreTemps
<1>4. r \in Read(insns[n])
  BY DEF Read
<1>5. ASSUME NEW i \in Active, <<"direct", r>> \in Range(src[i].to)
      PROVE  FALSE
  <2>1. PICK l \in 1 .. Len(insns) : l < n /\ insns[l].at = i
    BY <1>1, LiftedAre DEF Active
  <2>2. insns[l].to = src[i].to
    BY <1>1, <2>1, InsnIs
  <2> DEFINE d == <<"direct", r>>
  <2>3. d \in Range(insns[l].to) /\ d[1] = "direct" /\ d[2] = r
    BY <1>5, <2>2
  <2> HIDE DEF d
  <2>4. d[2] \notin Read(insns[n])
    BY <1>1, <2>1, <2>3 DEF DirectWritesLast
  <2>5. QED
    BY <1>4, <2>3, <2>4
<1>6. QED
  BY <1>1, <1>3, <1>5 DEF NamedDone

\* So is the register of a guard that does not wait for the packet.
LEMMA OldGuard ==
    ASSUME Ready, Guarded(insns[n]), ~insns[n].guard.new, insns[n].op # "newjump"
    PROVE  regs[insns[n].guard.r] = Initially(insns[n].guard.r)
<1> DEFINE x == insns[n]
           r == x.guard.r
<1>1. IInv /\ phase # "prepare" /\ n \in 1 .. Len(insns) /\ NamedDone
      /\ src \in Seq(Instruction) /\ Legal(src) /\ Len(src) \in Nat
  BY ReadyIs DEF Ready, Midway
<1>2. x \in Instruction /\ x.at \in 1 .. Len(src) /\ x = src[x.at] /\ ~IsCmpJump(x)
  <2>1. x \in Instruction /\ x.at \in 1 .. Len(src)
    BY <1>1, InsnIs
  <2>2. ~IsCmpJump(x)
    BY <2>1, CmpJumpIs
  <2>3. ~x.part1
    BY <1>1, <2>2, InsnIs
  <2>4. QED
    BY <1>1, <2>1, <2>2, <2>3, ReadyIs DEF Arranged
<1> HIDE DEF x
<1>3. r \in IF EndsLoop(x) THEN {LC0} ELSE Predicates
  BY <1>2, Fits DEF PredicatesFit, x
<1>4. r \in Registers
  BY <1>3 DEF Predicates, Registers, LC0
<1>5. ASSUME NEW i \in Active, <<"direct", r>> \in Range(src[i].to)
      PROVE  FALSE
  <2> DEFINE d == <<"direct", r>>
  <2>1. d[1] = "direct" /\ d[2] = r
    OBVIOUS
  <2>2. i \in 1 .. Len(src)
    BY <1>1, LiftedAre DEF Active
  <2>3. src[i] \in Instruction
    BY <1>1, <2>2, IndexIs
  <2>4. r \notin Predicates
    BY <1>5, <2>1, <2>3, DestinationIs
  <2>5. EndsLoop(x) /\ r = LC0
    BY <1>3, <2>4
  <2>6. x.at = Len(src) /\ \A j \in 1 .. x.at - 1 : LC0 \notin Written(src[j])
    BY <1>1, <1>2, <2>5 DEF Legal, LoopsApart
  <2>7. LC0 \in Written(src[i])
    <3>1. LC0 \in Range(RegistersOf(d)) /\ d[1] # "keep"
      BY <2>1, <2>5, RegistersOfIs
    <3>2. QED
      BY <1>5, <3>1, WrittenIs
  <2>8. i = x.at
    BY <1>1, <1>2, <2>2, <2>6, <2>7
  <2>9. PICK l \in 1 .. Len(insns) : l < n /\ insns[l].at = i /\ Carries(insns[l])
    BY <1>1, LiftedAre DEF Active
  <2>10. insns[l].op = src[i].op
    BY <1>1, <2>9, InsnIs
  <2>11. ~insns[l].part1
    <3>1. ~IsCmpJump(insns[l])
      BY <1>2, <2>8, <2>10 DEF IsCmpJump
    <3>2. QED
      BY <1>1, <3>1, InsnIs
  <2>12. l = n
    BY <1>1, <1>2, <2>8, <2>9, <2>11, ReadyIs, IndexIs DEF Arranged, x
  <2>13. QED
    BY <1>1, <2>9, <2>12
<1>6. QED
  BY <1>1, <1>4, <1>5 DEF NamedDone, x

-----------------------------------------------------------------------------
(* The temporaries. *)

\* Before the guard is tested.
Primed(insn) == SetEA(insn, CopyToTemp(insn))

\* What the declarations of an instruction copy to the temporaries.
LEMMA CopyIs ==
    ASSUME NEW x \in Instruction
    PROVE  /\ \A r \in Registers : CopyToTemp(x)[r] =
                 IF r \in CopiedOnce(x) THEN <<regs[r], temp[r][2]>> ELSE temp[r]
           /\ \A p \in Pairs : <<"pair", p>> \in Range(x.from) =>
                 CopyToTemp(x)[SourcePair(p)] = <<regs[p], regs[p + 1]>>
           /\ \A i \in 1 .. 7 : /\ CopyToTemp(x)[BranchTaken(i)] = temp[BranchTaken(i)]
                                /\ CopyToTemp(x)[BranchrDest(i)] = temp[BranchrDest(i)]
<1> DEFINE c == CopyToTemp(x)
           CopiedTo(t, s) == s \in Range(x.from) /\ Wide(s) /\ t = SourcePair(s[2])
<1>1. ASSUME NEW s \in Range(x.from), Wide(s)
      PROVE  s[2] \in Pairs /\ s = <<"pair", s[2]>>
  BY <1>1, SourceIs DEF Wide
<1>2. CopiedOnce(x) \subseteq Registers
  BY DeclaredAre DEF CopiedOnce
<1>3. {Dest(r) : r \in CopiedOnce(x)} = CopiedOnce(x)
  BY DEF Dest
<1>4. ASSUME NEW t \in Temps
      PROVE  c[t] = IF t \in CopiedOnce(x) THEN <<regs[t], temp[t][2]>>
                    ELSE IF \E s : CopiedTo(t, s)
                    THEN LET s == CHOOSE s \in Range(x.from) : Wide(s) /\ t = SourcePair(s[2])
                         IN  <<regs[s[2]], regs[s[2] + 1]>>
                    ELSE temp[t]
  BY <1>3 DEF CopyToTemp
<1> HIDE DEF c
<1>5. ASSUME NEW r \in Registers
      PROVE  c[r] = IF r \in CopiedOnce(x) THEN <<regs[r], temp[r][2]>> ELSE temp[r]
  <2>1. ~ \E s : CopiedTo(r, s)
    BY <1>1, TempsApart
  <2>2. r \in Temps
    BY RegistersAreTemps
  <2> HIDE DEF CopiedTo
  <2>3. QED
    BY <1>4, <2>1, <2>2
<1>6. ASSUME NEW p \in Pairs, <<"pair", p>> \in Range(x.from)
      PROVE  c[SourcePair(p)] = <<regs[p], regs[p + 1]>>
  <2> DEFINE t == SourcePair(p)
             w == CHOOSE s \in Range(x.from) : Wide(s) /\ t = SourcePair(s[2])
  <2>1. t \in Temps /\ t \notin CopiedOnce(x)
    BY <1>2, RegistersAreTemps, TempsApart
  <2>2. CopiedTo(t, <<"pair", p>>)
    BY <1>6 DEF Wide
  <2>3. w \in Range(x.from) /\ Wide(w) /\ t = SourcePair(w[2])
    BY <2>2
  <2>4. c[t] = <<regs[w[2]], regs[w[2] + 1]>>
    <3>1. \E s : CopiedTo(t, s)
      BY <2>2
    <3> HIDE DEF CopiedTo
    <3>2. QED
      BY <1>4, <2>1, <3>1
  <2> HIDE DEF w
  <2>5. w[2] = p
    BY <1>1, <2>3, TempsApart
  <2>6. QED
    BY <2>4, <2>5
<1>7. ASSUME NEW i \in 1 .. 7, NEW t \in {BranchTaken(i), BranchrDest(i)}
      PROVE  c[t] = temp[t]
  <2>1. t \in Temps
    BY RegistersAreTemps
  <2>2. t \notin CopiedOnce(x) /\ ~ \E s : CopiedTo(t, s)
    BY <1>1, <1>2, TempsApart
  <2> HIDE DEF CopiedTo
  <2>3. QED
    BY <1>4, <2>1, <2>2
<1>8. QED
  BY <1>5, <1>6, <1>7 DEF c

\* The address leaves the temporaries as they are, but for EA_REG and the copy of
\* the pair that shares its number.
LEMMA PrimedIs ==
    ASSUME Tables(regs, temp), NEW x \in Instruction
    PROVE  /\ Tables(regs, Primed(x))
           /\ \A r \in Registers : Primed(x)[r] = CopyToTemp(x)[r]
           /\ \A p \in Pairs : (IsMemory(x) => p # 0) =>
                 Primed(x)[SourcePair(p)] = CopyToTemp(x)[SourcePair(p)]
           /\ \A i \in 1 .. 7 : /\ Primed(x)[BranchTaken(i)] = temp[BranchTaken(i)]
                                /\ Primed(x)[BranchrDest(i)] = temp[BranchrDest(i)]
           /\ IsMemory(x) => Primed(x)[EA_REG][1] = Operand(x.from[1], CopyToTemp(x))[1]
<1> DEFINE c == CopyToTemp(x)
           v == Operand(x.from[1], c)[1]
<1>1. Tables(regs, c) /\ Tables(regs, Primed(x))
  BY CopyToTempIs, SetEAIs DEF Primed
<1>2. Primed(x) = IF IsMemory(x) THEN [c EXCEPT ![EA_REG] = <<v, c[EA_REG][2]>>] ELSE c
  BY DEF Primed, SetEA
<1>3. DOMAIN c = Temps /\ EA_REG \in Temps
  BY <1>1, RegistersAreTemps DEF Tables
<1>4. \A i \in 1 .. 7 : c[BranchTaken(i)] = temp[BranchTaken(i)] /\ c[BranchrDest(i)] = temp[BranchrDest(i)]
  BY CopyIs
<1> HIDE DEF c, v
<1>5. \A t \in Temps : t # EA_REG \/ ~IsMemory(x) => Primed(x)[t] = c[t]
  BY <1>2, <1>3
<1>6. IsMemory(x) => Primed(x)[EA_REG][1] = v
  BY <1>2, <1>3
<1>7. \A r \in Registers : r \in Temps /\ r # EA_REG
  BY RegistersAreTemps, TempsApart
<1>8. \A p \in Pairs : SourcePair(p) \in Temps /\ (p # 0 => SourcePair(p) # EA_REG)
  BY RegistersAreTemps, TempsApart
<1>9. \A i \in 1 .. 7 : /\ BranchTaken(i) \in Temps /\ BranchTaken(i) # EA_REG
                        /\ BranchrDest(i) \in Temps /\ BranchrDest(i) # EA_REG
  BY RegistersAreTemps, TempsApart
<1>10. QED
  BY <1>1, <1>4, <1>5, <1>6, <1>7, <1>8, <1>9 DEF c, v

\* The kinds of destinations that have a result in a temporary.
InTemp == {"reg", "rw", "pair"}

\* The temporaries u are t with what the instruction at i writes to them, when it
\* computes with args.
WrittenOver(u, t, x, i, args) ==
    /\ \A r \in Registers : (\A e \in Writes(x) : e[1] \in InTemp => e[2] # r) => u[r] = t[r]
    /\ \A d \in Writes(x) : d[1] \in InTemp /\ (\A e \in Writes(x) : e[2] = d[2] => e = d) =>
          /\ u[d[2]][1] = Result(x, d[2], args)
          /\ Wide(d) => u[d[2]][2] = Result(x, d[2] + 1, args)
    /\ \A k \in 1 .. 7 :
          /\ u[BranchTaken(k)][1] =
               IF k = i /\ Leaves(x) /\ Guarded(x) THEN One ELSE t[BranchTaken(k)][1]
          /\ u[BranchrDest(k)][1] =
               IF k = i /\ x.cof \in {"jumpr", "callr", "loop"}
               THEN args[1] ELSE t[BranchrDest(k)][1]

\* What the writes and the branch of an instruction leave in the temporaries.
LEMMA WrittenTemps ==
    ASSUME NEW t, Tables(regs, t), NEW x \in Instruction, NEW i \in 1 .. 7, NEW args, NEW u,
           u = WriteTemps(x, args, BranchTemps(x, i, args, t))
    PROVE  WrittenOver(u, t, x, i, args)
<1> DEFINE b == BranchTemps(x, i, args, t)
           Hit(k, d) == d[1] \in InTemp /\ k = d[2]
<1>1. ASSUME NEW k \in Temps
      PROVE  u[k] = IF \E d \in Writes(x) : Hit(k, d)
                    THEN LET d == CHOOSE d \in Writes(x) : k = d[2]
                         IN  <<Result(x, k, args),
                               IF Wide(d) THEN Result(x, k + 1, args) ELSE b[k][2]>>
                    ELSE b[k]
  BY DEF WriteTemps, Dest, InTemp
<1>2. \A d \in Writes(x) : d \in Range(x.to)
  BY DEF Writes
<1>3. \A d \in Writes(x) : d[2] \in Registers
  BY <1>2, DestinationIs
<1>4. DOMAIN t = Temps
  BY DEF Tables
<1>5. ASSUME NEW k \in Temps
      PROVE  /\ k # BranchTaken(i) /\ k # BranchrDest(i) => b[k] = t[k]
             /\ k = BranchTaken(i) => b[k][1] = IF Leaves(x) /\ Guarded(x) THEN One ELSE t[k][1]
             /\ k = BranchrDest(i) =>
                   b[k][1] = IF x.cof \in {"jumpr", "callr", "loop"} THEN args[1] ELSE t[k][1]
  <2>1. BranchTaken(i) # BranchrDest(i) /\ BranchTaken(i) \in Temps /\ BranchrDest(i) \in Temps
    BY TempsApart, RegistersAreTemps
  <2> DEFINE f == BranchTaken(i)
             g == BranchrDest(i)
             fv == IF Leaves(x) /\ Guarded(x) THEN <<One, t[f][2]>> ELSE t[f]
             gv == IF x.cof \in {"jumpr", "callr", "loop"} THEN <<args[1], t[g][2]>> ELSE t[g]
  <2>2. b = [t EXCEPT ![f] = IF Leaves(x) /\ Guarded(x) THEN <<One, @[2]>> ELSE @,
                      ![g] = IF x.cof \in {"jumpr", "callr", "loop"} THEN <<args[1], @[2]>> ELSE @]
    BY DEF BranchTemps
  <2> HIDE DEF b, f, g
  <2>3. f # g /\ f \in Temps /\ g \in Temps
    BY <2>1 DEF f, g
  <2>4. b[k] = IF k = g THEN gv ELSE IF k = f THEN fv ELSE t[k]
    BY <1>4, <2>2, <2>3
  <2>5. QED
    BY <2>3, <2>4 DEF f, g
<1> HIDE DEF b
<1>6. ASSUME NEW k \in Temps, \A d \in Writes(x) : ~Hit(k, d)
      PROVE  u[k] = b[k]
  BY <1>1, <1>6
<1>7. ASSUME NEW r \in Registers, \A e \in Writes(x) : e[1] \in InTemp => e[2] # r
      PROVE  u[r] = t[r]
  <2>1. r \in Temps /\ r # BranchTaken(i) /\ r # BranchrDest(i)
    BY RegistersAreTemps, TempsApart
  <2>2. b[r] = t[r]
    BY <1>5, <2>1
  <2>3. \A d \in Writes(x) : ~Hit(r, d)
    BY <1>7
  <2>4. u[r] = b[r]
    <3> HIDE DEF Hit
    <3> QED BY <1>6, <2>1, <2>3
  <2>5. QED
    BY <2>2, <2>4
<1>8. ASSUME NEW d \in Writes(x), d[1] \in InTemp, \A e \in Writes(x) : e[2] = d[2] => e = d
      PROVE  /\ u[d[2]][1] = Result(x, d[2], args)
             /\ Wide(d) => u[d[2]][2] = Result(x, d[2] + 1, args)
  <2> DEFINE k == d[2]
             w == CHOOSE e \in Writes(x) : k = e[2]
  <2>1. k \in Temps
    BY <1>3, RegistersAreTemps
  <2>2. Hit(k, d)
    BY <1>8
  <2>3. w \in Writes(x) /\ k = w[2]
    OBVIOUS
  <2>4. w = d
    <3> HIDE DEF w
    <3> QED BY <1>8, <2>3
  <2>5. \E e \in Writes(x) : Hit(k, e)
    BY <2>2
  <2> HIDE DEF Hit
  <2>6. u[k] = <<Result(x, k, args), IF Wide(w) THEN Result(x, k + 1, args) ELSE b[k][2]>>
    BY <1>1, <2>1, <2>5
  <2> HIDE DEF w
  <2>7. QED
    BY <2>4, <2>6
<1>9. ASSUME NEW k \in 1 .. 7, NEW m \in {BranchTaken(k), BranchrDest(k)}
      PROVE  m \in Temps /\ u[m] = b[m]
  <2>1. m \in Temps
    BY RegistersAreTemps
  <2>2. \A d \in Writes(x) : ~Hit(m, d)
    BY <1>3, TempsApart
  <2> HIDE DEF Hit
  <2>3. QED
    BY <1>6, <2>1, <2>2
<1>10. ASSUME NEW k \in 1 .. 7
       PROVE  /\ u[BranchTaken(k)][1] =
                   IF k = i /\ Leaves(x) /\ Guarded(x) THEN One ELSE t[BranchTaken(k)][1]
              /\ u[BranchrDest(k)][1] =
                   IF k = i /\ x.cof \in {"jumpr", "callr", "loop"}
                   THEN args[1] ELSE t[BranchrDest(k)][1]
  <2>1. /\ BranchTaken(k) \in Temps /\ u[BranchTaken(k)] = b[BranchTaken(k)]
        /\ BranchrDest(k) \in Temps /\ u[BranchrDest(k)] = b[BranchrDest(k)]
    BY <1>9
  <2>2. /\ BranchTaken(k) # BranchrDest(i) /\ BranchrDest(k) # BranchTaken(i)
        /\ k # i => BranchTaken(k) # BranchTaken(i) /\ BranchrDest(k) # BranchrDest(i)
    BY TempsApart
  <2>3. CASE k = i
    BY <1>5, <2>1, <2>3
  <2>4. CASE k # i
    BY <1>5, <2>1, <2>2, <2>4
  <2>5. QED
    BY <2>3, <2>4
<1>11. QED
  BY <1>7, <1>8, <1>10 DEF WrittenOver

-----------------------------------------------------------------------------
(* What an instruction reads while it is lifted. *)

\* What each kind of operand contributes.
LEMMA ReadByIs ==
    ASSUME NEW q, NEW A, NEW i, NEW s
    PROVE  /\ s[1] = "new" =>
                 ReadBy(q, A, i, s) = <<Result(q[ProducerOf(q, i, s[2])], s[2],
                                               A[ProducerOf(q, i, s[2])])>>
           /\ s[1] = "pair" => ReadBy(q, A, i, s) = <<Initially(s[2]), Initially(s[2] + 1)>>
           /\ s[1] # "new" /\ s[1] # "pair" => ReadBy(q, A, i, s) = <<Initially(s[2])>>
BY DEF ReadBy, RegistersOf

\* The values of an operand are a sequence.
LEMMA ShortIsSeq == \A a, b : IsSeq(<<a>>) /\ IsSeq(<<a, b>>)
<1>1. \A a, b : Range(<<a, b>>) = {a, b} /\ Range(<<a>>) = {a}
  BY DEF Range
<1>2. QED
  BY <1>1 DEF IsSeq

\* So are the arguments of an instruction.
LEMMA ArgsAreSeqs ==
    ASSUME NEW q \in Seq(Instruction), Legal(q), NEW tr, NEW i \in 1 .. Len(q)
    PROVE  IsSeq(Arguments(q, tr)[i])
<1> DEFINE len == Len(q)
           A == Arguments(q, tr)
           Good == {m \in 0 .. len : \A k \in 1 .. m : IsSeq(A[k])}
<1>1. len \in Nat
  BY LenProperties
<1>2. ASSUME NEW k \in 1 .. len
      PROVE  A[k] = ArgsOf(q, tr, A, k)
  BY ArgumentsAre
<1> HIDE DEF A
<1>3. ASSUME NEW s, NEW k
      PROVE  IsSeq(ReadBy(q, A, k, s))
  <2>1. \E a, b : ReadBy(q, A, k, s) = <<a>> \/ ReadBy(q, A, k, s) = <<a, b>>
    BY ReadByIs
  <2>2. QED
    BY <2>1, ShortIsSeq
<1>4. ASSUME NEW k \in 1 .. len
      PROVE  IsSeq(OperandsOf(q, A, k))
  <2> DEFINE l == Len(q[k].from)
             g == [m \in 1 .. l |-> ReadBy(q, A, k, q[k].from[m])]
  <2>1. l \in Nat
    <3>1. q[k] \in Instruction
      BY IndexIs DEF len
    <3>2. q[k].from \in Seq(Sources)
      BY <3>1, SourcesAre
    <3>3. QED
      BY <3>2, LenProperties
  <2>2. \A m \in 1 .. l : IsSeq(g[m])
    BY <1>3
  <2>3. OperandsOf(q, A, k) = FlattenSeq(g)
    BY DEF OperandsOf
  <2>4. g = [m \in 1 .. l |-> g[m]]
    OBVIOUS
  <2> HIDE DEF g, l
  <2>5. IsSeq(FlattenSeq([m \in 1 .. l |-> g[m]]))
    BY <2>1, <2>2, FlattenIsSeq
  <2>6. QED
    BY <2>3, <2>4, <2>5
<1>5. 0 \in Good
  BY <1>1
<1>6. ASSUME NEW m \in 1 .. len, m - 1 \in Good
      PROVE  m \in Good
  <2>1. \A k \in 1 .. m - 1 : IsSeq(A[k])
    BY <1>6
  <2> DEFINE l == m - 1
             g == [j \in 1 .. l |-> StoredBy(q, tr, A, j)]
  <2>2. \A j \in 1 .. l : IsSeq(g[j])
    BY <2>1, EmptyIsSeq DEF StoredBy
  <2>3. l \in Nat /\ g = [j \in 1 .. l |-> g[j]]
    BY <1>1
  <2>4. IsSeq(FlattenSeq(g))
    <3> HIDE DEF g, l
    <3>1. IsSeq(FlattenSeq([j \in 1 .. l |-> g[j]]))
      BY <2>2, <2>3, FlattenIsSeq
    <3>2. QED
      BY <2>3, <3>1
  <2>5. IsSeq(OperandsOf(q, A, m))
    BY <1>4
  <2>6. IsSeq(OperandsOf(q, A, m) \o FlattenSeq(g))
    <3> HIDE DEF g
    <3> QED BY <2>4, <2>5, ConcatIsSeq
  <2>7. IsSeq(ArgsOf(q, tr, A, m))
    BY <2>5, <2>6 DEF ArgsOf
  <2>8. IsSeq(A[m])
    BY <1>2, <2>7
  <2>9. \A k \in 1 .. m : k \in 1 .. m - 1 \/ k = m
    BY <1>1
  <2>10. m \in 0 .. len
    BY <1>1
  <2>11. QED
    BY <2>1, <2>8, <2>9, <2>10
<1>7. 0 .. len \subseteq Good
  <2> HIDE DEF Good, len
  <2> QED BY <1>1, <1>5, <1>6, InductionUpTo
<1>8. len \in Good /\ i \in 1 .. len
  BY <1>1, <1>7
<1>9. QED
  BY <1>8 DEF A

\* The instruction that is lifted next.
LEMMA CurrentIs ==
    ASSUME Ready
    PROVE  /\ IInv /\ phase # "prepare" /\ n \in 1 .. Len(insns) /\ Len(insns) \in 1 .. 7
           /\ src \in Seq(Instruction) /\ Legal(src) /\ Len(src) \in Nat
           /\ insns[n] \in Instruction /\ insns[n].at \in 1 .. Len(src)
           /\ insns[n].part1 = TRUE \/ insns[n].part1 = FALSE
           /\ ~insns[n].part1 => insns[n] = src[insns[n].at]
           /\ Tables(regs, temp) /\ Sizes(dests)
<1>1. IInv /\ phase # "prepare" /\ n \in 1 .. Len(insns)
  BY ReadyIs DEF Ready
<1>2. insns[n] \in Instruction /\ insns[n].at \in 1 .. Len(src)
  BY <1>1, InsnIs
<1>3. ~insns[n].part1 => insns[n] = src[insns[n].at]
  BY <1>1, ReadyIs DEF Arranged
<1>4. insns[n].part1 \in BOOLEAN
  BY <1>2, Fits
<1>5. QED
  BY <1>1, <1>2, <1>3, <1>4, ReadyIs DEF IInv

\* An instruction whose writes come before, of which the results are written.
LEMMA LiftedBefore ==
    ASSUME Ready, NEW l \in 1 .. Len(insns), l < n, Carries(insns[l])
    PROVE  insns[l].at \in Lifted
BY CurrentIs DEF Lifted

\* A result that is in its temporary.
LEMMA ResultRead ==
    ASSUME Ready, NEW j \in Active, NEW d \in Range(src[j].to), d[1] \in {"reg", "rw"}
    PROVE  /\ d[2] \in DOMAIN dests /\ d[2] \in Registers
           /\ Primed(insns[n])[d[2]][1] = Result(src[j], d[2], Args[j])
<1>1. j \in Lifted /\ TempsDone /\ Asked
  BY DEF Active, Ready, Midway
<1>2. d[2] \in DOMAIN dests
  BY <1>1 DEF Asked
<1>3. temp[d[2]][1] = Result(src[j], d[2], Args[j])
  BY <1>1 DEF TempsDone
<1>4. Tables(regs, temp) /\ insns[n] \in Instruction /\ d[2] \in Registers
  BY <1>2, CurrentIs DEF Sizes
<1>5. d[2] \notin CopiedOnce(insns[n])
  BY <1>2 DEF CopiedOnce
<1>6. Primed(insns[n])[d[2]] = temp[d[2]]
  <2> DEFINE x == insns[n]
             r == d[2]
  <2>1. Tables(regs, temp) /\ x \in Instruction /\ r \in Registers /\ r \notin CopiedOnce(x)
    BY <1>4, <1>5
  <2> HIDE DEF x, r
  <2>2. Primed(x)[r] = CopyToTemp(x)[r]
    BY <2>1, PrimedIs
  <2>3. CopyToTemp(x)[r] = temp[r]
    BY <2>1, CopyIs
  <2>4. QED
    BY <2>2, <2>3 DEF x, r
<1>7. QED
  BY <1>2, <1>3, <1>4, <1>6

\* What makes a new register value is lifted before what reads it.
LEMMA NewSourceLifted ==
    ASSUME Ready, NEW s \in Range(insns[n].from), s[1] = "new"
    PROVE  \E j \in Active : /\ ProducerOf(src, insns[n].at, s[2]) = j
                             /\ {<<"reg", s[2]>>, <<"rw", s[2]>>} \cap Range(src[j].to) # {}
<1> DEFINE x == insns[n]
           i == x.at
<1>1. /\ IInv /\ phase # "prepare" /\ n \in 1 .. Len(insns) /\ Len(insns) \in 1 .. 7
      /\ src \in Seq(Instruction) /\ Legal(src) /\ Len(src) \in Nat
      /\ x \in Instruction /\ i \in 1 .. Len(src) /\ x.from = src[i].from
  BY CurrentIs, InsnIs
<1>2. s \in Range(src[i].from)
  BY <1>1
<1>3. PICK j \in 1 .. i - 1 :
         /\ ProducersOf(src, s[2]) = {j} /\ (Guarded(src[j]) => IsCmpJump(src[j]))
         /\ {<<"reg", s[2]>>, <<"rw", s[2]>>} \cap Range(src[j].to) # {}
  <2> HIDE DEF i
  <2> QED BY <1>1, <1>2, NewSource
<1>4. IsNewValue(x)
  BY <1>1, Fits DEF OperandsFit
<1>5. j \in 1 .. Len(src) /\ j # i /\ j # Len(src)
  BY <1>1
<1>6. PICK l \in 1 .. Len(insns) : insns[l].at = j /\ Carries(insns[l])
  <2>1. Arranged(insns, src)
    BY <1>1, ReadyIs
  <2>2. CASE IsCmpJump(src[j])
    BY <1>5, <2>1, <2>2 DEF Arranged, Carries
  <2>3. CASE ~IsCmpJump(src[j])
    <3>1. PICK l \in 1 .. Len(insns) : insns[l].at = j /\ ~insns[l].part1
      BY <1>5, <2>1 DEF Arranged
    <3>2. ~IsCmpJump(insns[l])
      BY <1>1, <2>3, <3>1, InsnIs DEF IsCmpJump
    <3>3. QED
      BY <3>1, <3>2 DEF Carries
  <2>4. QED
    BY <2>2, <2>3
<1>7. ~EndsLoop(insns[l])
  <2>1. ~EndsLoop(src[j])
    BY <1>1, <1>5 DEF Legal, LoopsApart
  <2>2. insns[l].op = src[j].op
    BY <1>1, <1>6, InsnIs
  <2>3. QED
    BY <2>1, <2>2 DEF EndsLoop
<1>8. l < n
  <2>1. l # n
    BY <1>5, <1>6
  <2>2. QED
    BY <1>1, <1>4, <1>7, <2>1, ReadyIs DEF Arranged
<1>9. j \in Active
  <2>1. j \in Lifted
    BY <1>6, <1>8, LiftedBefore
  <2>2. j \in Writers(src, truthy)
    BY <1>3, <1>5 DEF Writers, Happens
  <2>3. QED
    BY <2>1, <2>2 DEF Active
<1>10. ProducerOf(src, i, s[2]) = j
  BY <1>3 DEF ProducerOf
<1>11. QED
  BY <1>3, <1>9, <1>10

\* So is what makes a new predicate.
LEMMA NewGuardLifted ==
    ASSUME Ready, insns[n].guard.new, ~insns[n].part1
    PROVE  \E j \in Active : /\ ProducerOf(src, insns[n].at, insns[n].guard.r) = j
                             /\ {<<"reg", insns[n].guard.r>>, <<"rw", insns[n].guard.r>>}
                                   \cap Range(src[j].to) # {}
<1> DEFINE x == insns[n]
           i == x.at
           r == x.guard.r
<1>1. /\ IInv /\ phase # "prepare" /\ n \in 1 .. Len(insns) /\ Len(insns) \in 1 .. 7
      /\ src \in Seq(Instruction) /\ Legal(src) /\ Len(src) \in Nat
      /\ x \in Instruction /\ i \in 1 .. Len(src) /\ x = src[i]
  BY CurrentIs
<1>2. PICK j \in 1 .. Len(src) :
         /\ ProducersOf(src, src[i].guard.r) = {j} /\ (Guarded(src[j]) => IsCmpJump(src[j]))
         /\ IsCmpJump(src[i]) => j = i
  <2>1. src[i].guard.new
    BY <1>1
  <2> HIDE DEF i
  <2>2. QED
    BY <1>1, <2>1, NewGuard
<1>3. r \in Predicates /\ ~IsCompare(x)
  <2>1. Guarded(x)
    BY DEF Guarded, NoGuard
  <2>2. QED
    BY <1>1, <2>1, Fits DEF PredicatesFit
<1>4. ProducersOf(src, r) = {j}
  BY <1>1, <1>2
<1>5. r \in Written(src[j]) /\ src[j] \in Instruction
  BY <1>1, <1>4, IndexIs DEF ProducersOf
<1> HIDE DEF x, i, r
<1>6. PICK d \in Range(src[j].to) : d[1] # "keep" /\ r \in Range(RegistersOf(d))
  BY <1>5, WrittenIs
<1>7. /\ d[1] \in {"reg", "rw", "pair", "direct", "keep"} /\ d = <<d[1], d[2]>>
      /\ d[1] = "pair" => d[2] \in Pairs
      /\ d[1] = "direct" => d[2] \notin Predicates
  BY <1>5, DestinationIs
<1>8. d[1] # "pair"
  <2>1. ASSUME d[1] = "pair"
        PROVE  FALSE
    <3>1. d[2] \in Pairs /\ (r = d[2] \/ r = d[2] + 1)
      BY <1>6, <1>7, <2>1, RegistersOfIs
    <3>2. \A p \in Pairs : p \notin Predicates /\ p + 1 \notin Predicates
      BY DEF Pairs, Predicates, FP, P0, P3
    <3>3. QED
      BY <1>3, <3>1, <3>2
  <2>2. QED
    BY <2>1
<1>9. d[2] = r
  BY <1>6, <1>8, RegistersOfIs
<1>10. d[1] \in {"reg", "rw"} /\ d \in {<<"reg", r>>, <<"rw", r>>}
  BY <1>3, <1>6, <1>7, <1>8, <1>9
<1>11. IsCompare(src[j]) \/ IsCmpJump(src[j])
  BY <1>3, <1>5, <1>6, <1>9, Fits DEF PredicatesFit
<1>12. PICK l \in 1 .. Len(insns) : insns[l].at = j /\ Carries(insns[l]) /\ Leads(insns[l])
  <2>1. Arranged(insns, src)
    BY <1>1, ReadyIs
  <2>2. CASE IsCmpJump(src[j])
    BY <2>1, <2>2 DEF Arranged, Carries, Leads
  <2>3. CASE ~IsCmpJump(src[j])
    <3>1. PICK l \in 1 .. Len(insns) : insns[l].at = j /\ ~insns[l].part1
      BY <2>1 DEF Arranged
    <3>2. ~IsCmpJump(insns[l]) /\ IsCompare(insns[l])
      BY <1>1, <1>11, <2>3, <3>1, InsnIs DEF IsCmpJump, IsCompare
    <3>3. QED
      BY <3>1, <3>2 DEF Carries, Leads
  <2>4. QED
    BY <2>2, <2>3
<1>13. l < n
  <2>1. ~Leads(insns[n])
    BY <1>3 DEF Leads, x
  <2>2. l # n
    BY <1>12, <2>1
  <2>3. ~ (n < l)
    BY <1>1, <1>12, <2>1, ReadyIs DEF Arranged
  <2>4. QED
    BY <1>1, <2>2, <2>3
<1>14. j \in Active
  <2>1. j \in Lifted
    BY <1>12, <1>13, LiftedBefore
  <2>2. j \in Writers(src, truthy)
    BY <1>2 DEF Writers, Happens
  <2>3. QED
    BY <2>1, <2>2 DEF Active
<1>15. ProducerOf(src, i, r) = j
  BY <1>4 DEF ProducerOf
<1>16. QED
  BY <1>6, <1>10, <1>14, <1>15 DEF x, i, r

\* An instruction is lifted once.
LEMMA NotYetLifted ==
    ASSUME Ready, Carries(insns[n])
    PROVE  insns[n].at \notin Lifted
<1>1. SUFFICES ASSUME insns[n].at \in Lifted
               PROVE  FALSE
  OBVIOUS
<1>2. IInv /\ phase # "prepare" /\ n \in 1 .. Len(insns) /\ Len(insns) \in 1 .. 7
  BY CurrentIs
<1>3. PICK l \in 1 .. Len(insns) : l < n /\ insns[l].at = insns[n].at /\ Carries(insns[l])
  BY <1>1, <1>2, LiftedAre
<1>4. insns[l].op = insns[n].op
  BY <1>2, <1>3, InsnIs
<1>5. (insns[l].part1 => IsCmpJump(insns[l])) /\ (insns[n].part1 => IsCmpJump(insns[n]))
  BY <1>2, <1>3, InsnIs
<1>6. insns[l].part1 \in BOOLEAN /\ insns[n].part1 \in BOOLEAN
  BY <1>2, <1>3, InsnIs, Fits
<1>7. insns[l].part1 = insns[n].part1
  BY <1>3, <1>4, <1>5, <1>6 DEF Carries, IsCmpJump
<1>8. l = n
  BY <1>2, <1>3, <1>7, ReadyIs DEF Arranged
<1>9. QED
  BY <1>2, <1>3, <1>8

\* What happens to be a destination twice is the same destination.
LEMMA SameDestination ==
    ASSUME NEW q, OneWidth(q), NEW i \in 1 .. Len(q), NEW j \in 1 .. Len(q),
           NEW d \in Range(q[i].to), NEW e \in Range(q[j].to),
           NEW r, r \in Range(RegistersOf(d)), r \in Range(RegistersOf(e))
    PROVE  d = e
BY DEF OneWidth

\* An operand stands for the register it names.
LEMMA FirstRegister == \A d : d[2] \in Range(RegistersOf(d))
BY RegistersOfIs

\* The lifted code reads what the instruction reads in the parallel packet.
LEMMA OperandRead ==
    ASSUME Ready, Acts(insns[n]), NEW s \in Range(insns[n].from),
           IsMemory(insns[n]) /\ s[1] = "pair" => s[2] # 0
    PROVE  Operand(s, Primed(insns[n])) = ReadBy(src, Args, insns[n].at, s)
<1> DEFINE x == insns[n]
           i == x.at
           r == s[2]
           t == Primed(x)
<1>1. /\ IInv /\ phase # "prepare" /\ n \in 1 .. Len(insns) /\ Len(insns) \in 1 .. 7
      /\ src \in Seq(Instruction) /\ Legal(src) /\ Len(src) \in Nat
      /\ x \in Instruction /\ i \in 1 .. Len(src) /\ (~x.part1 => x = src[i])
      /\ Tables(regs, temp)
  BY CurrentIs
<1>2. /\ s[1] \in {"reg", "rw", "pair", "new"} /\ s = <<s[1], s[2]>> /\ r \in Registers
      /\ s[1] = "pair" => r \in Pairs
  BY <1>1, SourceIs
<1>3. \A p \in Range(RegistersOf(s)) : regs[p] = Initially(p)
  BY OldSource
<1>4. regs[r] = Initially(r)
  BY <1>3, FirstRegister
<1>5. CASE s[1] = "reg"
  <2>1. Operand(s, t) = <<regs[r]>>
    BY <1>5 DEF Operand
  <2>2. QED
    BY <1>4, <1>5, <2>1, ReadByIs
<1>6. CASE s[1] = "pair"
  <2>1. r + 1 \in Range(RegistersOf(s))
    BY <1>6, RegistersOfIs
  <2>2. regs[r + 1] = Initially(r + 1)
    BY <1>3, <2>1
  <2>3. <<"pair", r>> \in Range(x.from) /\ r \in Pairs /\ (IsMemory(x) => r # 0)
    BY <1>2, <1>6
  <2> HIDE DEF x, r
  <2>4. Primed(x)[SourcePair(r)] = CopyToTemp(x)[SourcePair(r)]
    BY <1>1, <2>3, PrimedIs
  <2>5. CopyToTemp(x)[SourcePair(r)] = <<regs[r], regs[r + 1]>>
    BY <1>1, <2>3, CopyIs
  <2>6. Operand(s, t) = t[SourcePair(r)]
    BY <1>6 DEF Operand, r
  <2>7. ReadBy(src, Args, i, s) = <<Initially(r), Initially(r + 1)>>
    BY <1>6, ReadByIs DEF r
  <2>8. Operand(s, t) = ReadBy(src, Args, i, s)
    BY <1>4, <2>2, <2>4, <2>5, <2>6, <2>7
  <2>9. QED
    BY <2>8 DEF x
<1>7. CASE s[1] = "new"
  <2>1. PICK j \in Active : /\ ProducerOf(src, i, r) = j
                            /\ {<<"reg", r>>, <<"rw", r>>} \cap Range(src[j].to) # {}
    BY <1>7, NewSourceLifted
  <2>2. PICK d \in Range(src[j].to) : d \in {<<"reg", r>>, <<"rw", r>>}
    BY <2>1
  <2>3. d[1] \in {"reg", "rw"} /\ d[2] = r
    BY <2>2
  <2>4. t[r][1] = Result(src[j], r, Args[j])
    BY <2>3, ResultRead
  <2>5. Operand(s, t) = <<t[r][1]>>
    BY <1>7 DEF Operand, Dest
  <2>6. QED
    BY <1>7, <2>1, <2>4, <2>5, ReadByIs
<1>8. CASE s[1] = "rw"
  <2>1. ~IsCmpJump(x)
    BY <1>1, <1>8, CmpJumpIs
  <2>2. ~x.part1 /\ x = src[i] /\ Carries(x) /\ Happens(src, i, truthy)
    BY <1>1, <2>1, InsnIs DEF Acts, Carries
  <2>3. i \in Writers(src, truthy)
    BY <1>1, <2>2 DEF Writers
  <2>4. s \in Range(x.to)
    BY <1>1, <1>8, Fits DEF OperandsFit
  <2>5. t[r] = IF r \in CopiedOnce(x) THEN <<regs[r], temp[r][2]>> ELSE temp[r]
    <3> HIDE DEF x, r
    <3>1. Primed(x)[r] = CopyToTemp(x)[r]
      BY <1>1, <1>2, PrimedIs
    <3>2. CopyToTemp(x)[r] = IF r \in CopiedOnce(x) THEN <<regs[r], temp[r][2]>> ELSE temp[r]
      BY <1>1, <1>2, CopyIs
    <3>3. QED
      BY <3>1, <3>2
  <2>6. ASSUME r \notin CopiedOnce(x)
        PROVE  temp[r][1] = Initially(r)
    <3>1. r \in DOMAIN dests
      BY <1>8, <2>4, <2>6 DEF CopiedOnce, Declared
    <3>2. Asked /\ CopiesKept /\ OneWidth(src)
      BY DEF Ready, Midway, Covered
    <3>3. PICK k \in Lifted : \E d \in Range(src[k].to) : d[2] = r
      BY <3>1, <3>2 DEF Asked
    <3>4. PICK d \in Range(src[k].to) : d[2] = r
      BY <3>3
    <3>5. k \in 1 .. Len(src)
      BY <1>1, LiftedAre
    <3>6. d = s
      <4>1. r \in Range(RegistersOf(d)) /\ r \in Range(RegistersOf(s))
        BY <3>4, FirstRegister
      <4> HIDE DEF r, i
      <4>2. s \in Range(src[i].to)
        BY <2>2, <2>4
      <4>3. QED
        BY <1>1, <3>2, <3>5, <4>1, <4>2, SameDestination
    <3>7. ASSUME NEW j \in Active, s \in Range(src[j].to)
          PROVE  FALSE
      <4>1. j \in Writers(src, truthy) /\ j \in Lifted
        BY DEF Active
      <4>2. s[1] # "keep" /\ r \in Range(RegistersOf(s))
        BY <1>8, FirstRegister
      <4>3. r \in Written(src[j]) /\ r \in Written(src[i])
        BY <2>2, <2>4, <3>7, <4>2, WrittenIs
      <4> HIDE DEF i
      <4>4. i = j
        BY <1>1, <2>3, <4>1, <4>3, WriterUnique
      <4>5. QED
        BY <2>2, <4>1, <4>4, NotYetLifted DEF i
    <3>8. Unwritten(s)
      BY <1>8, <3>7 DEF Unwritten
    <3>9. QED
      BY <3>2, <3>4, <3>6, <3>8 DEF CopiesKept
  <2>7. t[r][1] = Initially(r)
    BY <1>4, <2>5, <2>6
  <2>8. Operand(s, t) = <<t[r][1]>>
    BY <1>8 DEF Operand, Dest
  <2>9. QED
    BY <1>8, <2>7, <2>8, ReadByIs
<1>9. QED
  BY <1>2, <1>5, <1>6, <1>7, <1>8

\* Of the stores those encoded before a memory access are lifted before it.
LEMMA StoresLifted ==
    ASSUME Ready, IsMemory(insns[n]), NEW j \in 1 .. Len(src), IsMemory(src[j])
    PROVE  j \in Lifted <=> j < insns[n].at
<1> DEFINE x == insns[n]
           i == x.at
<1>1. /\ IInv /\ phase # "prepare" /\ n \in 1 .. Len(insns) /\ Len(insns) \in 1 .. 7
      /\ src \in Seq(Instruction) /\ Legal(src) /\ Len(src) \in Nat
      /\ x \in Instruction /\ i \in 1 .. Len(src) /\ Arranged(insns, src)
  BY CurrentIs, ReadyIs
<1>2. \A y : IsMemory(y) => ~IsCmpJump(y)
  BY DEF IsMemory, IsStore, IsLoad, IsCmpJump
<1>3. ASSUME NEW l \in 1 .. Len(insns), insns[l].at = j
      PROVE  IsMemory(insns[l])
  <2>1. insns[l].op = src[j].op
    BY <1>1, <1>3, InsnIs
  <2>2. QED
    BY <2>1 DEF IsMemory, IsStore, IsLoad
<1>4. ASSUME j \in Lifted
      PROVE  j < i
  <2>1. PICK l \in 1 .. Len(insns) : l < n /\ insns[l].at = j
    BY <1>1, <1>4, LiftedAre
  <2>2. insns[l].at < insns[n].at
    BY <1>1, <1>3, <2>1 DEF Arranged
  <2>3. QED
    BY <2>1, <2>2
<1>5. ASSUME j < i
      PROVE  j \in Lifted
  <2>1. PICK l \in 1 .. Len(insns) : insns[l].at = j /\ ~insns[l].part1
    BY <1>1 DEF Arranged
  <2>2. IsMemory(insns[l]) /\ Carries(insns[l])
    BY <1>2, <1>3, <2>1 DEF Carries
  <2>3. ~ (n < l)
    <3>1. ASSUME n < l
          PROVE  FALSE
      <4>1. insns[n].at < insns[l].at
        BY <1>1, <2>2, <3>1 DEF Arranged
      <4>2. QED
        BY <1>1, <1>5, <2>1, <4>1
    <3>2. QED
      BY <3>1
  <2>4. l # n
    BY <1>1, <1>5, <2>1
  <2>5. l < n
    BY <1>1, <2>3, <2>4
  <2>6. QED
    BY <2>1, <2>2, <2>5, LiftedBefore
<1>6. QED
  BY <1>4, <1>5

\* What the lifter of an instruction computes with.
LEMMA ValuesAre ==
    ASSUME Ready, Acts(insns[n])
    PROVE  Values(insns[n], Primed(insns[n])) = Args[insns[n].at]
<1> DEFINE x == insns[n]
           i == x.at
           t == Primed(x)
           l == Len(x.from)
           V(k) == IF k = 1 /\ IsMemory(x) THEN <<t[EA_REG][1]>> ELSE Operand(x.from[k], t)
<1>1. /\ IInv /\ phase # "prepare" /\ n \in 1 .. Len(insns) /\ Len(insns) \in 1 .. 7
      /\ src \in Seq(Instruction) /\ Legal(src) /\ Len(src) \in Nat
      /\ x \in Instruction /\ i \in 1 .. Len(src) /\ (~x.part1 => x = src[i])
      /\ Tables(regs, temp)
  BY CurrentIs
<1>2. x.op = src[i].op /\ x.from = src[i].from
  BY <1>1, InsnIs
<1>3. IsMemory(x) => IsMemory(src[i])
  BY <1>2 DEF IsMemory, IsStore, IsLoad
<1>4. \A s \in Range(x.from) : IsMemory(x) /\ s[1] = "pair" => s[2] # 0
  <2>1. SUFFICES ASSUME NEW s \in Range(x.from), IsMemory(x), s[1] = "pair", s[2] = 0
                 PROVE  FALSE
    OBVIOUS
  <2>2. s = <<"pair", 0>>
    BY <1>1, <2>1, SourceIs
  <2>3. s \notin Range(src[i].from)
    <3>1. AddressApart(src)
      BY DEF Ready, Covered
    <3> HIDE DEF i
    <3>2. QED
      BY <1>1, <1>3, <2>1, <2>2, <3>1 DEF AddressApart
  <2>4. QED
    BY <1>2, <2>1, <2>3
<1>5. ASSUME NEW s \in Range(x.from)
      PROVE  Operand(s, t) = ReadBy(src, Args, i, s)
  BY <1>4, OperandRead
<1>6. ASSUME NEW k \in 1 .. l
      PROVE  V(k) = ReadBy(src, Args, i, x.from[k])
  <2> DEFINE s == x.from[k]
  <2>1. s \in Range(x.from)
    BY DEF Range
  <2>2. CASE ~ (k = 1 /\ IsMemory(x))
    BY <1>5, <2>1, <2>2
  <2>3. CASE k = 1 /\ IsMemory(x)
    <3>1. s[1] \in {"reg", "rw"} /\ s[1] # "new" /\ s[1] # "pair" /\ s[2] \in Registers
      <4>1. s[1] \in {"reg", "rw"}
        BY <1>1, <2>3, Fits DEF OperandsFit
      <4>2. s[2] \in Registers
        BY <1>1, <2>1, SourceIs
      <4>3. QED
        BY <4>1, <4>2
    <3>2. t[EA_REG][1] = Operand(x.from[1], CopyToTemp(x))[1]
      BY <1>1, <2>3, PrimedIs
    <3>3. t[s[2]] = CopyToTemp(x)[s[2]]
      BY <1>1, <3>1, PrimedIs
    <3>4. Operand(s, CopyToTemp(x)) = Operand(s, t)
      BY <3>1, <3>3 DEF Operand, Dest
    <3>5. Operand(s, t) = ReadBy(src, Args, i, s)
      BY <1>5, <2>1
    <3>6. ReadBy(src, Args, i, s) = <<Initially(s[2])>>
      BY <3>1, ReadByIs
    <3>7. <<t[EA_REG][1]>> = <<Initially(s[2])>>
      BY <2>3, <3>2, <3>4, <3>5, <3>6
    <3>8. QED
      BY <2>3, <3>6, <3>7
  <2>4. QED
    BY <2>2, <2>3
<1>7. FlattenSeq([k \in 1 .. l |-> V(k)]) = OperandsOf(src, Args, i)
  <2>1. [k \in 1 .. l |-> V(k)] = [k \in 1 .. l |-> ReadBy(src, Args, i, x.from[k])]
    <3> HIDE DEF V
    <3> QED BY <1>6
  <2>2. QED
    BY <1>2, <2>1 DEF OperandsOf
<1>8. Values(x, t) = IF IsLoad(x) THEN OperandsOf(src, Args, i) \o mem ELSE OperandsOf(src, Args, i)
  <2> HIDE DEF t, x
  <2>1. Values(x, t) = IF IsLoad(x) THEN FlattenSeq([k \in 1 .. l |-> V(k)]) \o mem
                       ELSE FlattenSeq([k \in 1 .. l |-> V(k)])
    BY DEF Values
  <2> HIDE DEF V, l, i
  <2>2. QED
    BY <1>7, <2>1
<1>9. Args[i] = ArgsOf(src, truthy, Args, i)
  BY <1>1, ArgumentsAre DEF Args
<1>10. ASSUME IsLoad(x)
       PROVE  mem = FlattenSeq([j \in 1 .. i - 1 |-> StoredBy(src, truthy, Args, j)])
  <2> DEFINE g == [j \in 1 .. Len(src) |->
                      IF j \in Lifted THEN StoredBy(src, truthy, Args, j) ELSE << >>]
             m == i - 1
  <2>1. mem = FlattenSeq(g)
    BY DEF Ready, Midway, StoresDone, LogOf
  <2>2. m \in 0 .. Len(src) /\ \A j \in 1 .. m : j \in 1 .. Len(src) /\ j < i
    BY <1>1
  <2>3. \A j \in m + 1 .. Len(src) : j \in 1 .. Len(src) /\ ~ (j < i)
    BY <1>1
  <2>4. IsMemory(x)
    BY <1>10 DEF IsMemory
  <2>5. ASSUME NEW j \in 1 .. Len(src)
        PROVE  /\ IsSeq(g[j])
               /\ j < i => g[j] = StoredBy(src, truthy, Args, j)
               /\ ~ (j < i) => g[j] = << >>
    <3>1. IsSeq(Args[j])
      BY <1>1, ArgsAreSeqs DEF Args
    <3>2. ~IsStore(src[j]) => StoredBy(src, truthy, Args, j) = << >>
      BY DEF StoredBy
    <3>3. IsStore(src[j]) => (j \in Lifted <=> j < i)
      BY <2>4, StoresLifted DEF IsMemory
    <3>4. IsSeq(StoredBy(src, truthy, Args, j))
      BY <3>1, EmptyIsSeq DEF StoredBy
    <3>5. g[j] = IF j \in Lifted THEN StoredBy(src, truthy, Args, j) ELSE << >>
      OBVIOUS
    <3> HIDE DEF g
    <3>6. QED
      BY <3>2, <3>3, <3>4, <3>5, EmptyIsSeq
  <2>6. g = [j \in 1 .. Len(src) |-> g[j]]
    OBVIOUS
  <2> HIDE DEF g, i, m
  <2>7. FlattenSeq([j \in 1 .. Len(src) |-> g[j]]) = FlattenSeq([j \in 1 .. m |-> g[j]])
    <3> DEFINE len == Len(src)
    <3>1. len \in Nat /\ m \in 0 .. len /\ \A j \in 1 .. len : IsSeq(g[j])
      BY <1>1, <2>2, <2>5
    <3>2. \A j \in m + 1 .. len : g[j] = << >>
      BY <2>3, <2>5
    <3> HIDE DEF len
    <3>3. FlattenSeq([j \in 1 .. len |-> g[j]]) = FlattenSeq([j \in 1 .. m |-> g[j]])
      BY ONLY <3>1, <3>2, FlattenPrefix
    <3>4. QED
      BY <3>3 DEF len
  <2>8. [j \in 1 .. m |-> g[j]] = [j \in 1 .. m |-> StoredBy(src, truthy, Args, j)]
    BY <2>2, <2>5
  <2>9. QED
    BY <2>1, <2>6, <2>7, <2>8 DEF m
<1>11. IsLoad(x) <=> IsLoad(src[i])
  BY <1>2 DEF IsLoad
<1>12. Values(x, t) = ArgsOf(src, truthy, Args, i)
  <2>1. CASE IsLoad(x)
    <3> HIDE DEF t, x, i
    <3> QED BY <1>8, <1>10, <1>11, <2>1 DEF ArgsOf
  <2>2. CASE ~IsLoad(x)
    BY <1>8, <1>11, <2>2 DEF ArgsOf
  <2>3. QED
    BY <2>1, <2>2
<1>13. QED
  BY <1>9, <1>12

\* The lifted code tests what decides the guard.
LEMMA HoldsIs ==
    ASSUME Ready, NEW args
    PROVE  Holds(insns[n], Primed(insns[n]), args) <=> Acts(insns[n])
<1> DEFINE x == insns[n]
           i == x.at
           t == Primed(x)
<1>1. /\ IInv /\ phase # "prepare" /\ n \in 1 .. Len(insns)
      /\ src \in Seq(Instruction) /\ Legal(src) /\ x \in Instruction /\ i \in 1 .. Len(src)
      /\ x.part1 = TRUE \/ x.part1 = FALSE
      /\ (~x.part1 => x = src[i])
  BY CurrentIs
<1>2. CASE x.part1
  BY <1>2 DEF Holds, Acts
<1>3. CASE ~x.part1 /\ ~Guarded(x)
  BY <1>1, <1>3 DEF Holds, Acts, Happens
<1>4. CASE ~x.part1 /\ Guarded(x)
  <2>1. Tested(x, t, args).by = Decider(src, i)
    <3>1. CASE x.op = "newjump"
      <4> ~x.guard.new
        BY <1>1, <3>1, Fits DEF PredicatesFit
      <4>1. Tested(x, t, args) = Result(x, Condition, args)
        BY <3>1 DEF Tested
      <4>2. src[i].op = "newjump" /\ src[i].at = i /\ ~src[i].guard.new
        BY <1>1, <1>4, <3>1, IndexIs
      <4>3. Decider(src, i) = <<"insn", i, Condition>>
        BY <4>2 DEF Decider
      <4>4. QED
        BY <4>1, <4>3 DEF Result, Value
    <3>2. CASE x.op # "newjump" /\ x.guard.new
      <4> DEFINE r == x.guard.r
      <4>1. PICK j \in Active : /\ ProducerOf(src, i, r) = j
                                /\ {<<"reg", r>>, <<"rw", r>>} \cap Range(src[j].to) # {}
        BY <1>4, <3>2, NewGuardLifted
      <4>2. PICK d \in Range(src[j].to) : d \in {<<"reg", r>>, <<"rw", r>>}
        BY <4>1
      <4>3. d[1] \in {"reg", "rw"} /\ d[2] = r
        BY <4>2
      <4>4. t[r][1] = Result(src[j], r, Args[j])
        BY <4>3, ResultRead
      <4>5. Tested(x, t, args) = t[r][1]
        BY <3>2 DEF Tested, Dest
      <4>6. t[r][1].by = <<"insn", src[j].at, r>>
        BY <4>4 DEF Result, Value
      <4>7. Decider(src, i) = <<"insn", src[j].at, r>>
        BY <1>1, <1>4, <3>2, <4>1 DEF Decider
      <4>8. QED
        BY <4>5, <4>6, <4>7
    <3>3. CASE x.op # "newjump" /\ ~x.guard.new
      <4>1. regs[x.guard.r] = Initially(x.guard.r)
        BY <1>4, <3>3, OldGuard
      <4>2. Tested(x, t, args) = regs[x.guard.r]
        BY <3>3 DEF Tested
      <4>3. Decider(src, i) = <<"reg", x.guard.r, 0>>
        BY <1>1, <1>4, <3>3 DEF Decider
      <4>4. QED
        BY <4>1, <4>2, <4>3 DEF Initially, Value
    <3>4. QED
      BY <3>1, <3>2, <3>3
  <2>2. Holds(x, t, args) <=> (Tested(x, t, args).by \in truthy) = x.guard.sense
    BY <1>4 DEF Holds
  <2>3. Acts(x) <=> (Decider(src, i) \in truthy) = x.guard.sense
    BY <1>1, <1>4 DEF Acts, Happens
  <2>4. QED
    BY <2>1, <2>2, <2>3, Zenon
<1>5. QED
  BY <1>1, <1>2, <1>3, <1>4

-----------------------------------------------------------------------------
(* What the lifter of one instruction does. *)

\* The destinations that it writes.
Performed == IF Acts(insns[n]) /\ Carries(insns[n]) THEN Range(src[insns[n].at].to) ELSE {}

\* A step of the lifter reaches one instruction more.
LEMMA LiftSets ==
    ASSUME Ready, Lift
    PROVE  /\ src' = src /\ truthy' = truthy /\ insns' = insns /\ n' = n + 1 /\ Args' = Args
           /\ Lifted' = Lifted \cup IF Carries(insns[n]) THEN {insns[n].at} ELSE {}
           /\ Active' = Active \cup IF Acts(insns[n]) /\ Carries(insns[n])
                                    THEN {insns[n].at} ELSE {}
<1> DEFINE x == insns[n]
           i == x.at
<1>1. /\ IInv /\ phase # "prepare" /\ n \in 1 .. Len(insns) /\ Len(insns) \in 1 .. 7
      /\ src \in Seq(Instruction) /\ Legal(src)
      /\ x \in Instruction /\ i \in 1 .. Len(src)
      /\ x.part1 = TRUE \/ x.part1 = FALSE
      /\ (~x.part1 => x = src[i])
  BY CurrentIs
<1>2. src' = src /\ truthy' = truthy /\ insns' = insns /\ n' = n + 1
  BY DEF Lift
<1>3. Args' = Args
  BY <1>2 DEF Args
<1>4. Lifted' = Lifted \cup IF Carries(x) THEN {i} ELSE {}
  <2>1. Lifted' = {insns[k].at : k \in {l \in 1 .. (n + 1) - 1 : Carries(insns[l])}}
    BY <1>2 DEF Lifted, Carries
  <2>2. \A l : l \in 1 .. (n + 1) - 1 <=> l \in 1 .. n - 1 \/ l = n
    BY <1>1
  <2>3. QED
    BY <2>1, <2>2 DEF Lifted
<1>5. ASSUME Carries(x)
      PROVE  i \in Writers(src, truthy) <=> Acts(x)
  <2>1. CASE x.part1
    <3>1. IsCmpJump(src[i])
      BY <1>1, <2>1, InsnIs DEF IsCmpJump
    <3>2. QED
      BY <1>1, <2>1, <3>1 DEF Writers, Acts
  <2>2. CASE ~x.part1
    <3>1. ~IsCmpJump(src[i])
      BY <1>1, <1>5, <2>2 DEF Carries
    <3> HIDE DEF i
    <3>2. QED
      BY <1>1, <2>2, <3>1 DEF Writers, Acts, i
  <2>3. QED
    BY <1>1, <2>1, <2>2
<1>6. Active' = Lifted' \cap Writers(src, truthy)
  BY <1>2 DEF Active
<1>7. Active' = Active \cup IF Acts(x) /\ Carries(x) THEN {i} ELSE {}
  <2> HIDE DEF x, i
  <2> QED BY <1>4, <1>5, <1>6 DEF Active
<1>8. QED
  BY <1>2, <1>3, <1>4, <1>7

\* Its registers, destinations and stores.
LEMMA LiftRegs ==
    ASSUME Ready, Lift
    PROVE  /\ dests' = AddDests(insns[n])
           /\ \A r \in Registers :
                 regs'[r] = IF <<"direct", r>> \in Performed
                            THEN Result(src[insns[n].at], r, Args[insns[n].at]) ELSE regs[r]
           /\ mem' = IF Acts(insns[n]) /\ IsStore(insns[n]) THEN mem \o Args[insns[n].at] ELSE mem
<1> DEFINE x == insns[n]
           i == x.at
           t == Primed(x)
           a == Values(x, t)
<1>1. /\ IInv /\ phase # "prepare" /\ n \in 1 .. Len(insns) /\ Tables(regs, temp)
  BY CurrentIs
<1>2. x.to = src[i].to /\ src[i].at = i
  BY <1>1, InsnIs
<1>3. Acts(x) => a = Args[i]
  BY ValuesAre
<1>4. Holds(x, t, a) <=> Acts(x)
  BY HoldsIs
<1>5. /\ dests' = AddDests(x)
      /\ IF Holds(x, t, a)
         THEN /\ regs' = [r \in Registers |-> IF <<"direct", r>> \in Writes(x)
                                             THEN Result(x, r, a) ELSE regs[r]]
              /\ mem' = IF IsStore(x) THEN mem \o a ELSE mem
         ELSE regs' = regs /\ mem' = mem
  BY DEF Lift, Primed
<1>6. Writes(x) = IF Carries(x) THEN Range(src[i].to) ELSE {}
  BY <1>2 DEF Writes, Carries
<1>7. Acts(x) => Writes(x) = Performed
  BY <1>6 DEF Performed
<1>8. \A r : Result(x, r, Args[i]) = Result(src[i], r, Args[i])
  BY <1>2 DEF Result
<1>9. ~Acts(x) => Performed = {}
  BY DEF Performed
<1> HIDE DEF x, a, t
<1>11. CASE Acts(x)
  BY <1>3, <1>4, <1>5, <1>7, <1>8, <1>11 DEF x
<1>12. CASE ~Acts(x)
  BY <1>4, <1>5, <1>9, <1>12 DEF x
<1>13. QED
  BY <1>11, <1>12

\* Its temporaries.
LEMMA LiftTemps ==
    ASSUME Ready, Lift
    PROVE  /\ \A r \in Registers : (\A e \in Performed : e[1] \in InTemp => e[2] # r) =>
                 temp'[r] = IF r \in CopiedOnce(insns[n]) THEN <<regs[r], temp[r][2]>> ELSE temp[r]
           /\ \A d \in Performed : d[1] \in InTemp =>
                 /\ temp'[d[2]][1] = Result(src[insns[n].at], d[2], Args[insns[n].at])
                 /\ Wide(d) =>
                      temp'[d[2]][2] = Result(src[insns[n].at], d[2] + 1, Args[insns[n].at])
           /\ \A k \in 1 .. 7 :
                 /\ temp'[BranchTaken(k)][1] =
                      IF k = n /\ Acts(insns[n]) /\ Leaves(insns[n]) /\ Guarded(insns[n])
                      THEN One ELSE temp[BranchTaken(k)][1]
                 /\ temp'[BranchrDest(k)][1] =
                      IF k = n /\ Acts(insns[n]) /\ insns[n].cof \in {"jumpr", "callr", "loop"}
                      THEN Args[insns[n].at][1] ELSE temp[BranchrDest(k)][1]
<1> DEFINE x == insns[n]
           i == x.at
           t == Primed(x)
           a == Values(x, t)
<1>1. /\ IInv /\ phase # "prepare" /\ n \in 1 .. Len(insns) /\ Tables(regs, temp)
      /\ n \in 1 .. 7 /\ x \in Instruction /\ i \in 1 .. Len(src)
  BY CurrentIs
<1>2. x.to = src[i].to /\ src[i].at = i
  BY <1>1, InsnIs
<1>3. Acts(x) => a = Args[i]
  BY ValuesAre
<1>4. Holds(x, t, a) <=> Acts(x)
  BY HoldsIs
<1>5. temp' = IF Holds(x, t, a) THEN WriteTemps(x, a, BranchTemps(x, n, a, t)) ELSE t
  BY DEF Lift, Primed
<1>6. Writes(x) = IF Carries(x) THEN Range(src[i].to) ELSE {}
  BY <1>2 DEF Writes, Carries
<1>7. Acts(x) => Writes(x) = Performed
  BY <1>6 DEF Performed
<1>8. \A r : Result(x, r, Args[i]) = Result(src[i], r, Args[i])
  BY <1>2 DEF Result
<1>9. ~Acts(x) => Performed = {}
  BY DEF Performed
<1>10. ASSUME NEW r \in Registers
       PROVE  t[r] = IF r \in CopiedOnce(x) THEN <<regs[r], temp[r][2]>> ELSE temp[r]
  <2> HIDE DEF x
  <2>1. Primed(x)[r] = CopyToTemp(x)[r]
    BY <1>1, PrimedIs
  <2>2. CopyToTemp(x)[r] = IF r \in CopiedOnce(x) THEN <<regs[r], temp[r][2]>> ELSE temp[r]
    BY <1>1, CopyIs
  <2>3. QED
    BY <2>1, <2>2
<1>11. ASSUME NEW k \in 1 .. 7
       PROVE  t[BranchTaken(k)] = temp[BranchTaken(k)] /\ t[BranchrDest(k)] = temp[BranchrDest(k)]
  <2> HIDE DEF x
  <2> QED BY <1>1, PrimedIs
<1>12. Tables(regs, t)
  <2> HIDE DEF x
  <2> QED BY <1>1, PrimedIs
<1>13. ASSUME NEW d \in Range(src[i].to), NEW e \in Range(src[i].to), e[2] = d[2]
       PROVE  e = d
  <2>1. d[2] \in Range(RegistersOf(d)) /\ d[2] \in Range(RegistersOf(e))
    BY <1>13, FirstRegister
  <2>2. OneWidth(src)
    BY DEF Ready, Covered
  <2> HIDE DEF i
  <2>3. QED
    BY <1>1, <2>1, <2>2, SameDestination
<1>14. \A d, e \in Performed : e[2] = d[2] => e = d
  BY <1>13 DEF Performed
<1> HIDE DEF t, a
<1>15. CASE Acts(x)
  <2> DEFINE A == Args[i]
             u == WriteTemps(x, A, BranchTemps(x, n, A, t))
  <2>1. temp' = u /\ Writes(x) = Performed
    BY <1>3, <1>4, <1>5, <1>7, <1>15
  <2> HIDE DEF x, A, u
  <2>8. WrittenOver(u, t, x, n, A)
    <3>1. Tables(regs, t) /\ x \in Instruction /\ n \in 1 .. 7
      BY <1>1, <1>12 DEF x
    <3>2. u = WriteTemps(x, A, BranchTemps(x, n, A, t))
      BY DEF u
    <3>3. QED
      BY ONLY <3>1, <3>2, WrittenTemps
  <2>2. /\ \A r \in Registers : (\A e \in Performed : e[1] \in InTemp => e[2] # r) => u[r] = t[r]
        /\ \A d \in Performed :
              d[1] \in InTemp /\ (\A e \in Performed : e[2] = d[2] => e = d) =>
                 /\ u[d[2]][1] = Result(x, d[2], A)
                 /\ Wide(d) => u[d[2]][2] = Result(x, d[2] + 1, A)
        /\ \A k \in 1 .. 7 :
              /\ u[BranchTaken(k)][1] =
                   IF k = n /\ Leaves(x) /\ Guarded(x) THEN One ELSE t[BranchTaken(k)][1]
              /\ u[BranchrDest(k)][1] =
                   IF k = n /\ x.cof \in {"jumpr", "callr", "loop"}
                   THEN A[1] ELSE t[BranchrDest(k)][1]
    BY <2>1, <2>8 DEF WrittenOver
  <2>3. ASSUME NEW d \in Performed, d[1] \in InTemp
        PROVE  /\ u[d[2]][1] = Result(x, d[2], A)
               /\ Wide(d) => u[d[2]][2] = Result(x, d[2] + 1, A)
    BY <1>14, <2>2, <2>3
  <2>4. \A r : Result(x, r, A) = Result(src[i], r, A)
    BY <1>8 DEF A
  <2>5. /\ \A r \in Registers : (\A e \in Performed : e[1] \in InTemp => e[2] # r) =>
                 u[r] = IF r \in CopiedOnce(x) THEN <<regs[r], temp[r][2]>> ELSE temp[r]
        /\ \A d \in Performed : d[1] \in InTemp =>
                 /\ u[d[2]][1] = Result(src[i], d[2], A)
                 /\ Wide(d) => u[d[2]][2] = Result(src[i], d[2] + 1, A)
    BY <1>10, <2>2, <2>3, <2>4
  <2>6. \A k \in 1 .. 7 :
          /\ u[BranchTaken(k)][1] = IF k = n /\ Acts(x) /\ Leaves(x) /\ Guarded(x)
                                    THEN One ELSE temp[BranchTaken(k)][1]
          /\ u[BranchrDest(k)][1] = IF k = n /\ Acts(x) /\ x.cof \in {"jumpr", "callr", "loop"}
                                    THEN A[1] ELSE temp[BranchrDest(k)][1]
    BY <1>11, <1>15, <2>2
  <2>7. QED
    BY <2>1, <2>5, <2>6 DEF x, A
<1>16. CASE ~Acts(x)
  <2>1. temp' = t
    BY <1>4, <1>5, <1>16
  <2>2. Performed = {}
    BY <1>9, <1>16
  <2> HIDE DEF x
  <2>3. \A k \in 1 .. 7 : /\ temp'[BranchTaken(k)][1] = temp[BranchTaken(k)][1]
                          /\ temp'[BranchrDest(k)][1] = temp[BranchrDest(k)][1]
    BY <1>11, <2>1
  <2>4. \A r \in Registers :
          temp'[r] = IF r \in CopiedOnce(x) THEN <<regs[r], temp[r][2]>> ELSE temp[r]
    BY <1>10, <2>1
  <2>5. QED
    BY <1>16, <2>2, <2>3, <2>4 DEF x
<1>17. QED
  BY <1>15, <1>16

-----------------------------------------------------------------------------
(* A lifter keeps the state between lifters as it is described. *)

\* Only the instruction at hand becomes lifted and active.
LEMMA PerformedBy ==
    ASSUME Ready, Lift
    PROVE  /\ Active' \subseteq Writers(src, truthy) /\ Active \subseteq Active'
           /\ Lifted \subseteq Lifted' /\ Lifted' \subseteq 1 .. Len(src)
           /\ \A e \in Performed : insns[n].at \in Active' /\ e \in Range(src[insns[n].at].to)
           /\ \A k \in Active' : k \in Active \/ (k = insns[n].at /\ Performed = Range(src[k].to))
           /\ \A k \in Lifted' : k \in Lifted \/ (k = insns[n].at /\ Carries(insns[n]))
<1>1. IInv /\ phase # "prepare" /\ insns[n].at \in 1 .. Len(src)
  BY CurrentIs
<1>2. /\ src' = src /\ truthy' = truthy
      /\ Lifted' = Lifted \cup IF Carries(insns[n]) THEN {insns[n].at} ELSE {}
      /\ Active' = Active \cup IF Acts(insns[n]) /\ Carries(insns[n])
                               THEN {insns[n].at} ELSE {}
  BY LiftSets
<1>3. Active' = Lifted' \cap Writers(src, truthy)
  BY <1>2 DEF Active
<1>4. Lifted \subseteq 1 .. Len(src)
  BY <1>1, LiftedAre
<1>5. QED
  BY <1>1, <1>2, <1>3, <1>4 DEF Performed

\* A register is written by one instruction of those that are carried out.
LEMMA OneWriter ==
    ASSUME Ready, Lift, NEW e \in Performed, e[1] # "keep", NEW k \in Active',
           NEW d \in Range(src[k].to), d[1] # "keep", d[2] = e[2]
    PROVE  k = insns[n].at /\ d = e /\ d \in Performed
<1> DEFINE i == insns[n].at
           r == d[2]
<1>1. src \in Seq(Instruction) /\ Legal(src) /\ OneWidth(src)
  BY CurrentIs DEF Ready, Covered
<1>2. i \in Writers(src, truthy) /\ k \in Writers(src, truthy) /\ e \in Range(src[i].to)
  BY PerformedBy
<1>3. r \in Range(RegistersOf(d)) /\ r \in Range(RegistersOf(e))
  BY FirstRegister
<1>4. r \in Written(src[i]) /\ r \in Written(src[k])
  BY <1>2, <1>3, WrittenIs
<1> HIDE DEF i, r
<1>5. k = i
  BY <1>1, <1>2, <1>4, WriterUnique
<1>6. i \in 1 .. Len(src)
  BY <1>2 DEF Writers
<1>7. d = e
  BY <1>1, <1>2, <1>3, <1>5, <1>6, SameDestination
<1>8. QED
  BY <1>5, <1>7 DEF i

\* A step keeps what is said of the registers written by name,
LEMMA NamedStep ==
    ASSUME Ready, Lift
    PROVE  NamedDone'
<1> DEFINE i == insns[n].at
<1>1. src' = src /\ Args' = Args /\ NamedDone
  BY LiftSets DEF Ready, Midway
<1>2. \A r \in Registers :
         regs'[r] = IF <<"direct", r>> \in Performed THEN Result(src[i], r, Args[i]) ELSE regs[r]
  BY LiftRegs
<1>3. ASSUME NEW k \in Active', NEW r \in Registers, <<"direct", r>> \in Range(src[k].to)
      PROVE  regs'[r] = Result(src[k], r, Args[k])
  <2> DEFINE d == <<"direct", r>>
  <2>1. d[1] # "keep" /\ d[2] = r /\ d \in Range(src[k].to)
    BY <1>3
  <2>2. CASE d \in Performed
    <3>1. k = i
      <4> HIDE DEF d
      <4> QED BY <2>1, <2>2, OneWriter
    <3>2. QED
      BY <1>2, <2>2, <3>1
  <2>3. CASE d \notin Performed
    <3>1. k \in Active
      BY <2>1, <2>3, PerformedBy
    <3>2. regs[r] = Result(src[k], r, Args[k])
      BY <1>1, <1>3, <3>1 DEF NamedDone
    <3>3. QED
      BY <1>2, <2>3, <3>2
  <2>4. QED
    BY <2>2, <2>3
<1>4. ASSUME NEW r \in Registers, \A k \in Active' : <<"direct", r>> \notin Range(src[k].to)
      PROVE  regs'[r] = Initially(r)
  <2>1. <<"direct", r>> \notin Performed
    BY <1>4, PerformedBy
  <2>2. \A k \in Active : <<"direct", r>> \notin Range(src[k].to)
    BY <1>4, PerformedBy
  <2>3. regs[r] = Initially(r)
    BY <1>1, <2>2 DEF NamedDone
  <2>4. QED
    BY <1>2, <2>1, <2>3
<1>5. QED
  BY <1>1, <1>3, <1>4 DEF NamedDone

\* of the results in the temporaries,
LEMMA TempsStep ==
    ASSUME Ready, Lift
    PROVE  TempsDone'
<1> DEFINE i == insns[n].at
<1>1. /\ src' = src /\ Args' = Args /\ TempsDone /\ Asked
      /\ src \in Seq(Instruction) /\ Legal(src)
  BY LiftSets, CurrentIs DEF Ready, Midway
<1>2. ASSUME NEW k \in Active', NEW d \in Range(src[k].to), d[1] \in InTemp
      PROVE  /\ temp'[d[2]][1] = Result(src[k], d[2], Args[k])
             /\ Wide(d) => temp'[d[2]][2] = Result(src[k], d[2] + 1, Args[k])
  <2>1. CASE \E e \in Performed : e[1] \in InTemp /\ e[2] = d[2]
    <3>1. PICK e \in Performed : e[1] \in InTemp /\ e[2] = d[2]
      BY <2>1
    <3>2. d[1] # "keep" /\ e[1] # "keep"
      BY <1>2, <3>1 DEF InTemp
    <3>3. k = i /\ d \in Performed
      BY <3>1, <3>2, OneWriter
    <3>4. QED
      BY <1>2, <3>3, LiftTemps
  <2>2. CASE \A e \in Performed : e[1] \in InTemp => e[2] # d[2]
    <3>1. k \in Active
      BY <1>2, <2>2, PerformedBy
    <3>2. d[1] # "direct" /\ k \in Lifted
      BY <1>2, <3>1 DEF InTemp, Active
    <3>3. d[2] \in DOMAIN dests
      BY <1>1, <3>2 DEF Asked
    <3>4. d[2] \in Registers /\ d[2] \notin CopiedOnce(insns[n])
      BY <3>3, CurrentIs DEF CopiedOnce, Sizes
    <3>5. temp'[d[2]] = temp[d[2]]
      BY <2>2, <3>4, LiftTemps
    <3>6. /\ temp[d[2]][1] = Result(src[k], d[2], Args[k])
          /\ Wide(d) => temp[d[2]][2] = Result(src[k], d[2] + 1, Args[k])
      BY <1>1, <1>2, <3>1 DEF TempsDone, InTemp
    <3>7. QED
      BY <3>5, <3>6
  <2>3. QED
    BY <2>1, <2>2
<1>3. QED
  BY <1>1, <1>2 DEF TempsDone, InTemp, Wide

\* of the copies of what is read and written,
LEMMA CopiesStep ==
    ASSUME Ready, Lift
    PROVE  CopiesKept'
<1> DEFINE i == insns[n].at
           x == insns[n]
<1>1. /\ src' = src /\ NamedDone /\ Asked /\ CopiesKept /\ OneWidth(src)
      /\ IInv /\ phase # "prepare" /\ n \in 1 .. Len(insns) /\ i \in 1 .. Len(src)
      /\ x.to = src[i].to
  BY LiftSets, CurrentIs, InsnIs DEF Ready, Midway, Covered
<1>2. ASSUME NEW k \in Lifted', NEW d \in Range(src[k].to),
             \/ d[1] = "keep"
             \/ d[1] = "rw" /\ \A j \in Active' : d \notin Range(src[j].to)
      PROVE  temp'[d[2]][1] = Initially(d[2])
  <2> DEFINE r == d[2]
  <2>1. k \in 1 .. Len(src)
    BY PerformedBy
  <2>2. ASSUME NEW j \in 1 .. Len(src), NEW e \in Range(src[j].to), e[2] = d[2]
        PROVE  e = d
    <3>1. r \in Range(RegistersOf(d)) /\ r \in Range(RegistersOf(e))
      BY <2>2, FirstRegister
    <3> HIDE DEF r
    <3>2. QED
      BY <1>1, <2>1, <3>1, SameDestination
  <2>3. ASSUME NEW e \in Performed, e[1] \in InTemp, e[2] = r
        PROVE  FALSE
    <3>1. i \in Active' /\ e \in Range(src[i].to)
      BY <2>3, PerformedBy
    <3>2. e = d
      BY <1>1, <2>2, <2>3, <3>1
    <3>3. QED
      BY <1>2, <2>3, <3>1, <3>2 DEF InTemp
  <2>4. r \in Registers
    <3>1. src[k] \in Instruction
      BY <2>1, CurrentIs, IndexIs
    <3>2. QED
      BY <3>1, DestinationIs
  <2>5. temp'[r] = IF r \in CopiedOnce(x) THEN <<regs[r], temp[r][2]>> ELSE temp[r]
    BY <2>3, <2>4, LiftTemps
  <2>6. CASE r \in CopiedOnce(x)
    <3>1. ASSUME NEW j \in Active, <<"direct", r>> \in Range(src[j].to)
          PROVE  FALSE
      <4> DEFINE e == <<"direct", r>>
      <4>1. e[2] = d[2] /\ e[1] = "direct" /\ e \in Range(src[j].to)
        BY <3>1
      <4>2. j \in 1 .. Len(src)
        BY <1>1, LiftedAre DEF Active
      <4> HIDE DEF e
      <4>3. e = d
        BY <2>2, <4>1, <4>2
      <4>4. QED
        BY <1>2, <4>1, <4>3
    <3>2. regs[r] = Initially(r)
      BY <1>1, <2>4, <3>1 DEF NamedDone
    <3>3. QED
      BY <2>5, <2>6, <3>2
  <2>7. CASE r \notin CopiedOnce(x)
    <3>1. r \in DOMAIN dests
      <4>1. CASE k \in Lifted
        BY <1>1, <1>2, <4>1 DEF Asked
      <4>2. CASE k = i
        BY <1>1, <1>2, <2>7, <4>2 DEF CopiedOnce, Declared
      <4>3. QED
        BY <4>1, <4>2, PerformedBy
    <3>2. PICK k0 \in Lifted : \E e \in Range(src[k0].to) : e[2] = r
      BY <1>1, <3>1 DEF Asked
    <3>3. d \in Range(src[k0].to)
      BY <1>1, <2>2, <3>2, LiftedAre
    <3>4. Unwritten(d)
      BY <1>2, PerformedBy DEF Unwritten
    <3>5. temp[r][1] = Initially(r)
      BY <1>1, <3>3, <3>4 DEF CopiesKept
    <3>6. QED
      BY <2>5, <2>7, <3>5
  <2>8. QED
    BY <2>6, <2>7
<1>3. QED
  BY <1>1, <1>2 DEF CopiesKept, Unwritten

\* The compare of a compare-jump is lifted before its jump.
LEMMA HalfLifted ==
    ASSUME Ready, ~Carries(insns[n])
    PROVE  insns[n].at \in Lifted
<1> DEFINE x == insns[n]
           i == x.at
<1>1. /\ IInv /\ phase # "prepare" /\ n \in 1 .. Len(insns) /\ Len(insns) \in 1 .. 7
      /\ i \in 1 .. Len(src) /\ Arranged(insns, src) /\ x.op = src[i].op
  BY CurrentIs, ReadyIs, InsnIs
<1>2. IsCmpJump(x) /\ ~x.part1 /\ IsCmpJump(src[i])
  BY <1>1 DEF Carries, IsCmpJump
<1>3. PICK l \in 1 .. Len(insns) : insns[l].at = i /\ insns[l].part1
  BY <1>1, <1>2 DEF Arranged
<1>4. Leads(insns[l]) /\ Carries(insns[l])
  BY <1>3 DEF Leads, Carries
<1>5. ~Leads(insns[n])
  BY <1>2 DEF Leads, IsCompare, IsCmpJump
<1>6. l # n /\ ~ (n < l)
  <2>1. l # n
    BY <1>4, <1>5
  <2>2. ~ (n < l)
    BY <1>1, <1>4, <1>5 DEF Arranged
  <2>3. QED
    BY <2>1, <2>2
<1>7. l < n
  BY <1>1, <1>6
<1>8. QED
  BY <1>3, <1>4, <1>7, LiftedBefore

\* of the destinations: what asks for one as .new comes behind its producer and so
\* does not decide its size,
LEMMA AskedStep ==
    ASSUME Ready, Lift
    PROVE  Asked'
<1> DEFINE x == insns[n]
           i == x.at
<1>1. /\ src' = src /\ dests' = AddDests(x) /\ Asked /\ OneWidth(src)
      /\ IInv /\ phase # "prepare" /\ n \in 1 .. Len(insns) /\ i \in 1 .. Len(src)
      /\ x.to = src[i].to /\ x \in Instruction
      /\ Lifted \subseteq Lifted'
  BY LiftSets, LiftRegs, CurrentIs, InsnIs, PerformedBy DEF Ready, Midway, Covered
<1>2. i \in Lifted'
  <2>1. CASE Carries(x)
    BY <2>1, LiftSets
  <2>2. CASE ~Carries(x)
    BY <1>1, <2>2, HalfLifted
  <2>3. QED
    BY <2>1, <2>2
<1>3. /\ DOMAIN dests' = DOMAIN dests \cup {d[2] : d \in Declared(x)}
      /\ \A r \in DOMAIN dests : dests'[r] = dests[r]
      /\ \A r \in {d[2] : d \in Declared(x)} : r \notin DOMAIN dests =>
            dests'[r] = IF \E d \in Declared(x) : d[2] = r /\ Wide(d) THEN 8 ELSE 4
  BY <1>1 DEF AddDests
<1>4. ASSUME NEW d \in Declared(x), d \notin Range(x.to)
      PROVE  d[2] \in DOMAIN dests /\ ~Wide(d)
  <2>1. CASE d \in Range(x.from) /\ d[1] = "new"
    <3>1. PICK j \in Active : {<<"reg", d[2]>>, <<"rw", d[2]>>} \cap Range(src[j].to) # {}
      BY <2>1, NewSourceLifted
    <3>2. PICK e \in Range(src[j].to) : e[1] \in {"reg", "rw"} /\ e[2] = d[2]
      BY <3>1
    <3>3. QED
      BY <2>1, <3>2, ResultRead DEF Wide
  <2>2. CASE x.guard.new /\ ~IsCmpJump(x) /\ d = <<"new", x.guard.r>>
    <3> DEFINE r == x.guard.r
    <3>1. ~x.part1
      BY <1>1, <2>2, InsnIs
    <3>2. PICK j \in Active : {<<"reg", r>>, <<"rw", r>>} \cap Range(src[j].to) # {}
      BY <2>2, <3>1, NewGuardLifted
    <3>3. PICK e \in Range(src[j].to) : e[1] \in {"reg", "rw"} /\ e[2] = r
      BY <3>2
    <3>4. r \in DOMAIN dests
      BY <3>3, ResultRead
    <3>5. d[1] = "new" /\ d[2] = r
      BY <2>2
    <3>6. QED
      BY <3>4, <3>5 DEF Wide
  <2>3. QED
    BY <1>4, <2>1, <2>2 DEF Declared
<1>5. \A d \in Declared(x) : d \in Range(x.to) => d[1] # "direct"
  <2>1. SUFFICES ASSUME NEW d \in Declared(x), d \in Range(x.to), d[1] = "direct"
                 PROVE  FALSE
    OBVIOUS
  <2>2. d \in {s \in Range(x.from) : s[1] = "new"} \/ d = <<"new", x.guard.r>>
    BY <2>1 DEF Declared
  <2>3. QED
    BY <2>1, <2>2
<1>6. ASSUME NEW r \in DOMAIN dests'
      PROVE  \E k \in Lifted' : \E d \in Range(src[k].to) :
                d[1] # "direct" /\ d[2] = r /\ dests'[r] = IF Wide(d) THEN 8 ELSE 4
  <2>1. CASE r \in DOMAIN dests
    <3>1. \E k \in Lifted : \E d \in Range(src[k].to) :
             d[1] # "direct" /\ d[2] = r /\ dests[r] = IF Wide(d) THEN 8 ELSE 4
      BY <1>1, <2>1 DEF Asked
    <3>2. QED
      BY <1>1, <1>3, <2>1, <3>1
  <2>2. CASE r \notin DOMAIN dests
    <3>1. PICK d \in Declared(x) : d[2] = r
      BY <1>3, <1>6, <2>2
    <3>2. d \in Range(x.to) /\ d[1] # "direct"
      BY <1>4, <1>5, <2>2, <3>1
    <3>3. dests'[r] = IF \E e \in Declared(x) : e[2] = r /\ Wide(e) THEN 8 ELSE 4
      BY <1>3, <2>2, <3>1
    <3>4. ASSUME NEW e \in Declared(x), e[2] = r, Wide(e)
          PROVE  e = d
      <4>1. e \in Range(x.to)
        BY <1>4, <3>4
      <4>2. d \in Range(src[i].to) /\ e \in Range(src[i].to)
        BY <1>1, <3>2, <4>1
      <4>3. r \in Range(RegistersOf(d)) /\ r \in Range(RegistersOf(e))
        BY <3>1, <3>4, FirstRegister
      <4> HIDE DEF i
      <4>4. QED
        BY <1>1, <4>2, <4>3, SameDestination
    <3>5. dests'[r] = IF Wide(d) THEN 8 ELSE 4
      BY <3>1, <3>3, <3>4
    <3>6. d \in Range(src[i].to)
      BY <1>1, <3>2
    <3>7. QED
      BY <1>2, <3>1, <3>2, <3>5, <3>6
  <2>3. QED
    BY <2>1, <2>2
<1>7. ASSUME NEW k \in Lifted', NEW d \in Range(src[k].to), d[1] # "direct"
      PROVE  d[2] \in DOMAIN dests'
  <2>1. CASE k \in Lifted
    BY <1>1, <1>3, <1>7, <2>1 DEF Asked
  <2>2. CASE k = i
    <3>1. d \in Declared(x)
      BY <1>1, <1>7, <2>2 DEF Declared
    <3>2. QED
      BY <1>3, <3>1
  <2>3. QED
    BY <2>1, <2>2, PerformedBy
<1>8. QED
  BY <1>1, <1>6, <1>7 DEF Asked, Wide

\* of the stores: they are lifted in the order of the packet,
LEMMA StoresStep ==
    ASSUME Ready, Lift
    PROVE  StoresDone'
<1> DEFINE x == insns[n]
           i == x.at
           S(j) == StoredBy(src, truthy, Args, j)
           g == [j \in 1 .. Len(src) |-> IF j \in Lifted THEN S(j) ELSE << >>]
           h == [j \in 1 .. Len(src) |-> IF j \in Lifted' THEN S(j) ELSE << >>]
<1>1. /\ src' = src /\ truthy' = truthy /\ Args' = Args /\ StoresDone
      /\ IInv /\ phase # "prepare" /\ n \in 1 .. Len(insns) /\ i \in 1 .. Len(src)
      /\ src \in Seq(Instruction) /\ Legal(src) /\ Len(src) \in Nat
      /\ x.op = src[i].op /\ x \in Instruction
      /\ Lifted \subseteq Lifted'
      /\ mem' = IF Acts(x) /\ IsStore(x) THEN mem \o Args[i] ELSE mem
  BY LiftSets, LiftRegs, CurrentIs, InsnIs, PerformedBy DEF Ready, Midway
<1>2. mem = FlattenSeq(g)
  BY <1>1 DEF StoresDone, LogOf
<1>3. StoresDone' <=> mem' = FlattenSeq(h)
  BY <1>1 DEF StoresDone, LogOf
<1>4. \A j \in Lifted' : j \in Lifted \/ j = i
  BY PerformedBy
<1>5. IsStore(x) <=> IsStore(src[i])
  BY <1>1 DEF IsStore
<1>6. IsStore(x) => /\ Carries(x) /\ i \notin Lifted /\ ~x.part1
  <2>1. IsStore(x) => ~IsCmpJump(x)
    BY DEF IsStore, IsCmpJump
  <2>2. x.part1 => IsCmpJump(x)
    BY <1>1, InsnIs
  <2>3. QED
    BY <2>1, <2>2, NotYetLifted DEF Carries
<1>7. ASSUME NEW j \in 1 .. Len(src)
      PROVE  IsSeq(S(j))
  <2>1. IsSeq(Args[j])
    BY <1>1, ArgsAreSeqs DEF Args
  <2>2. QED
    BY <2>1, EmptyIsSeq DEF StoredBy
<1>8. \A j \in 1 .. Len(src) : ~IsStore(src[j]) => S(j) = << >>
  BY DEF StoredBy
<1>9. CASE Acts(x) /\ IsStore(x)
  <2>1. S(i) = Args[i] /\ i \in Lifted'
    <3>1. Happens(src, i, truthy)
      BY <1>6, <1>9 DEF Acts
    <3>2. i \in Lifted'
      BY <1>6, <1>9, LiftSets
    <3>3. QED
      BY <1>5, <1>9, <3>1, <3>2 DEF StoredBy
  <2>2. \A j \in i .. Len(src) : IsStore(src[j]) => j \notin Lifted
    <3>1. IsMemory(x)
      BY <1>9 DEF IsMemory
    <3>2. \A j \in i .. Len(src) : j \in 1 .. Len(src) /\ ~ (j < i)
      BY <1>1
    <3>3. QED
      BY <3>1, <3>2, StoresLifted DEF IsMemory
  <2> HIDE DEF S, x
  <2>3. \A j \in 1 .. Len(src) : IsSeq(g[j]) /\ IsSeq(h[j])
    BY <1>7, EmptyIsSeq
  <2>4. \A j \in 1 .. Len(src) : j # i => h[j] = g[j]
    BY <1>1, <1>4
  <2>5. \A j \in i .. Len(src) : g[j] = << >>
    BY <1>1, <1>8, <2>2
  <2>6. h[i] = Args[i]
    BY <1>1, <2>1
  <2>7. g = [j \in 1 .. Len(src) |-> g[j]] /\ h = [j \in 1 .. Len(src) |-> h[j]]
    OBVIOUS
  <2> HIDE DEF g, h, i
  <2>8. FlattenSeq([j \in 1 .. Len(src) |-> h[j]])
          = FlattenSeq([j \in 1 .. Len(src) |-> g[j]]) \o h[i]
    <3> DEFINE len == Len(src)
    <3>1. len \in Nat /\ i \in 1 .. len
      BY <1>1 DEF i, x
    <3>2. \A j \in 1 .. len : IsSeq(g[j]) /\ IsSeq(h[j])
      BY <2>3
    <3>3. \A j \in 1 .. len : j # i => h[j] = g[j]
      BY <2>4
    <3>4. \A j \in i .. len : g[j] = << >>
      BY <2>5
    <3> HIDE DEF len
    <3>5. Joined(h, len) = Joined(g, len) \o h[i]
      BY ONLY <3>1, <3>2, <3>3, <3>4, FlattenAdd
    <3>6. QED
      BY <3>5 DEF Joined, len
  <2>9. FlattenSeq(h) = FlattenSeq(g) \o Args[i]
    BY <2>6, <2>7, <2>8
  <2>10. QED
    BY <1>1, <1>2, <1>3, <1>9, <2>9
<1>10. CASE ~ (Acts(x) /\ IsStore(x))
  <2>1. S(i) = << >>
    <3>1. CASE ~IsStore(x)
      BY <1>1, <1>5, <1>8, <3>1
    <3>2. CASE IsStore(x)
      <4>1. ~Happens(src, i, truthy)
        BY <1>10, <3>2 DEF Acts
      <4>2. QED
        BY <4>1 DEF StoredBy
    <3>3. QED
      BY <3>1, <3>2
  <2> HIDE DEF S, x
  <2>2. g = h
    BY <1>1, <1>4, <2>1
  <2>3. QED
    BY <1>1, <1>2, <1>3, <1>10, <2>2
<1>11. QED
  BY <1>9, <1>10

\* The positions lifted before and after a step.
LEMMA PositionsUpTo ==
    ASSUME NEW l \in 1 .. 7, NEW m \in 1 .. l, NEW k \in 1 .. l
    PROVE  k \in 1 .. 7 /\ (k # m => (k < m <=> k < m + 1)) /\ (k = m => k < m + 1 /\ ~ (k < m))
OBVIOUS

LEMMA PositionsBefore ==
    ASSUME NEW l \in 1 .. 7, NEW m \in 1 .. l, NEW k \in 1 .. (m + 1) - 1
    PROVE  k \in 1 .. 7 /\ (k # m => k \in 1 .. m - 1)
OBVIOUS

\* of the flags and the targets,
LEMMA BranchesStep ==
    ASSUME Ready, Lift
    PROVE  FlagsDone' /\ TargetsDone'
<1> DEFINE x == insns[n]
<1>1. /\ src' = src /\ truthy' = truthy /\ insns' = insns /\ n' = n + 1 /\ Args' = Args
      /\ FlagsDone /\ TargetsDone
      /\ IInv /\ phase # "prepare" /\ n \in 1 .. Len(insns) /\ Len(insns) \in 1 .. 7
  BY LiftSets, CurrentIs DEF Ready, Midway
<1>2. \A k \in 1 .. 7 :
         /\ temp'[BranchTaken(k)][1] =
               IF k = n /\ Acts(x) /\ Leaves(x) /\ Guarded(x) THEN One ELSE temp[BranchTaken(k)][1]
         /\ temp'[BranchrDest(k)][1] =
               IF k = n /\ Acts(x) /\ x.cof \in {"jumpr", "callr", "loop"}
               THEN Args[x.at][1] ELSE temp[BranchrDest(k)][1]
  BY LiftTemps
<1>3. Leaves(x) => (Acts(x) <=> Happens(src, x.at, truthy))
  BY DEF Leaves, Acts
<1>4. ASSUME NEW k \in 1 .. Len(insns), Leaves(insns[k]), Guarded(insns[k])
      PROVE  temp'[BranchTaken(k)][1] =
                IF k < n + 1 /\ Happens(src, insns[k].at, truthy) THEN One ELSE Zero
  <2>1. temp[BranchTaken(k)][1] =
           IF k < n /\ Happens(src, insns[k].at, truthy) THEN One ELSE Zero
    BY <1>1, <1>4 DEF FlagsDone
  <2>2. k \in 1 .. 7 /\ (k # n => (k < n <=> k < n + 1)) /\ (k = n => k < n + 1 /\ ~ (k < n))
    <3>1. n \in 1 .. Len(insns) /\ Len(insns) \in 1 .. 7 /\ k \in 1 .. Len(insns)
      BY <1>1
    <3>2. QED
      BY ONLY <3>1, PositionsUpTo
  <2>3. CASE k = n
    BY <1>2, <1>3, <1>4, <2>1, <2>2, <2>3
  <2>4. CASE k # n
    BY <1>2, <2>1, <2>2, <2>4
  <2>5. QED
    BY <2>3, <2>4
<1>5. ASSUME NEW k \in 1 .. (n + 1) - 1, insns[k].cof \in {"jumpr", "callr", "loop"},
             Happens(src, insns[k].at, truthy)
      PROVE  temp'[BranchrDest(k)][1] = Args[insns[k].at][1]
  <2>1. k \in 1 .. 7 /\ (k # n => k \in 1 .. n - 1)
    <3>1. n \in 1 .. Len(insns) /\ Len(insns) \in 1 .. 7 /\ k \in 1 .. (n + 1) - 1
      BY <1>1
    <3>2. QED
      BY ONLY <3>1, PositionsBefore
  <2>2. CASE k = n
    BY <1>2, <1>5, <2>1, <2>2 DEF Acts
  <2>3. CASE k # n
    <3>1. temp[BranchrDest(k)][1] = Args[insns[k].at][1]
      BY <1>1, <1>5, <2>1, <2>3 DEF TargetsDone
    <3>2. QED
      BY <1>2, <2>1, <2>3, <3>1
  <2>4. QED
    BY <2>2, <2>3
<1>6. FlagsDone'
  BY <1>1, <1>4 DEF FlagsDone, Leaves, Guarded
<1>7. TargetsDone'
  BY <1>1, <1>5 DEF TargetsDone
<1>8. QED
  BY <1>6, <1>7

\* and so of all of it.
LEMMA MidwayStep ==
    ASSUME Ready, Lift
    PROVE  Midway'
BY NamedStep, TempsStep, CopiesStep, AskedStep, StoresStep, BranchesStep DEF Midway

-----------------------------------------------------------------------------
(* The end of the lifting. *)

\* Every instruction is lifted.
AtEnd ==
    /\ IInv /\ Covered(src)
    /\ phase # "prepare" /\ n = Len(insns) + 1 /\ Midway

\* Then what is active is what writes.
LEMMA AtEndIs ==
    ASSUME AtEnd
    PROVE  /\ IInv /\ phase # "prepare"
           /\ src \in Seq(Instruction) /\ Legal(src) /\ Len(src) \in Nat
           /\ Arranged(insns, src) /\ Len(insns) \in 1 .. 7 /\ n = Len(insns) + 1
           /\ Lifted = 1 .. Len(src) /\ Active = Writers(src, truthy)
<1>1. /\ IInv /\ phase # "prepare" /\ n = Len(insns) + 1
  BY DEF AtEnd
<1>2. /\ src \in Seq(Instruction) /\ Legal(src) /\ Len(src) \in Nat
      /\ Arranged(insns, src) /\ Len(insns) \in 1 .. 7
  BY <1>1, ReadyIs
<1>3. ASSUME NEW i \in 1 .. Len(src)
      PROVE  i \in Lifted
  <2>1. PICK l \in 1 .. Len(insns) : insns[l].at = i /\ Carries(insns[l])
    <3>1. CASE IsCmpJump(src[i])
      <4>1. PICK l \in 1 .. Len(insns) : insns[l].at = i /\ insns[l].part1
        BY <1>2, <3>1 DEF Arranged
      <4>2. QED
        BY <4>1 DEF Carries
    <3>2. CASE ~IsCmpJump(src[i])
      <4>1. PICK l \in 1 .. Len(insns) : insns[l].at = i /\ ~insns[l].part1
        BY <1>2 DEF Arranged
      <4>2. insns[l].op = src[i].op
        BY <1>1, <4>1, InsnIs
      <4>3. QED
        BY <3>2, <4>1, <4>2 DEF Carries, IsCmpJump
    <3>3. QED
      BY <3>1, <3>2
  <2>2. l \in 1 .. n - 1
    <3>1. Len(insns) \in 1 .. 7 /\ n = Len(insns) + 1 /\ l \in 1 .. Len(insns)
      BY <1>1, <1>2
    <3>2. QED
      BY ONLY <3>1
  <2>3. QED
    BY <2>1, <2>2 DEF Lifted
<1>4. Lifted = 1 .. Len(src)
  BY <1>1, <1>3, LiftedAre
<1>5. Active = Writers(src, truthy)
  BY <1>4 DEF Active, Writers
<1>6. QED
  BY <1>1, <1>2, <1>4, <1>5

\* What is written is in the registers that are written by name, in the
\* temporaries of the others.
LEMMA WrittenAtEnd ==
    ASSUME AtEnd, NEW j \in Writers(src, truthy), NEW d \in Range(src[j].to), d[1] # "keep"
    PROVE  /\ d[2] \in Registers
           /\ d[1] = "direct" => regs[d[2]] = Final.regs[d[2]]
           /\ d[1] # "direct" => /\ d[2] \in DOMAIN dests
                                 /\ temp[d[2]][1] = Final.regs[d[2]]
           /\ Wide(d) => d[2] + 1 \in Registers /\ temp[d[2]][2] = Final.regs[d[2] + 1]
<1>1. /\ src \in Seq(Instruction) /\ Legal(src) /\ j \in Active /\ j \in Lifted
      /\ j \in 1 .. Len(src)
  BY AtEndIs DEF Writers
<1>2. src[j] \in Instruction
  BY <1>1, IndexIs
<1>3. /\ d[1] \in {"reg", "rw", "pair", "direct", "keep"} /\ d = <<d[1], d[2]>>
      /\ d[2] \in Registers /\ (d[1] = "pair" => d[2] \in Pairs)
  BY <1>2, DestinationIs
<1>4. /\ NamedDone /\ TempsDone /\ Asked
  BY DEF AtEnd, Midway
<1>5. \A r \in Range(RegistersOf(d)) : r \in Written(src[j])
  BY WrittenIs
<1>6. \A r \in Registers : r \in Range(RegistersOf(d)) => Final.regs[r] = Result(src[j], r, Args[j])
  BY <1>1, <1>5, FinalRegister DEF Final, Args
<1>7. Final.regs[d[2]] = Result(src[j], d[2], Args[j])
  BY <1>3, <1>6, FirstRegister
<1>8. ASSUME d[1] = "direct"
      PROVE  regs[d[2]] = Final.regs[d[2]]
  <2>1. <<"direct", d[2]>> \in Range(src[j].to)
    BY <1>3, <1>8
  <2>2. QED
    BY <1>1, <1>3, <1>4, <1>7, <2>1 DEF NamedDone
<1>9. ASSUME d[1] # "direct"
      PROVE  d[2] \in DOMAIN dests /\ temp[d[2]][1] = Final.regs[d[2]]
  <2>1. d[2] \in DOMAIN dests
    BY <1>1, <1>4, <1>9 DEF Asked
  <2>2. temp[d[2]][1] = Result(src[j], d[2], Args[j])
    BY <1>1, <1>3, <1>4, <1>9 DEF TempsDone
  <2>3. QED
    BY <1>7, <2>1, <2>2
<1>10. ASSUME Wide(d)
       PROVE  d[2] + 1 \in Registers /\ temp[d[2]][2] = Final.regs[d[2] + 1]
  <2>1. d[1] = "pair"
    BY <1>10 DEF Wide
  <2>2. d[2] + 1 \in Registers /\ d[2] + 1 \in Range(RegistersOf(d))
    BY <1>3, <2>1, RegistersAreTemps, RegistersOfIs
  <2>3. temp[d[2]][2] = Result(src[j], d[2] + 1, Args[j])
    BY <1>1, <1>4, <1>10, <2>1 DEF TempsDone
  <2>4. QED
    BY <1>6, <2>2, <2>3
<1>11. QED
  BY <1>3, <1>8, <1>9, <1>10

\* A destination that no instruction writes has kept its value.
LEMMA KeptAtEnd ==
    ASSUME AtEnd, NEW i \in 1 .. Len(src), NEW d \in Range(src[i].to), d[1] # "direct",
           \A j \in Writers(src, truthy) : d[2] \notin Written(src[j])
    PROVE  ~Wide(d) /\ temp[d[2]][1] = Final.regs[d[2]]
<1>1. /\ src \in Seq(Instruction) /\ Legal(src) /\ Active = Writers(src, truthy)
      /\ i \in Lifted /\ CopiesKept /\ Exhaustive(src)
  BY AtEndIs DEF AtEnd, Midway, Covered
<1>2. src[i] \in Instruction
  BY <1>1, IndexIs
<1>3. /\ d[1] \in {"reg", "rw", "pair", "keep"} /\ d = <<d[1], d[2]>>
      /\ d[2] \in Registers
  BY <1>2, DestinationIs
<1>4. Final.regs[d[2]] = Initially(d[2])
  BY <1>1, <1>3, FinalRegister DEF Final
<1>5. ASSUME NEW k \in Writers(src, truthy), d \in Range(src[k].to), d[1] # "keep"
      PROVE  FALSE
  <2>1. d[2] \in Written(src[k])
    BY <1>5, WrittenIs, FirstRegister
  <2>2. QED
    BY <1>5, <2>1
<1>6. CASE d[1] \in {"reg", "pair"}
  <2>1. i \notin Writers(src, truthy)
    BY <1>5, <1>6
  <2>2. Guarded(src[i]) /\ ~IsCmpJump(src[i]) /\ ~Happens(src, i, truthy)
    BY <2>1 DEF Writers, Happens
  <2>3. PICK k \in 1 .. Len(src) : Alternatives(src[i], src[k]) /\ d \in Range(src[k].to)
    BY <1>1, <1>6, <2>2 DEF Exhaustive
  <2>4. src[k] \in Instruction
    BY <1>1, IndexIs
  <2>5. src[i].op # "newjump" /\ src[k].op # "newjump"
    BY <1>2, <2>3, <2>4, JumpsWriteNothing
  <2>6. Happens(src, k, truthy)
    BY <1>1, <2>2, <2>3, <2>5, OneOfTwo
  <2>7. k \in Writers(src, truthy)
    BY <2>6 DEF Writers
  <2>8. QED
    BY <1>5, <1>6, <2>3, <2>7
<1>7. CASE d[1] \in {"rw", "keep"}
  <2>1. Unwritten(d)
    <3>1. CASE d[1] = "keep"
      BY <3>1 DEF Unwritten
    <3>2. CASE d[1] = "rw"
      BY <1>1, <1>5, <3>2 DEF Unwritten
    <3>3. QED
      BY <1>7, <3>1, <3>2
  <2>2. temp[d[2]][1] = Initially(d[2])
    BY <1>1, <2>1 DEF CopiesKept
  <2>3. QED
    BY <1>4, <1>7, <2>2 DEF Wide
<1>8. QED
  BY <1>3, <1>6, <1>7

\* The temporaries of the destinations have what the packet leaves in them.
LEMMA DestsAtEnd ==
    ASSUME AtEnd, NEW p \in DOMAIN dests
    PROVE  /\ temp[p][1] = Final.regs[p]
           /\ dests[p] = 8 => temp[p][2] = Final.regs[p + 1]
<1>1. /\ src \in Seq(Instruction) /\ Legal(src) /\ Lifted = 1 .. Len(src) /\ Asked /\ OneWidth(src)
  BY AtEndIs DEF AtEnd, Midway, Covered
<1>2. PICK i \in Lifted : \E d \in Range(src[i].to) :
              d[1] # "direct" /\ d[2] = p /\ dests[p] = IF Wide(d) THEN 8 ELSE 4
  BY <1>1 DEF Asked
<1>3. PICK d \in Range(src[i].to) :
              d[1] # "direct" /\ d[2] = p /\ dests[p] = IF Wide(d) THEN 8 ELSE 4
  BY <1>2
<1>4. i \in 1 .. Len(src) /\ (dests[p] = 8 => Wide(d))
  BY <1>1, <1>3
<1>5. CASE \E j \in Writers(src, truthy) : p \in Written(src[j])
  <2>1. PICK j \in Writers(src, truthy) : p \in Written(src[j])
    BY <1>5
  <2>2. PICK e \in Range(src[j].to) : e[1] # "keep" /\ p \in Range(RegistersOf(e))
    BY <2>1, WrittenIs
  <2>3. e = d
    <3>1. j \in 1 .. Len(src)
      BY DEF Writers
    <3>2. p \in Range(RegistersOf(d))
      BY <1>3, FirstRegister
    <3>3. QED
      BY <1>1, <1>4, <2>2, <3>1, <3>2, SameDestination
  <2>4. d \in Range(src[j].to) /\ d[1] # "keep"
    BY <2>2, <2>3
  <2>5. /\ temp[d[2]][1] = Final.regs[d[2]]
        /\ Wide(d) => temp[d[2]][2] = Final.regs[d[2] + 1]
    BY <1>3, <2>4, WrittenAtEnd
  <2>6. QED
    BY <1>3, <1>4, <2>5
<1>6. CASE \A j \in Writers(src, truthy) : p \notin Written(src[j])
  <2>1. ~Wide(d) /\ temp[d[2]][1] = Final.regs[d[2]]
    BY <1>3, <1>4, <1>6, KeptAtEnd
  <2>2. QED
    BY <1>3, <1>4, <2>1
<1>7. QED
  BY <1>5, <1>6

\* The registers that are no destination are final.
LEMMA OthersAtEnd ==
    ASSUME AtEnd, NEW r \in Registers, ~Pending(r)
    PROVE  regs[r] = Final.regs[r]
<1>1. /\ src \in Seq(Instruction) /\ Legal(src) /\ Active = Writers(src, truthy)
      /\ Lifted = 1 .. Len(src) /\ NamedDone /\ Asked /\ OneWidth(src)
  BY AtEndIs DEF AtEnd, Midway, Covered
<1>2. CASE \E j \in Writers(src, truthy) : r \in Written(src[j])
  <2>1. PICK j \in Writers(src, truthy) : r \in Written(src[j])
    BY <1>2
  <2>2. PICK d \in Range(src[j].to) : d[1] # "keep" /\ r \in Range(RegistersOf(d))
    BY <2>1, WrittenIs
  <2>3. j \in 1 .. Len(src)
    BY DEF Writers
  <2>4. CASE d[1] = "direct"
    <3>1. r = d[2]
      BY <2>2, <2>4, RegistersOfIs
    <3>2. QED
      BY <2>2, <2>4, <3>1, WrittenAtEnd
  <2>5. CASE d[1] # "direct"
    <3>1. d[2] \in DOMAIN dests /\ d[2] # r
      BY <2>2, <2>5, WrittenAtEnd DEF Pending
    <3>2. d[1] = "pair" /\ r = d[2] + 1
      BY <2>2, <3>1, RegistersOfIs
    <3>3. PICK i \in Lifted : \E e \in Range(src[i].to) :
                e[1] # "direct" /\ e[2] = d[2] /\ dests[d[2]] = IF Wide(e) THEN 8 ELSE 4
      BY <1>1, <3>1 DEF Asked
    <3>4. PICK e \in Range(src[i].to) :
                e[1] # "direct" /\ e[2] = d[2] /\ dests[d[2]] = IF Wide(e) THEN 8 ELSE 4
      BY <3>3
    <3>5. i \in 1 .. Len(src) /\ d[2] \in Range(RegistersOf(d)) /\ d[2] \in Range(RegistersOf(e))
      BY <1>1, <3>4, FirstRegister
    <3>6. d = e
      BY <1>1, <2>3, <3>5, SameDestination
    <3>7. dests[d[2]] = 8
      BY <3>2, <3>4, <3>6 DEF Wide
    <3>8. QED
      BY <3>1, <3>2, <3>7 DEF Pending
  <2>6. QED
    BY <2>4, <2>5
<1>3. CASE \A j \in Writers(src, truthy) : r \notin Written(src[j])
  <2>1. Final.regs[r] = Initially(r)
    BY <1>1, <1>3, FinalRegister DEF Final
  <2>2. ASSUME NEW i \in Active, <<"direct", r>> \in Range(src[i].to)
        PROVE  FALSE
    <3> DEFINE d == <<"direct", r>>
    <3>1. d[1] # "keep" /\ r \in Range(RegistersOf(d))
      BY FirstRegister
    <3>2. r \in Written(src[i])
      BY <2>2, <3>1, WrittenIs
    <3>3. QED
      BY <1>1, <1>3, <3>2
  <2>3. QED
    BY <1>1, <2>1, <2>2 DEF NamedDone
<1>4. QED
  BY <1>2, <1>3

\* The stores are those of the packet.
LEMMA MemoryAtEnd ==
    ASSUME AtEnd
    PROVE  mem = Final.mem
<1> DEFINE on == {i \in 1 .. Len(src) : Happens(src, i, truthy)}
           g == [i \in 1 .. Len(src) |-> IF IsStore(src[i]) /\ i \in on THEN Args[i] ELSE << >>]
           h == [j \in 1 .. Len(src) |->
                    IF j \in Lifted THEN StoredBy(src, truthy, Args, j) ELSE << >>]
<1>1. Lifted = 1 .. Len(src) /\ StoresDone
  BY AtEndIs DEF AtEnd, Midway
<1>2. mem = FlattenSeq(h)
  BY <1>1 DEF StoresDone, LogOf
<1>3. Final.mem = FlattenSeq(g)
  BY DEF Final, InParallel, Args
<1>4. h = g
  BY <1>1 DEF StoredBy
<1>5. QED
  BY <1>2, <1>3, <1>4

\* The write-back begins with the packet's results at hand.
LEMMA LiftingEnds == AtEnd => Settling
<1>1. SUFFICES ASSUME AtEnd
               PROVE  Settling
  OBVIOUS
<1>2. n = Len(insns) + 1 /\ FlagsDone /\ TargetsDone
  BY <1>1 DEF AtEnd, Midway
<1>3. mem = Final.mem
  BY <1>1, MemoryAtEnd
<1>4. \A r \in Registers : Pending(r) \/ regs[r] = Final.regs[r]
  BY <1>1, OthersAtEnd
<1>5. \A p \in DOMAIN dests : /\ temp[p][1] = Final.regs[p]
                              /\ dests[p] = 8 => temp[p][2] = Final.regs[p + 1]
  BY <1>1, DestsAtEnd
<1>6. QED
  BY <1>2, <1>3, <1>4, <1>5 DEF Settling

-----------------------------------------------------------------------------
(* The write-back and the branches. *)

\* Whichever register is written back next, the others still will be.
LEMMA WriteBackSettles ==
    ASSUME IInv, Settling, NEW r \in DOMAIN dests, WriteBack(r)
    PROVE  Settling'
<1>1. /\ regs' = [q \in Registers |-> IF q = r THEN temp[r][1]
                                       ELSE IF q = r + 1 /\ dests[r] = 8 THEN temp[r][2]
                                       ELSE regs[q]]
      /\ dests' = [q \in DOMAIN dests \ {r} |-> dests[q]]
      /\ src' = src /\ truthy' = truthy /\ insns' = insns /\ n' = n
      /\ temp' = temp /\ mem' = mem
  BY DEF WriteBack, Dest
<1>2. Final' = Final /\ Args' = Args
  BY <1>1 DEF Final, Args
<1>3. /\ n = Len(insns) + 1 /\ mem = Final.mem /\ FlagsDone /\ TargetsDone
      /\ \A q \in Registers : Pending(q) \/ regs[q] = Final.regs[q]
      /\ \A p \in DOMAIN dests : /\ temp[p][1] = Final.regs[p]
                                 /\ dests[p] = 8 => temp[p][2] = Final.regs[p + 1]
  BY DEF Settling
<1>4. DOMAIN dests' = DOMAIN dests \ {r} /\ \A p \in DOMAIN dests' : dests'[p] = dests[p]
  BY <1>1
<1>5. ASSUME NEW q \in Registers
      PROVE  Pending(q)' \/ regs'[q] = Final.regs[q]
  <2>1. CASE q = r
    BY <1>1, <1>3, <2>1
  <2>2. CASE q # r /\ q = r + 1 /\ dests[r] = 8
    BY <1>1, <1>3, <2>2
  <2>3. CASE q # r /\ ~ (q = r + 1 /\ dests[r] = 8)
    <3>1. regs'[q] = regs[q]
      BY <1>1, <2>3
    <3>2. CASE Pending(q)
      <4>1. q \in DOMAIN dests' \/ \E p \in DOMAIN dests' : dests'[p] = 8 /\ q = p + 1
        BY <1>4, <2>3, <3>2 DEF Pending
      <4>2. QED
        BY <4>1 DEF Pending
    <3>3. QED
      BY <1>3, <3>1, <3>2
  <2>4. QED
    BY <2>1, <2>2, <2>3
<1>6. \A p \in DOMAIN dests' : /\ temp[p][1] = Final.regs[p]
                               /\ dests'[p] = 8 => temp[p][2] = Final.regs[p + 1]
  BY <1>3, <1>4
<1>7. FlagsDone' /\ TargetsDone'
  BY <1>1, <1>2, <1>3 DEF FlagsDone, TargetsDone
<1>8. QED
  BY <1>1, <1>2, <1>3, <1>5, <1>6, <1>7 DEF Settling

\* The branches that leave the packet are those that happen.
LEMMA GoesIs ==
    ASSUME IInv, phase # "prepare", Settling, NEW k \in 1 .. Len(insns)
    PROVE  Goes(k) <=> /\ insns[k].cof # "none" /\ ~insns[k].part1
                       /\ Happens(src, insns[k].at, truthy)
<1>1. /\ Len(insns) \in 1 .. 7 /\ n = Len(insns) + 1 /\ FlagsDone
  BY ReadyIs DEF Settling
<1>2. k < n
  <2>1. k \in 1 .. Len(insns)
    OBVIOUS
  <2>2. QED
    BY ONLY <1>1, <2>1
<1>3. One # Zero
  BY DEF One, Zero, Value
<1>4. insns[k].guard = src[insns[k].at].guard
  BY InsnIs
<1>5. CASE ~Guarded(insns[k])
  BY <1>4, <1>5 DEF Goes, Leaves, Happens, Guarded
<1>6. CASE Guarded(insns[k]) /\ ~Leaves(insns[k])
  BY <1>6 DEF Goes, Leaves
<1>7. CASE Guarded(insns[k]) /\ Leaves(insns[k])
  <2>1. temp[BranchTaken(k)][1] = IF Happens(src, insns[k].at, truthy) THEN One ELSE Zero
    BY <1>1, <1>2, <1>7 DEF FlagsDone
  <2>2. QED
    BY <1>3, <1>7, <2>1 DEF Goes, Leaves
<1>8. QED
  BY <1>5, <1>6, <1>7

\* Branches are lifted in the order of the packet, an endloop last.
LEMMA BranchesOrdered ==
    ASSUME IInv, phase # "prepare", NEW k \in 1 .. Len(insns), NEW l \in 1 .. Len(insns), k < l,
           insns[k].cof # "none", ~insns[k].part1, insns[l].cof # "none", ~insns[l].part1
    PROVE  insns[k].at < insns[l].at
<1>1. /\ src \in Seq(Instruction) /\ Legal(src) /\ Len(src) \in Nat
      /\ Arranged(insns, src) /\ Len(insns) \in 1 .. 7
  BY ReadyIs
<1>2. ASSUME NEW m \in 1 .. Len(insns), insns[m].cof # "none", ~insns[m].part1
      PROVE  /\ insns[m].at \in 1 .. Len(src) /\ insns[m].part1 = FALSE
             /\ IsBranch(insns[m]) \/ EndsLoop(insns[m])
             /\ EndsLoop(insns[m]) => m = Len(insns) /\ insns[m].at = Len(src)
  <2>1. /\ insns[m] \in Instruction /\ insns[m].at \in 1 .. Len(src)
        /\ insns[m].op = src[insns[m].at].op
    BY InsnIs
  <2>2. /\ insns[m].cof \in Branching(insns[m].op) /\ insns[m].part1 \in BOOLEAN
    BY <2>1, Fits
  <2>3. insns[m].op \in {"jump", "newjump", "cmpjump", "jumpr", "call", "return", "endloop"}
    BY <1>2, <2>2 DEF Branching
  <2>4. EndsLoop(insns[m]) => m = Len(insns) /\ insns[m].at = Len(src)
    <3>1. EndsLoop(insns[m]) => m = Len(insns)
      BY <1>1 DEF Arranged
    <3>2. EndsLoop(insns[m]) => EndsLoop(src[insns[m].at])
      BY <2>1 DEF EndsLoop
    <3>3. \A i \in 1 .. Len(src) : EndsLoop(src[i]) => i = Len(src)
      BY <1>1 DEF Legal, LoopsApart
    <3>4. QED
      BY <2>1, <3>1, <3>2, <3>3
  <2>5. QED
    BY <1>2, <2>1, <2>2, <2>3, <2>4 DEF IsBranch, EndsLoop
<1>3. ~EndsLoop(insns[k])
  <2>1. k # Len(insns)
    <3>1. Len(insns) \in 1 .. 7 /\ l \in 1 .. Len(insns) /\ k \in 1 .. Len(insns) /\ k < l
      BY <1>1
    <3>2. QED
      BY ONLY <3>1
  <2>2. QED
    BY <1>2, <2>1
<1>4. CASE EndsLoop(insns[l])
  <2>1. insns[k].at # insns[l].at
    <3>1. insns[k].part1 = insns[l].part1 /\ k # l
      <4>1. k # l
        <5>1. Len(insns) \in 1 .. 7 /\ l \in 1 .. Len(insns) /\ k \in 1 .. Len(insns) /\ k < l
          BY <1>1
        <5>2. QED
          BY ONLY <5>1
      <4>2. QED
        BY <1>2, <4>1
    <3>2. QED
      BY <1>1, <3>1 DEF Arranged
  <2>2. insns[l].at = Len(src) /\ insns[k].at \in 1 .. Len(src)
    BY <1>2, <1>4
  <2>3. QED
    BY <1>1, <2>1, <2>2
<1>5. CASE ~EndsLoop(insns[l])
  BY <1>1, <1>2, <1>3, <1>5 DEF Arranged
<1>6. QED
  BY <1>4, <1>5

\* Where the first branch goes.
Along(i) ==
    LET x == src[i]
    IN  CASE x.cof \in {"jump", "call"} -> Target(x)
          [] x.cof = "return"           -> Result(x, LR, Args[i])
          [] OTHER                      -> Args[i][1]

\* A return through LR finds what the packet found there.
LEMMA ReturnAddress ==
    ASSUME IInv, phase # "prepare", Covered(src), NEW i \in 1 .. Len(src),
           ReturnsThroughLR(src[i])
    PROVE  Args[i][1] = Final.regs[LR]
<1>1. /\ src \in Seq(Instruction) /\ Legal(src) /\ ReturnAddressKept(src)
  BY ReadyIs DEF Covered
<1>2. src[i] \in Instruction /\ src[i].op = "jumpr" /\ LR \in Read(src[i])
  BY <1>1, IndexIs DEF ReturnsThroughLR
<1>3. PICK r \in Registers : src[i].from = << <<"reg", r>> >>
  BY <1>2, Fits DEF OperandsFit
<1>4. r = LR
  <2> DEFINE s == <<"reg", r>>
  <2>1. Range(src[i].from) = {s}
    BY <1>3 DEF Range
  <2>2. Range(RegistersOf(s)) = {r}
    BY RegistersOfIs
  <2> HIDE DEF s
  <2>3. QED
    BY <1>2, <2>1, <2>2 DEF Read
<1>5. Args[i] = OperandsOf(src, Args, i)
  <2>1. ~IsLoad(src[i])
    BY <1>2 DEF IsLoad
  <2>2. QED
    BY <1>1, <2>1, ArgumentsAre DEF ArgsOf, Args
<1> DEFINE g == [k \in 1 .. 1 |-> ReadBy(src, Args, i, src[i].from[k])]
<1>6. OperandsOf(src, Args, i) = FlattenSeq(g)
  <2>1. Len(src[i].from) = 1
    BY <1>3
  <2>2. QED
    BY <2>1 DEF OperandsOf
<1>7. g[1] = <<Initially(LR)>>
  <2>1. g[1] = ReadBy(src, Args, i, <<"reg", LR>>)
    BY <1>3, <1>4
  <2>2. QED
    BY <2>1, ReadByIs
<1>8. FlattenSeq(g) = g[1]
  <2>1. \A j \in 1 .. 1 : IsSeq(g[j])
    <3>1. IsSeq(<<Initially(LR)>>)
      BY ShortIsSeq
    <3>2. IsSeq(g[1])
      BY <1>7, <3>1
    <3> HIDE DEF g
    <3>3. \A j \in 1 .. 1 : j = 1
      OBVIOUS
    <3>4. QED
      BY <3>2, <3>3
  <2>2. g = [j \in 1 .. 1 |-> g[j]]
    OBVIOUS
  <2> HIDE DEF g
  <2>3. FlattenSeq([j \in 1 .. 1 |-> g[j]]) = FlattenSeq([j \in 1 .. 1 - 1 |-> g[j]]) \o g[1]
    <3>1. 1 \in Nat /\ 1 >= 1
      OBVIOUS
    <3>2. QED
      BY ONLY <2>1, <3>1, FlattenMore
  <2>4. 1 - 1 = 0
    OBVIOUS
  <2>5. FlattenSeq([j \in 1 .. 0 |-> g[j]]) = << >>
    BY FlattenNone
  <2>6. << >> \o g[1] = g[1]
    BY <1>7
  <2>7. QED
    BY <2>2, <2>3, <2>4, <2>5, <2>6
<1> HIDE DEF g
<1>9. Args[i][1] = Initially(LR)
  BY <1>5, <1>6, <1>7, <1>8
<1>10. Final.regs[LR] = Initially(LR)
  <2>1. LR \in Registers
    BY DEF Registers
  <2>2. \A j \in Writers(src, truthy) : LR \notin Written(src[j])
    BY <1>1 DEF ReturnAddressKept, Writers
  <2>3. QED
    BY <1>1, <2>1, <2>2, FinalRegister DEF Final
<1>11. QED
  BY <1>9, <1>10

\* A branch goes where the packet's does.
LEMMA GoalIs ==
    ASSUME IInv, phase # "prepare", Covered(src), Settling, dests = << >>,
           NEW k \in 1 .. Len(insns), Goes(k)
    PROVE  Goal(k) = Along(insns[k].at)
<1> DEFINE x == insns[k]
           i == x.at
<1>1. /\ src \in Seq(Instruction) /\ Legal(src) /\ Len(insns) \in 1 .. 7
      /\ n = Len(insns) + 1 /\ TargetsDone
      /\ Arranged(insns, src)
  BY ReadyIs DEF Settling
<1>2. /\ x.cof # "none" /\ ~x.part1 /\ Happens(src, i, truthy)
  BY GoesIs
<1>3. x = src[i] /\ i \in 1 .. Len(src) /\ x \in Instruction
  BY <1>1, <1>2 DEF Arranged
<1>4. regs[LR] = Final.regs[LR]
  <2>1. LR \in Registers
    BY DEF Registers
  <2>2. DOMAIN dests = {}
    OBVIOUS
  <2>3. ~Pending(LR)
    BY <2>2 DEF Pending
  <2>4. QED
    BY <2>1, <2>3 DEF Settling
<1>5. x.cof \in {"jump", "call", "jumpr", "callr", "loop", "return"} /\ x.cof \in Branching(x.op)
  BY <1>2, <1>3, Fits DEF Branching
<1>6. CASE x.cof = "return"
  <2>1. x.op = "return"
    BY <1>5, <1>6 DEF Branching
  <2> DEFINE d == <<"pair", FP>>
  <2>2. d \in Range(x.to)
    BY <1>3, <2>1, Fits DEF OperandsFit
  <2>3. d[1] # "keep" /\ LR \in Range(RegistersOf(d))
    <3>1. d[1] = "pair" /\ d[2] = FP /\ LR = FP + 1
      BY DEF LR, FP
    <3>2. QED
      BY <3>1, RegistersOfIs
  <2>4. LR \in Written(src[i])
    BY <1>3, <2>2, <2>3, WrittenIs
  <2>5. i \in Writers(src, truthy) /\ LR \in Registers
    BY <1>2, <1>3 DEF Writers, Registers
  <2>6. Final.regs[LR] = Result(src[i], LR, Args[i])
    BY <1>1, <2>4, <2>5, FinalRegister DEF Final, Args
  <2>7. QED
    BY <1>3, <1>4, <1>6, <2>6 DEF Goal, Along
<1>7. CASE ReturnsThroughLR(x)
  <2>1. Args[i][1] = Final.regs[LR]
    BY <1>3, <1>7, ReturnAddress
  <2>2. Goal(k) = regs[LR]
    BY <1>7 DEF Goal, ReturnsThroughLR
  <2>3. Along(i) = Args[i][1]
    BY <1>3, <1>7 DEF Along, ReturnsThroughLR
  <2>4. QED
    BY <1>4, <2>1, <2>2, <2>3
<1>8. CASE x.cof \in {"jump", "call"}
  BY <1>3, <1>8 DEF Goal, Along, ReturnsThroughLR
<1>9. CASE x.cof \in {"jumpr", "callr", "loop"} /\ ~ReturnsThroughLR(x)
  <2>1. k \in 1 .. n - 1
    <3>1. Len(insns) \in 1 .. 7 /\ n = Len(insns) + 1 /\ k \in 1 .. Len(insns)
      BY <1>1
    <3>2. QED
      BY ONLY <3>1
  <2>2. temp[BranchrDest(k)][1] = Args[i][1]
    BY <1>1, <1>2, <1>9, <2>1 DEF TargetsDone
  <2>3. Goal(k) = temp[BranchrDest(k)][1]
    BY <1>9 DEF Goal
  <2>4. Along(i) = Args[i][1]
    BY <1>3, <1>9 DEF Along
  <2>5. QED
    BY <2>2, <2>3, <2>4
<1>10. QED
  BY <1>5, <1>6, <1>7, <1>8, <1>9

\* The first flag that is set is that of the first branch that happens.
LEMMA LeaveNext ==
    ASSUME IInv, Covered(src), Settling, Leave
    PROVE  next' = Final.next
<1> DEFINE going == {k \in 1 .. Len(insns) : Goes(k)}
           k == FirstToGo(going)
           taken == {i \in 1 .. Len(src) : Happens(src, i, truthy) /\ src[i].cof # "none"}
           first == CHOOSE i \in taken : \A j \in taken : i <= j
<1>1. /\ phase # "prepare" /\ dests = << >>
      /\ next' = IF going = {} THEN Nowhere
                 ELSE [call |-> insns[k].cof \in {"call", "callr"}, to |-> Goal(k)]
  BY DEF Leave
<1>2. Final.next = IF taken = {} THEN Nowhere
                   ELSE [call |-> src[first].cof \in {"call", "callr"}, to |-> Along(first)]
  <2> DEFINE on == {i \in 1 .. Len(src) : Happens(src, i, truthy)}
             takenOn == {i \in on : src[i].cof # "none"}
  <2>1. taken = takenOn
    OBVIOUS
  <2> HIDE DEF taken
  <2>2. Final.next = IF takenOn = {} THEN Nowhere
                     ELSE LET f == CHOOSE i \in takenOn : \A j \in takenOn : i <= j
                          IN  [call |-> src[f].cof \in {"call", "callr"}, to |-> Along(f)]
    BY DEF Final, InParallel, Along, Args
  <2> HIDE DEF takenOn, on
  <2>3. QED
    BY <2>1, <2>2
<1>3. /\ src \in Seq(Instruction) /\ Legal(src) /\ Len(insns) \in 1 .. 7 /\ Len(src) \in Nat
      /\ Arranged(insns, src)
  BY <1>1, ReadyIs
<1>4. ASSUME NEW l \in going
      PROVE  /\ l \in 1 .. Len(insns) /\ insns[l].cof # "none" /\ ~insns[l].part1
             /\ insns[l].at \in taken
             /\ insns[l].cof = src[insns[l].at].cof
  BY <1>1, <1>4, GoesIs, InsnIs
<1>5. ASSUME NEW i \in taken
      PROVE  \E l \in going : insns[l].at = i
  <2>1. i \in 1 .. Len(src) /\ Happens(src, i, truthy) /\ src[i].cof # "none"
    OBVIOUS
  <2>2. PICK l \in 1 .. Len(insns) : insns[l].at = i /\ ~insns[l].part1
    BY <1>3, <2>1 DEF Arranged
  <2>3. insns[l].cof = src[i].cof
    BY <1>1, <2>2, InsnIs
  <2>4. Goes(l)
    BY <1>1, <2>1, <2>2, <2>3, GoesIs
  <2>5. QED
    BY <2>2, <2>4
<1>6. going \subseteq 1 .. Len(insns) /\ taken \subseteq 1 .. Len(src) /\ going \in SUBSET Nat
  OBVIOUS
<1>7. \A l \in 1 .. Len(insns) : l \in going => Goes(l)
  OBVIOUS
<1> HIDE DEF going, taken
<1>8. CASE going = {}
  <2>1. taken = {}
    BY <1>5, <1>8
  <2>2. QED
    BY <1>1, <1>2, <1>8, <2>1
<1>9. CASE going # {}
  <2>1. \E l \in going : \A m \in going : l <= m
    BY <1>6, <1>9, LeastExists
  <2>2. k \in going /\ \A m \in going : k <= m
    BY <2>1 DEF FirstToGo
  <2> HIDE DEF k
  <2> DEFINE i == insns[k].at
  <2>3. i \in taken /\ taken # {} /\ k \in 1 .. Len(insns) /\ i \in 1 .. Len(src)
    BY <1>4, <1>6, <2>2
  <2>4. ASSUME NEW j \in taken
        PROVE  i <= j
    <3>1. PICK l \in going : insns[l].at = j
      BY <1>5
    <3>2. CASE l = k
      BY <1>3, <2>3, <3>1, <3>2
    <3>3. CASE l # k
      <4>1. k < l /\ l \in 1 .. Len(insns)
        <5>1. k \in 1 .. Len(insns) /\ l \in 1 .. Len(insns) /\ Len(insns) \in 1 .. 7
          BY <1>3, <1>6, <2>2
        <5>2. k <= l
          BY <2>2
        <5>3. QED
          BY ONLY <5>1, <5>2, <3>3
      <4>2. i < j
        BY <1>1, <1>4, <2>2, <2>3, <3>1, <4>1, BranchesOrdered
      <4>3. i \in Nat /\ j \in Nat
        BY <1>3, <1>6, <2>3
      <4> HIDE DEF i
      <4>4. QED
        BY ONLY <4>2, <4>3
    <3>4. QED
      BY <3>2, <3>3
  <2> HIDE DEF i
  <2>5. first \in taken /\ \A j \in taken : first <= j
    BY <2>3, <2>4
  <2> HIDE DEF first
  <2>6. first = i
    <3>1. first <= i /\ i <= first /\ i \in Nat /\ first \in Nat
      BY <1>3, <1>6, <2>3, <2>4, <2>5
    <3>2. QED
      BY ONLY <3>1
  <2>7. Goal(k) = Along(i)
    BY <1>1, <1>7, <2>2, <2>3, GoalIs DEF i
  <2>8. insns[k].cof = src[i].cof
    BY <1>4, <2>2 DEF i
  <2>9. QED
    BY <1>1, <1>2, <1>9, <2>3, <2>6, <2>7, <2>8
<1>10. QED
  BY <1>8, <1>9

-----------------------------------------------------------------------------
(* The lifted code keeps step with the packet. *)

InStep ==
    /\ regs = [r \in Registers |-> regs[r]]
    /\ phase = "prepare" => /\ \A r \in Registers : regs[r] = Initially(r)
                            /\ mem = << >> /\ dests = << >>
    /\ phase = "lift" => n <= Len(insns) /\ Midway
    /\ phase = "write_back" => Settling

\* It is so before the packet is prepared,
LEMMA InitInStep == Init => InStep
<1>1. SUFFICES ASSUME Init
               PROVE  InStep
  OBVIOUS
<1>2. /\ regs = [r \in Registers |-> Initially(r)] /\ mem = << >> /\ dests = << >>
      /\ phase = "prepare"
  BY <1>1 DEF Init
<1>3. QED
  BY <1>2 DEF InStep

\* Nothing is stored before the first instruction is lifted.
LEMMA NothingStored ==
    ASSUME NEW l \in Nat
    PROVE  FlattenSeq([j \in 1 .. l |-> << >>]) = << >>
<1> DEFINE g == [j \in 1 .. l |-> << >>]
<1>1. \A j \in 1 .. l : IsSeq(g[j]) /\ g[j] = << >>
  BY EmptyIsSeq
<1>2. g = [j \in 1 .. l |-> g[j]]
  OBVIOUS
<1> HIDE DEF g
<1>3. 0 \in 0 .. l /\ \A j \in 0 + 1 .. l : g[j] = << >>
  BY <1>1
<1>4. FlattenSeq([j \in 1 .. l |-> g[j]]) = FlattenSeq([j \in 1 .. 0 |-> g[j]])
  BY ONLY <1>1, <1>3, FlattenPrefix, l \in Nat
<1>5. FlattenSeq(g) = << >>
  BY <1>2, <1>4, FlattenNone
<1>6. QED
  BY <1>5 DEF g

\* and with no instruction lifted: the flags of conditional branches are cleared,
\* whatever the packet before has left.
LEMMA PrepareInStep ==
    ASSUME IInv, IInv', InStep, Prepare
    PROVE  InStep'
<1>1. /\ phase = "prepare" /\ insns' = PreparePacketForLifting(src)
      /\ temp' = ClearTaken(insns', temp) /\ phase' = "lift"
      /\ src' = src /\ truthy' = truthy /\ n' = n /\ dests' = dests /\ regs' = regs /\ mem' = mem
  BY DEF Prepare
<1>2. /\ n = 1 /\ src \in Fetched /\ mem = << >> /\ dests = << >>
      /\ \A r \in Registers : regs[r] = Initially(r)
      /\ regs = [r \in Registers |-> regs[r]]
  BY <1>1 DEF IInv, InStep
<1>3. /\ src \in Seq(Instruction) /\ src # << >> /\ Legal(src)
  BY <1>2, FetchedIs
<1>4. Len(insns') \in 1 .. 7
  BY <1>1, <1>3, PreparedPacket
<1>5. Len(src) \in Nat
  BY <1>3, LenProperties
<1>6. Lifted' = {} /\ Active' = {}
  <2>1. 1 .. n' - 1 = {}
    BY <1>1, <1>2
  <2>2. Lifted' = {}
    BY <2>1 DEF Lifted
  <2>3. QED
    BY <2>2 DEF Active
<1>7. NamedDone'
  BY <1>1, <1>2, <1>6 DEF NamedDone
<1>8. TempsDone' /\ CopiesKept'
  BY <1>6 DEF TempsDone, CopiesKept
<1>9. Asked'
  <2>1. DOMAIN dests' = {}
    BY <1>1, <1>2
  <2>2. QED
    BY <1>6, <2>1 DEF Asked
<1>10. StoresDone'
  <2> DEFINE h == [j \in 1 .. Len(src) |->
                     IF j \in Lifted' THEN StoredBy(src, truthy, Args', j) ELSE << >>]
  <2>1. StoresDone' <=> mem' = FlattenSeq(h)
    BY <1>1 DEF StoresDone, LogOf
  <2>2. h = [j \in 1 .. Len(src) |-> << >>]
    BY <1>6
  <2>3. QED
    BY <1>1, <1>2, <1>5, <2>1, <2>2, NothingStored
<1>11. FlagsDone'
  <2>1. ASSUME NEW k \in 1 .. Len(insns'), Leaves(insns'[k]), Guarded(insns'[k])
        PROVE  temp'[BranchTaken(k)][1] = Zero /\ ~ (k < n')
    <3>1. BranchTaken(k) \in Temps
      BY <1>4, FewInsns, RegistersAreTemps
    <3>2. temp'[BranchTaken(k)] = <<Zero, temp[BranchTaken(k)][2]>>
      BY <1>1, <2>1, <3>1 DEF ClearTaken
    <3>3. ~ (k < n')
      BY <1>1, <1>2, <1>4
    <3>4. QED
      BY <3>2, <3>3
  <2>2. QED
    BY <2>1 DEF FlagsDone, Leaves, Guarded
<1>12. TargetsDone'
  <2>1. 1 .. n' - 1 = {}
    BY <1>1, <1>2
  <2>2. QED
    BY <2>1 DEF TargetsDone
<1>13. Midway'
  BY <1>7, <1>8, <1>9, <1>10, <1>11, <1>12 DEF Midway
<1>14. n' <= Len(insns')
  BY <1>1, <1>2, <1>4
<1>15. QED
  BY <1>1, <1>2, <1>13, <1>14 DEF InStep

\* The end of the lifting, after a step.
LEMMA LiftingEndsNext == AtEnd' => Settling'
BY LiftingEnds, PTL

\* Lifting keeps step,
LEMMA LiftInStep ==
    ASSUME IInv, IInv', InStep, Covered(src), Lift
    PROVE  InStep'
<1>1. /\ phase = "lift" /\ n' = n + 1 /\ src' = src /\ insns' = insns
      /\ phase' = IF n = Len(insns) THEN "write_back" ELSE "lift"
  BY DEF Lift
<1>2. n <= Len(insns) /\ Midway /\ regs = [r \in Registers |-> regs[r]]
  BY <1>1 DEF InStep
<1>3. Ready
  BY <1>1, <1>2 DEF Ready
<1>4. Midway'
  BY <1>3, MidwayStep
<1>5. regs' = [r \in Registers |-> regs'[r]]
  <2> DEFINE insn == insns[n]
             t    == SetEA(insn, CopyToTemp(insn))
             args == Values(insn, t)
  <2>1. CASE regs' = regs
    BY <1>2, <2>1
  <2>2. CASE regs' = [r \in Registers |-> IF <<"direct", r>> \in Writes(insn)
                                          THEN Result(insn, r, args) ELSE regs[r]]
    <3> HIDE DEF insn, args
    <3>1. QED
      BY <2>2
  <2>3. QED
    BY <2>1, <2>2 DEF Lift
<1>6. n \in 1 .. Len(insns) /\ Len(insns) \in 1 .. 7
  BY <1>3, CurrentIs
<1>7. CASE n = Len(insns)
  <2>1. phase' = "write_back" /\ n' = Len(insns') + 1
    BY <1>1, <1>7
  <2>2. AtEnd'
    BY <1>1, <1>4, <2>1 DEF AtEnd
  <2>3. Settling'
    BY <2>2, LiftingEndsNext
  <2>4. QED
    BY <1>5, <2>1, <2>3 DEF InStep
<1>8. CASE n # Len(insns)
  <2>1. phase' = "lift"
    BY <1>1, <1>8
  <2>2. n' <= Len(insns')
    BY <1>1, <1>6, <1>8
  <2>3. QED
    BY <1>4, <1>5, <2>1, <2>2 DEF InStep
<1>9. QED
  BY <1>7, <1>8

\* and so does every step.
LEMMA NextInStep ==
    ASSUME IInv, IInv', InStep, Covered(src), [Next]_vars
    PROVE  InStep'
<1>1. CASE UNCHANGED vars
  <2>1. /\ src' = src /\ truthy' = truthy /\ insns' = insns /\ n' = n /\ dests' = dests
        /\ regs' = regs /\ temp' = temp /\ mem' = mem /\ phase' = phase
    BY <1>1 DEF vars
  <2>2. Args' = Args /\ Final' = Final /\ Lifted' = Lifted
    BY <2>1 DEF Args, Final, Lifted, Carries
  <2>3. Active' = Active
    BY <2>1, <2>2 DEF Active
  <2>4. Midway' <=> Midway
    <3>1. NamedDone' <=> NamedDone
      BY <2>1, <2>2, <2>3 DEF NamedDone
    <3>2. TempsDone' <=> TempsDone
      BY <2>1, <2>2, <2>3 DEF TempsDone
    <3>3. CopiesKept' <=> CopiesKept
      BY <2>1, <2>2, <2>3 DEF CopiesKept, Unwritten
    <3>4. Asked' <=> Asked
      BY <2>1, <2>2 DEF Asked
    <3>5. StoresDone' <=> StoresDone
      BY <2>1, <2>2 DEF StoresDone, LogOf
    <3>6. (FlagsDone' <=> FlagsDone) /\ (TargetsDone' <=> TargetsDone)
      BY <2>1, <2>2 DEF FlagsDone, TargetsDone
    <3>7. QED
      BY <3>1, <3>2, <3>3, <3>4, <3>5, <3>6 DEF Midway
  <2>5. Settling' <=> Settling
    <3>1. (FlagsDone' <=> FlagsDone) /\ (TargetsDone' <=> TargetsDone)
      BY <2>1, <2>2 DEF FlagsDone, TargetsDone
    <3>2. \A r : Pending(r)' <=> Pending(r)
      BY <2>1 DEF Pending
    <3>3. QED
      BY <2>1, <2>2, <3>1, <3>2 DEF Settling
  <2>6. QED
    BY <2>1, <2>4, <2>5 DEF InStep
<1>2. CASE Prepare
  BY <1>2, PrepareInStep
<1>3. CASE Lift
  BY <1>3, LiftInStep
<1>4. ASSUME NEW r \in DOMAIN dests, WriteBack(r)
      PROVE  InStep'
  <2>1. phase = "write_back" /\ phase' = phase
    BY <1>4 DEF WriteBack
  <2>2. regs' = [q \in Registers |-> regs'[q]]
    BY <1>4 DEF WriteBack
  <2>3. Settling
    BY <2>1 DEF InStep
  <2>4. Settling'
    BY <1>4, <2>3, WriteBackSettles
  <2>5. QED
    BY <2>1, <2>2, <2>4 DEF InStep
<1>5. CASE Leave
  BY <1>5 DEF Leave, InStep
<1>6. QED
  BY <1>1, <1>2, <1>3, <1>4, <1>5 DEF Next

\* The definitions that Parallel's own copies stand for.
LEMMA SamePacket ==
    /\ \A f : P!Range(f) = Range(f)
    /\ \A q, r : P!ProducersOf(q, r) = ProducersOf(q, r)
    /\ \A q, i : P!Decider(q, i) = Decider(q, i)
    /\ \A x : P!Guarded(x) <=> Guarded(x)
    /\ \A x : P!Written(x) = Written(x)
<1>1. \A f : P!Range(f) = Range(f)
  BY DEF Range, P!Range
<1>2. \A d : P!RegistersOf(d) = RegistersOf(d)
  BY DEF RegistersOf, P!RegistersOf
<1>3. \A x : P!Written(x) = Written(x)
  BY <1>1, <1>2 DEF Written, P!Written
<1>4. \A q, r : P!ProducersOf(q, r) = ProducersOf(q, r)
  BY <1>3 DEF ProducersOf, P!ProducersOf
<1>5. \A q, i, r : P!ProducerOf(q, i, r) = ProducerOf(q, i, r)
  BY <1>4 DEF ProducerOf, P!ProducerOf
<1>6. \A q, i : P!Decider(q, i) = Decider(q, i)
  BY <1>5 DEF Decider, P!Decider, Condition, P!Condition
<1>7. \A x : P!Guarded(x) <=> Guarded(x)
  BY DEF Guarded, P!Guarded, NoGuard, P!NoGuard
<1>8. QED
  BY <1>1, <1>3, <1>4, <1>6, <1>7

\* The same values decide,
LEMMA SameDeciders == \A q : P!Deciders(q) = Deciders(q)
BY SamePacket DEF Deciders, P!Deciders

\* instructions have the same arguments,
LEMMA SameArguments == \A q, tr : P!Arguments(q, tr) = Arguments(q, tr)
BY DEF Arguments, P!Arguments, FlattenSeq, P!FlattenSeq, RegistersOf, P!RegistersOf,
   Written, P!Written, Range, P!Range, ProducersOf, P!ProducersOf, ProducerOf, P!ProducerOf,
   Decider, P!Decider, Condition, P!Condition, Guarded, P!Guarded, NoGuard, P!NoGuard,
   Happens, P!Happens, IsStore, P!IsStore, IsLoad, P!IsLoad, Result, P!Result,
   Initially, P!Initially, Value, P!Value

\* a packet does the same,
LEMMA SameInParallel ==
    ASSUME NEW q, NEW tr
    PROVE  P!InParallel(q, tr) = InParallel(q, tr)
<1> DEFINE A == Arguments(q, tr)
           on == {i \in 1 .. Len(q) : Happens(q, i, tr)}
           onP == {i \in 1 .. Len(q) : P!Happens(q, i, tr)}
           writers == on \cup {i \in 1 .. Len(q) : IsCmpJump(q[i])}
           writersP == onP \cup {i \in 1 .. Len(q) : P!IsCmpJump(q[i])}
           taken == {i \in on : q[i].cof # "none"}
           takenP == {i \in onP : q[i].cof # "none"}
           first == CHOOSE i \in taken : \A j \in taken : i <= j
           To(i) == CASE q[i].cof \in {"jump", "call"} -> Target(q[i])
                    [] q[i].cof = "return"           -> Result(q[i], LR, A[i])
                    [] OTHER                         -> A[i][1]
           ToP(i) == CASE q[i].cof \in {"jump", "call"} -> P!Target(q[i])
                     [] q[i].cof = "return"           -> P!Result(q[i], P!LR, P!Arguments(q, tr)[i])
                     [] OTHER                         -> P!Arguments(q, tr)[i][1]
           firstP == CHOOSE i \in takenP : \A j \in takenP : i <= j
           Reg(r) == IF \E i \in writers : r \in Written(q[i])
                     THEN LET w == CHOOSE i \in writers : r \in Written(q[i])
                          IN  Result(q[w], r, A[w])
                     ELSE Initially(r)
           RegP(r) == IF \E i \in writersP : r \in P!Written(q[i])
                      THEN LET w == CHOOSE i \in writersP : r \in P!Written(q[i])
                           IN  P!Result(q[w], r, P!Arguments(q, tr)[w])
                      ELSE P!Initially(r)
           Log(i) == IF IsStore(q[i]) /\ i \in on THEN A[i] ELSE << >>
           LogP(i) == IF P!IsStore(q[i]) /\ i \in onP THEN P!Arguments(q, tr)[i] ELSE << >>
<1>1. InParallel(q, tr) =
         [regs |-> [r \in Registers |-> Reg(r)],
          mem  |-> FlattenSeq([i \in 1 .. Len(q) |-> Log(i)]),
          next |-> IF taken = {} THEN Nowhere
                   ELSE [call |-> q[first].cof \in {"call", "callr"}, to |-> To(first)]]
  BY DEF InParallel
<1>2. P!InParallel(q, tr) =
         [regs |-> [r \in P!Registers |-> RegP(r)],
          mem  |-> P!FlattenSeq([i \in 1 .. Len(q) |-> LogP(i)]),
          next |-> IF takenP = {} THEN P!Nowhere
                   ELSE [call |-> q[firstP].cof \in {"call", "callr"}, to |-> ToP(firstP)]]
  BY DEF P!InParallel
<1>3. P!Arguments(q, tr) = A
  BY SameArguments
<1>4. \A i : P!Happens(q, i, tr) <=> Happens(q, i, tr)
  BY SamePacket DEF Happens, P!Happens
<1>5. \A x : (P!IsCmpJump(x) <=> IsCmpJump(x)) /\ (P!IsStore(x) <=> IsStore(x))
  BY DEF IsCmpJump, P!IsCmpJump, IsStore, P!IsStore
<1>6. /\ P!Registers = Registers /\ P!LR = LR /\ P!Nowhere = Nowhere
      /\ \A r : P!Initially(r) = Initially(r)
      /\ \A x, r, a : P!Result(x, r, a) = Result(x, r, a)
      /\ \A x : P!Target(x) = Target(x)
  BY DEF Registers, P!Registers, SP, P!SP, FP, P!FP, LR, P!LR, SA0, P!SA0, LC0, P!LC0,
     P0, P!P0, P3, P!P3, Nowhere, P!Nowhere, Initially, P!Initially, Result, P!Result,
     Target, P!Target, Value, P!Value
<1>7. \A g : P!FlattenSeq(g) = FlattenSeq(g)
  BY DEF FlattenSeq, P!FlattenSeq
<1>8. onP = on /\ writersP = writers /\ takenP = taken
  BY <1>4, <1>5
<1>9. \A r : RegP(r) = Reg(r)
  <2> HIDE DEF writers, writersP
  <2> QED BY <1>3, <1>6, <1>8, SamePacket
<1>10. \A i : LogP(i) = Log(i)
  <2> HIDE DEF on, onP
  <2> QED BY <1>3, <1>5, <1>8
<1>11. \A i : ToP(i) = To(i)
  BY <1>3, <1>6
<1>12. firstP = first
  <2> HIDE DEF taken, takenP
  <2> QED BY <1>8
<1>13. [r \in Registers |-> RegP(r)] = [r \in Registers |-> Reg(r)]
  <2> HIDE DEF Reg, RegP
  <2> QED BY <1>9
<1>14. [i \in 1 .. Len(q) |-> LogP(i)] = [i \in 1 .. Len(q) |-> Log(i)]
  <2> HIDE DEF Log, LogP
  <2> QED BY <1>10
<1> HIDE DEF Reg, RegP, Log, LogP, on, onP, writers, writersP, taken, takenP, first, firstP,
             To, ToP
<1>15. QED
  BY <1>1, <1>2, <1>6, <1>7, <1>8, <1>11, <1>12, <1>13, <1>14

\* the same packets are legal,
LEMMA SameLegal == \A q : P!Legal(q) <=> Legal(q)
<1>1. \A x : (P!IsCmpJump(x) <=> IsCmpJump(x)) /\ (P!EndsLoop(x) <=> EndsLoop(x))
  BY DEF IsCmpJump, P!IsCmpJump, EndsLoop, P!EndsLoop
<1>2. \A q : P!FitsSlots(q) <=> FitsSlots(q)
  BY DEF FitsSlots, P!FitsSlots, SlotStep, P!SlotStep, Slots, P!Slots, IsExt, P!IsExt,
     EndsLoop, P!EndsLoop, Max, P!Max
<1>3. \A q : P!FewBranches(q) <=> FewBranches(q)
  <2>1. \A S : P!Cardinality(S) = Cardinality(S)
    BY DEF Cardinality, P!Cardinality
  <2>2. \A x : P!IsBranch(x) <=> IsBranch(x)
    BY DEF IsBranch, P!IsBranch
  <2>3. QED
    BY <2>1, <2>2 DEF FewBranches, P!FewBranches
<1>4. \A q : P!WrittenOnce(q) <=> WrittenOnce(q)
  BY DEF WrittenOnce, P!WrittenOnce, Alternatives, P!Alternatives, Written, P!Written,
     RegistersOf, P!RegistersOf, Range, P!Range, Guarded, P!Guarded, NoGuard, P!NoGuard
<1>5. \A q : P!NewProduced(q) <=> NewProduced(q)
  BY DEF NewProduced, P!NewProduced, ProducersOf, P!ProducersOf, Written, P!Written,
     RegistersOf, P!RegistersOf, Range, P!Range, Guarded, P!Guarded, NoGuard, P!NoGuard,
     IsCmpJump, P!IsCmpJump
<1>6. \A q : P!LoopsApart(q) <=> LoopsApart(q)
  BY <1>1, SamePacket DEF LoopsApart, P!LoopsApart, LC0, P!LC0
<1>7. QED
  BY <1>2, <1>3, <1>4, <1>5, <1>6 DEF Legal, P!Legal

\* and they start from the same registers.
LEMMA SameUntouched ==
    P!Untouched = [regs |-> [r \in Registers |-> Initially(r)], mem |-> << >>, next |-> Nowhere]
BY DEF P!Untouched, Registers, P!Registers, SP, P!SP, FP, P!FP, LR, P!LR, SA0, P!SA0, LC0, P!LC0, P0, P!P0,
     P3, P!P3, Initially, P!Initially, Value, P!Value, Nowhere, P!Nowhere

\* The last step is that of the packet in parallel, the others change nothing.
LEMMA LeaveExecutes ==
    ASSUME IInv, InStep, Covered(src), Leave
    PROVE  P!Execute
<1>1. /\ phase = "write_back" /\ phase' = "done" /\ dests = << >>
      /\ src' = src /\ truthy' = truthy /\ regs' = regs /\ mem' = mem
  BY DEF Leave
<1>2. Settling /\ regs = [r \in Registers |-> regs[r]]
  BY <1>1 DEF InStep
<1>3. next' = Final.next
  BY <1>2, LeaveNext
<1>4. mem' = Final.mem
  BY <1>1, <1>2 DEF Settling
<1>5. regs' = Final.regs
  <2>1. \A r \in Registers : ~Pending(r)
    BY <1>1 DEF Pending
  <2>2. \A r \in Registers : regs[r] = Final.regs[r]
    BY <1>2, <2>1 DEF Settling
  <2>3. Final.regs = [r \in Registers |-> Final.regs[r]]
    BY DEF Final, InParallel
  <2> DEFINE fin == Final.regs
  <2>4. fin = [r \in Registers |-> fin[r]] /\ \A r \in Registers : regs[r] = fin[r]
    BY <2>2, <2>3
  <2> HIDE DEF fin
  <2>5. regs = fin
    BY <1>2, <2>4
  <2>6. QED
    BY <1>1, <2>5 DEF fin
<1>6. Final = [regs |-> Final.regs, mem |-> Final.mem, next |-> Final.next]
  BY DEF Final, InParallel
<1>7. Outcome' = [regs |-> regs', mem |-> mem', next |-> next']
  BY <1>1 DEF Outcome
<1>8. Outcome' = Final
  BY <1>3, <1>4, <1>5, <1>6, <1>7
<1>9. QED
  BY <1>1, <1>8, SameInParallel DEF P!Execute, Final

\* The steps before change nothing that can be seen.
LEMMA OthersStutter ==
    ASSUME IInv, [Next]_vars, ~Leave
    PROVE  UNCHANGED <<src, truthy, Outcome>>
<1>1. CASE UNCHANGED vars
  BY <1>1 DEF vars, Outcome
<1>2. CASE Prepare
  BY <1>2 DEF Prepare, Outcome
<1>3. CASE Lift
  <2>1. phase = "lift" /\ phase' # "done" /\ src' = src /\ truthy' = truthy
    BY <1>3 DEF Lift
  <2>2. QED
    BY <2>1 DEF Outcome
<1>4. ASSUME NEW r \in DOMAIN dests, WriteBack(r)
      PROVE  UNCHANGED <<src, truthy, Outcome>>
  BY <1>4 DEF WriteBack, Outcome
<1>5. QED
  BY <1>1, <1>2, <1>3, <1>4 DEF Next

-----------------------------------------------------------------------------
(* Theorems. *)

\* The temporaries and registers that the lifter names exist: the number of a flag
\* is in the range kept for flags, however many instructions a prepared packet has,
\* and the write-back of a pair has a register for each half.
THEOREM TypeCorrect == Spec => []TypeOK
<1>1. IInv => TypeOK
  <2>1. SUFFICES ASSUME IInv
                 PROVE  TypeOK
    OBVIOUS
  <2>2. DOMAIN temp = Temps /\ DOMAIN regs = Registers
    BY <2>1 DEF IInv, Tables
  <2>3. ASSUME NEW r \in DOMAIN dests
        PROVE  {r, r + dests[r] \div 8} \subseteq Registers
    <3>1. /\ r \in Registers
          /\ dests[r] = 4 \/ (dests[r] = 8 /\ r \in Pairs)
      BY <2>1 DEF IInv, Sizes
    <3>2. CASE dests[r] = 4
      <4>1. dests[r] \div 8 = 0
        BY <3>2
      <4>2. r + 0 = r
        BY <3>1 DEF Registers, SP, FP, LR, SA0, LC0, P0, P3
      <4>3. QED
        BY <3>1, <4>1, <4>2
    <3>3. CASE dests[r] = 8 /\ r \in Pairs
      <4>1. dests[r] \div 8 = 1
        BY <3>3
      <4>2. QED
        BY <3>1, <3>3, <4>1, RegistersAreTemps
    <3>4. QED
      BY <3>1, <3>2, <3>3
  <2>4. ASSUME NEW i \in 1 .. Len(insns)
        PROVE  BranchTaken(i) \in Temps
    <3>1. CASE phase = "prepare"
      <4>1. insns = << >>
        BY <2>1, <3>1 DEF IInv
      <4>2. QED
        BY <4>1
    <3>2. CASE phase # "prepare"
      <4>1. Len(insns) \in 1 .. 7
        BY <2>1, <3>2, InsnsAre
      <4>2. i \in 1 .. 7
        BY <4>1, FewInsns
      <4>3. QED
        BY <4>2, RegistersAreTemps
    <3>3. QED
      BY <3>1, <3>2
  <2>5. QED
    BY <2>1, <2>2, <2>3, <2>4 DEF TypeOK, IInv
<1>2. QED
  BY <1>1, Inductive, PTL

\* What the lifted code does at the end of a packet stays within what the analysis of
\* the packet has told of its branches, for every legal packet, whichever conditions
\* hold and whether or not the packet is one that the lifter's technique covers.
THEOREM StaysWithinReported == Spec => []SuccessorsReported
<1>1. IInv => SuccessorsReported
  <2>1. SUFFICES ASSUME IInv, phase = "done"
                 PROVE  CASE next.call ->
                                /\ \/ Branch("CallDestination", next.to) \in Reported(src)
                                   \/ next.to \notin {Target(insns[i]) : i \in 1 .. Len(insns)}
                                /\ NextPacket \in Successors(src) \/ CallsBesideJump(src)
                          [] next = Nowhere -> NextPacket \in Successors(src)
                          [] OTHER ->
                                \/ next.to \in Successors(src)
                                \/ \E i \in 1 .. Len(src) :
                                      /\ IsJump(src[i]) /\ IsIndirect(src[i])
                                      /\ next.to \notin {Target(src[j]) : j \in 1 .. Len(src)}
                                      /\ Guarded(src[i]) \/ Unknown \in Successors(src)
    BY DEF SuccessorsReported
  <2>2. /\ Len(insns) \in 1 .. 7
        /\ \A i \in 1 .. Len(insns) : insns[i] \in Instruction
        /\ \A i \in 1 .. Len(insns) :
              ~insns[i].part1 => \E k \in 1 .. Len(src) : insns[i] = src[k]
        /\ \A k \in 1 .. Len(src) :
              ~src[k].part1 /\ \E i \in 1 .. Len(insns) : insns[i] = src[k]
    BY <2>1, InsnsAre
  <2>3. CASE next = Nowhere /\ \A i \in 1 .. Len(insns) : ~Goes(i)
    <3>1. ASSUME NEW k \in 1 .. Len(src), IsJump(src[k]), ~Guarded(src[k])
          PROVE  FALSE
      <4>1. PICK i \in 1 .. Len(insns) : insns[i] = src[k] /\ ~src[k].part1
        BY <2>2
      <4>2. Goes(i)
        BY <3>1, <4>1 DEF Goes, Leaves, IsJump
      <4>3. QED
        BY <2>3, <4>2
    <3>2. NextPacket \in Successors(src)
      BY <3>1, FallsThrough
    <3>3. next = Nowhere /\ next.call = FALSE
      BY <2>3 DEF Nowhere
    <3>4. QED
      BY <3>2, <3>3
  <2>4. ASSUME NEW i \in 1 .. Len(insns), Goes(i),
               next = [call |-> insns[i].cof \in {"call", "callr"}, to |-> Goal(i)]
        PROVE  CASE next.call ->
                      /\ \/ Branch("CallDestination", next.to) \in Reported(src)
                         \/ next.to \notin {Target(insns[j]) : j \in 1 .. Len(insns)}
                      /\ NextPacket \in Successors(src) \/ CallsBesideJump(src)
                [] next = Nowhere -> NextPacket \in Successors(src)
                [] OTHER ->
                      \/ next.to \in Successors(src)
                      \/ \E j \in 1 .. Len(src) :
                            /\ IsJump(src[j]) /\ IsIndirect(src[j])
                            /\ next.to \notin {Target(src[l]) : l \in 1 .. Len(src)}
                            /\ Guarded(src[j]) \/ Unknown \in Successors(src)
    <3>1. PICK k \in 1 .. Len(src) : insns[i] = src[k]
      BY <2>2, <2>4 DEF Goes, Leaves
    <3>2. /\ next.call = (src[k].cof \in {"call", "callr"}) /\ next.to = Goal(i)
          /\ src[k].cof # "none" /\ ~src[k].part1
          /\ src[k].cof \in {"none", "jump", "call", "jumpr", "callr", "loop", "return"}
      BY <2>2, <2>4, <3>1 DEF Goes, Leaves, Instruction
    <3>3. src[k].cof \in {"jump", "call"} => Goal(i) = Target(src[k])
      BY <3>1 DEF Goal, ReturnsThroughLR
    <3>4. src[k].cof \notin {"jump", "call"} => IsData(Goal(i))
      <4>1. i \in 1 .. 7
        BY <2>2, FewInsns
      <4>2. BranchrDest(i) \in Temps /\ LR \in Registers
        BY <4>1, RegistersAreTemps DEF Registers
      <4>3. IsData(regs[LR]) /\ IsData(temp[BranchrDest(i)][1])
        BY <2>1, <4>2 DEF IInv, Tables
      <4>4. QED
        BY <3>1, <4>3 DEF Goal
    <3>5. next # Nowhere
      <4>1. ~IsData(Nowhere.to) /\ Goal(i) # Nowhere.to
        <5>1. \A x : Target(x) # Nowhere.to
          BY DEF Target, Nowhere, Value
        <5>2. QED
          BY <3>3, <3>4, <5>1, ValuesAreData
      <4>2. QED
        BY <3>2, <4>1
    <3>6. CASE src[k].cof \in {"call", "callr"}
      <4>1. \/ Branch("CallDestination", next.to) \in Reported(src)
            \/ next.to \notin {Target(insns[j]) : j \in 1 .. Len(insns)}
        <5>1. CASE src[k].cof = "call"
          BY <3>2, <3>3, <5>1, CallReported
        <5>2. CASE src[k].cof = "callr"
          BY <3>2, <3>4, <5>2, ValuesAreData
        <5>3. QED
          BY <3>6, <5>1, <5>2
      <4>2. NextPacket \in Successors(src) \/ CallsBesideJump(src)
        <5>1. CASE \E j \in 1 .. Len(src) : IsJump(src[j]) /\ ~Guarded(src[j])
          BY <3>6, <5>1 DEF CallsBesideJump, IsCall
        <5>2. CASE ~ \E j \in 1 .. Len(src) : IsJump(src[j]) /\ ~Guarded(src[j])
          BY <5>2, FallsThrough
        <5>3. QED
          BY <5>1, <5>2
      <4>3. QED
        BY <3>2, <3>6, <4>1, <4>2, <3>5
    <3>7. CASE src[k].cof = "jump"
      <4>1. next.to \in Successors(src) /\ ~next.call
        BY <3>2, <3>3, <3>7, JumpReported
      <4>2. QED
        BY <3>5, <4>1
    <3>8. CASE src[k].cof \in {"jumpr", "loop", "return"}
      <4>1. IsJump(src[k]) /\ IsIndirect(src[k]) /\ ~next.call
        BY <3>2, <3>8 DEF IsJump, IsIndirect
      <4>2. next.to \notin {Target(src[j]) : j \in 1 .. Len(src)}
        BY <3>2, <3>4, <3>8, ValuesAreData
      <4>3. Guarded(src[k]) \/ Unknown \in Successors(src)
        BY <4>1, IndirectReported
      <4>4. QED
        BY <3>5, <4>1, <4>2, <4>3
    <3>9. QED
      BY <3>2, <3>6, <3>7, <3>8
  <2>5. Gone
    BY <2>1 DEF IInv
  <2>6. QED
    BY <2>3, <2>4, <2>5 DEF Gone
<1>2. QED
  BY <1>1, Inductive, PTL

\* The lifted code does what the packet does in parallel, for every packet that the
\* lifter's technique covers, however its instructions are encoded, whichever
\* conditions hold and whatever the packet before has left in the temporaries.
THEOREM ImplementsParallel ==
    ASSUME \A pkt \in Fetched : Covered(pkt)
    PROVE  Spec => Implements
<1>1. Init => P!Init
  <2>1. SUFFICES ASSUME Init
                 PROVE  P!Init
    OBVIOUS
  <2>2. /\ src \in Fetched /\ truthy \in SUBSET Deciders(src) /\ phase = "prepare"
    BY <2>1 DEF Init
  <2>3. Legal(src)
    BY <2>2, FetchedIs
  <2>4. Outcome = P!Untouched
    BY <2>2, SameUntouched DEF Outcome
  <2>5. QED
    BY <2>2, <2>3, <2>4, SameLegal, SameDeciders DEF P!Init
<1>2. IInv => Covered(src)
  BY DEF IInv
<1>3. IInv /\ IInv' /\ InStep /\ [Next]_vars => InStep'
  BY <1>2, NextInStep
<1>4. IInv /\ InStep /\ [Next]_vars => [P!Execute]_<<src, truthy, Outcome>>
  <2>1. SUFFICES ASSUME IInv, InStep, [Next]_vars
                 PROVE  [P!Execute]_<<src, truthy, Outcome>>
    OBVIOUS
  <2>2. CASE Leave
    <3>1. P!Execute
      BY <1>2, <2>1, <2>2, LeaveExecutes
    <3>2. QED
      BY <3>1
  <2>3. CASE ~Leave
    <3>1. UNCHANGED <<src, truthy, Outcome>>
      BY <2>1, <2>3, OthersStutter
    <3>2. QED
      BY <3>1
  <2>4. QED
    BY <2>2, <2>3
<1>5. QED
  BY <1>1, <1>3, <1>4, InitInStep, Inductive, PTL DEF Spec, Implements, P!Spec
=============================================================================
