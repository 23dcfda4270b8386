--------------------------- MODULE Decoder_proofs ---------------------------
(***************************************************************************)
(* The decoder over every binary and every window length.                  *)
(***************************************************************************)
EXTENDS Decoder, PacketDbParts_proofs

LEMMA WindowLength == \A l \in Nat, m \in 1 .. 4 : l <= m => l \in 0 .. 4
OBVIOUS

LEMMA PacketBound ==
    \A l \in 0 .. 4 : \A s \in 1 .. l : \A k \in s .. s + 2 :
        s \in 0 .. l /\ s # 0 /\ k # 0 /\ k < 7
OBVIOUS

(* The packet is always the one of the current window. *)
IInv ==
    /\ words \in Seq(Words) /\ Len(words) <= MaxWords
    /\ pkt = DecodePacket(words)

LEMMA IInvHolds == Spec => []IInv
<1>1. Init => IInv
  <2>1. ~HasEnd(<< >>)
    BY DEF HasEnd
  <2>2. QED
    BY <2>1, MaxWordsAssumption DEF Init, IInv, DecodePacket
<1>2. IInv /\ [Next]_vars => IInv'
  BY MaxWordsAssumption DEF IInv, Next, Decode, vars
<1>3. QED
  BY <1>1, <1>2, PTL DEF Spec

\* The first packet of a window is final: no word after it, and no window that
\* was cut longer, makes another packet of the same bytes.
THEOREM PacketIsFinal == Spec => WindowIndependent
<1>1. IInv /\ [Next]_vars => [pkt # Fail => pkt' = pkt]_vars
  <2> SUFFICES ASSUME IInv, NEW w \in Words, Decode(w), pkt # Fail
               PROVE  pkt' = pkt
    BY DEF Next, vars
  <2>1. words' = Append(words, w) /\ pkt' = DecodePacket(Append(words, w))
    BY DEF Decode
  <2>2. words \in Seq(Word) /\ Append(words, w) \in Seq(Word)
    BY WordsAssumption DEF IInv
  <2>3. HasEnd(words)
    BY <2>2, PacketInWindow DEF IInv
  <2>4. /\ Len(words) <= Len(Append(words, w))
        /\ \A i \in 1 .. Len(words) : Append(words, w)[i] = words[i]
    BY <2>2
  <2>5. DecodePacket(Append(words, w)) = DecodePacket(words)
    BY <2>2, <2>3, <2>4, WindowSuffices
  <2>6. QED
    BY <2>1, <2>5 DEF IInv
<1>2. QED
  BY <1>1, IInvHolds, PTL DEF Spec, WindowIndependent

\* In every window the packet of DecodePacket lies inside the window, and its instructions,
\* with the pseudo-instruction and the second half of a duplex, stay below INSTRUCTIONS_MAX.
THEOREM TypeCorrect == Spec => []TypeOK
<1>1. IInv => TypeOK
  <2> SUFFICES ASSUME IInv
               PROVE  TypeOK
    OBVIOUS
  <2>1. /\ words \in Seq(Words) /\ words \in Seq(Word)
        /\ Len(words) \in 0 .. 4 /\ Len(words) <= MaxWords
    <3>1. words \in Seq(Words) /\ Len(words) <= MaxWords /\ Len(words) \in Nat
      BY DEF IInv
    <3>2. words \in Seq(Word)
      BY <3>1, WordsAssumption
    <3>3. Len(words) \in 0 .. 4
      BY <3>1, MaxWordsAssumption, WindowLength
    <3>4. QED
      BY <3>1, <3>2, <3>3
  <2>2. CASE pkt = Fail
    <3>1. pkt.size = 0 /\ Len(Insns) = 0
      BY <2>2 DEF Fail, Insns
    <3>2. QED
      BY <2>1, <3>1 DEF TypeOK, INSTRUCTIONS_MAX
  <2>3. CASE pkt # Fail
    <3>1. pkt.size \in 1 .. Len(words) /\ Len(Insns) \in pkt.size .. pkt.size + 2
      BY <2>1, <2>3, PacketLength DEF IInv, Insns
    <3>2. pkt.size \in 0 .. Len(words) /\ pkt.size # 0 /\ Len(Insns) # 0 /\ Len(Insns) < 7
      BY <2>1, <3>1, PacketBound
    <3>3. QED
      BY <2>1, <3>2 DEF TypeOK, INSTRUCTIONS_MAX
  <2>4. QED
    BY <2>2, <2>3
<1>2. QED
  BY <1>1, IInvHolds, PTL

\* Constant extenders and extended instructions stay in step in every packet of every window:
\* decode_apply_extenders loses none and extends no instruction twice.
THEOREM ExtendersPairHolds == Spec => []ExtendersPair
<1>1. IInv => ExtendersPair
  <2> SUFFICES ASSUME IInv
               PROVE  ExtendersPair
    OBVIOUS
  <2>1. words \in Seq(Word)
    BY WordsAssumption DEF IInv
  <2>2. CASE pkt = Fail
    <3>1. 1 .. Len(Insns) = {}
      BY <2>2 DEF Fail, Insns
    <3>2. QED
      BY <3>1 DEF ExtendersPair
  <2>3. CASE pkt # Fail
    BY <2>1, <2>3, PacketExtenders DEF IInv, Insns, ExtendersPair
  <2>4. QED
    BY <2>2, <2>3
<1>2. QED
  BY <1>1, IInvHolds, PTL

\* The pseudo-instruction of a hardware loop is the last instruction of its packet, and the
\* parse bits of the first two words say which loops it ends.
THEOREM EndloopIsLastHolds == Spec => []EndloopIsLast
<1>1. IInv => EndloopIsLast
  <2> SUFFICES ASSUME IInv, NEW i \in 1 .. Len(Insns), IsEndloop(Insns[i])
               PROVE  /\ i = Len(Insns)
                      /\ Insns[i].op \in {"endloop0", "endloop01"} => words[1].parse = ParseLoopEnd
                      /\ Insns[i].op \in {"endloop1", "endloop01"} =>
                             pkt.size >= 3 /\ words[2].parse = ParseLoopEnd
    BY DEF EndloopIsLast
  <2>1. words \in Seq(Word) /\ pkt = DecodePacket(words)
    BY WordsAssumption DEF IInv
  <2>2. pkt # Fail
    <3>1. pkt = Fail => Len(Insns) = 0
      BY DEF Fail, Insns
    <3>2. QED
      BY <3>1
  <2>3. QED
    BY <2>1, <2>2, PacketLoop DEF Insns
<1>2. QED
  BY <1>1, IInvHolds, PTL

\* "Not counting empty slots or constant extenders": the producer that the walk
\* finds is the one that a consumer's encoded distance counts to.
THEOREM ProducerIsAheadHolds == Spec => []ProducerIsAhead
<1>1. IInv => ProducerIsAhead
  <2> SUFFICES ASSUME IInv, NEW i \in 2 .. Len(Insns), IsConsumer(Insns[i])
               PROVE  LET real == {j \in Insns[i].producer .. i - 1 : ~IsExtender(Insns[j])}
                      IN  /\ Insns[i].producer \in real
                          /\ Cardinality(real) = Insns[i].ahead
    BY DEF ProducerIsAhead
  <2>1. words \in Seq(Word) /\ pkt = DecodePacket(words)
    BY WordsAssumption DEF IInv
  <2>2. pkt # Fail
    <3>1. ASSUME pkt = Fail
          PROVE  FALSE
      <4>1. Len(Insns) = 0
        BY <3>1 DEF Insns, Fail
      <4>2. QED
        BY <4>1
    <3>2. QED
      BY <3>1
  <2>3. /\ Insns[i].producer \in Counted(Insns, Insns[i].producer, i)
        /\ Cardinality(Counted(Insns, Insns[i].producer, i)) = Insns[i].ahead
    BY <2>1, <2>2, PacketProducers DEF Insns
  <2>4. QED
    BY <2>3 DEF Counted
<1>2. QED
  BY <1>1, IInvHolds, PTL
=============================================================================
