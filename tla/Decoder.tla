------------------------------ MODULE Decoder -------------------------------
(***************************************************************************)
(* The decoder in use: a window of words over the binary is decoded, then  *)
(* decoded again one word longer, up to the longest window Binary Ninja    *)
(* passes.  Every window over Words is reached.                            *)
(***************************************************************************)
EXTENDS Decode, FiniteSets

CONSTANTS Words,      \* the words that occur in the binary
          MaxWords    \* GetMaxInstructionLength() / 4

ASSUME WordsAssumption    == Words \subseteq Word
ASSUME MaxWordsAssumption == MaxWords \in 1 .. 4

INSTRUCTIONS_MAX == 7

VARIABLES words,      \* the window
          pkt         \* what DecodePacket(words) returned

vars == <<words, pkt>>

Init == words = << >> /\ pkt = Fail

Decode(w) ==
    /\ Len(words) < MaxWords
    /\ words' = Append(words, w)
    /\ pkt' = DecodePacket(words')

Next == \E w \in Words : Decode(w)

Spec == Init /\ [][Next]_vars

-----------------------------------------------------------------------------
(* Properties.                                                             *)

Insns == pkt.insns

\* A packet lies inside its window, and with the pseudo-instruction of an
\* endloop and the second half of a duplex it still fits pkt->insn[], whose
\* bound the decoder never looks at, with room for the entry after the last,
\* which decode_apply_extenders touches.
TypeOK ==
    /\ words \in Seq(Words) /\ Len(words) <= MaxWords
    /\ pkt.size \in 0 .. Len(words)
    /\ pkt.size = 0 <=> Len(Insns) = 0
    /\ Len(Insns) < INSTRUCTIONS_MAX

\* The producer the walk of decode_fill_newvalue_regno finds is the one Nt[2:1]
\* counts to, "not counting empty slots or constant extenders": between it and
\* the consumer lie ahead - 1 instructions that are not extenders.
ProducerIsAhead ==
    \A i \in 2 .. Len(Insns) : IsConsumer(Insns[i]) =>
        LET real == {j \in Insns[i].producer .. i - 1 : ~IsExtender(Insns[j])}
        IN  /\ Insns[i].producer \in real
            /\ Cardinality(real) = Insns[i].ahead

\* The extenders are in step with what they extend: in a packet that decodes
\* as many instructions are extended as there are extenders, each in a word
\* of its own after it, and none of them is a pseudo-instruction.
ExtendersPair ==
    /\ Cardinality({i \in 1 .. Len(Insns) : IsExtender(Insns[i])})
         = Cardinality({i \in 1 .. Len(Insns) : Insns[i].extended})
    /\ \A i \in 1 .. Len(Insns) : Insns[i].extended =>
          i > 1 /\ IsExtender(Insns[i - 1]) /\ IsExtendable(Insns[i])

\* "The end of hardware loop 0 can be encoded with 2 words, the end of hardware
\* loop 1 needs 3 words", and the pseudo-instruction is the last of the packet:
\* GetLastInsn() finds the real last instruction just before it.
EndloopIsLast ==
    \A i \in 1 .. Len(Insns) : IsEndloop(Insns[i]) =>
        /\ i = Len(Insns)
        /\ Insns[i].op \in {"endloop0", "endloop01"} => words[1].parse = ParseLoopEnd
        /\ Insns[i].op \in {"endloop1", "endloop01"} =>
               pkt.size >= 3 /\ words[2].parse = ParseLoopEnd

\* What is past the end of the packet plays no part: the same packet comes out
\* of every window that is long enough, whichever callback's length cut it.
WindowIndependent == [][pkt # Fail => pkt' = pkt]_vars
=============================================================================
