------------------------------- MODULE Decode -------------------------------
(***************************************************************************)
(* Decoder::DecodePacket: a window of 32-bit words becomes one packet, or  *)
(* an error status (src/third_party/qemu-hexagon/q6v_decode.c, decode.c).  *)
(*                                                                         *)
(* A word keeps what the packet level of the decoder tells apart: its two  *)
(* parse bits, the class of the instruction the decision tree finds in it  *)
(* and, in a new-value consumer, the distance Nt[2:1] to the producer.     *)
(* The classes stand for the attributes of the opcode:                     *)
(*   "alu"    writes Rd and takes a constant extender                      *)
(*   "store"  writes no register and takes no extender                     *)
(*   "new"    consumes a .new register (A_DOTNEWVALUE), takes an extender  *)
(*   "ext"    is a constant extender (A4_ext)                              *)
(*   "bad"    is not in the decision tree                                  *)
(*   "sub"    is half of a duplex: it writes Rd and takes an extender      *)
(* Every ASSERT_AND_ABORT longjmps back to decode_packet_safe: it is Fail. *)
(***************************************************************************)
EXTENDS Integers, Sequences

ParseDuplex  == 0      \* ends the packet and holds two sub-instructions
ParseMore    == 1
ParseLoopEnd == 2      \* another word follows, and a hardware loop ends here
ParseEnd     == 3

Word ==
    [parse : {ParseMore, ParseLoopEnd, ParseEnd},
     op : {"alu", "store", "ext", "bad"}, ahead : {0}]
    \cup [parse : {ParseMore, ParseLoopEnd, ParseEnd}, op : {"new"}, ahead : 0 .. 3]
    \cup [parse : {ParseDuplex}, op : {"sub", "bad"}, ahead : {0}]

\* An instruction of a packet.  producer is the position of the instruction
\* whose destination was patched into a new-value consumer, 0 for none.
Insn(op, ahead) == [op |-> op, ahead |-> ahead, extended |-> FALSE, producer |-> 0]

Fail == [size |-> 0, insns |-> << >>]

IsExtender(insn)   == insn.op = "ext"
IsExtendable(insn) == insn.op \in {"alu", "new", "sub"}
IsSubInsn(insn)    == insn.op = "sub"
IsConsumer(insn)   == insn.op = "new"
WritesReg(insn)    == insn.op \in {"alu", "sub"}
IsEndloop(insn)    == insn.op \in {"endloop0", "endloop1", "endloop01"}

-----------------------------------------------------------------------------
(* Reading words up to the end of the packet.                              *)

IsPacketEnd(w) == w.parse \in {ParseDuplex, ParseEnd}
IsLoopEnd(w)   == w.parse = ParseLoopEnd

HasEnd(words) == \E i \in 1 .. Len(words) : IsPacketEnd(words[i])

\* Deliberately wrong variant: the packet goes on to the last end word.
WordsReadToLast(words) ==
    CHOOSE n \in 1 .. Len(words) :
        /\ IsPacketEnd(words[n])
        /\ \A i \in n + 1 .. Len(words) : ~IsPacketEnd(words[i])

\* The number of words the packet takes: the first end word is its last.
WordsRead(words) ==
    CHOOSE n \in 1 .. Len(words) :
        /\ IsPacketEnd(words[n])
        /\ \A i \in 1 .. n - 1 : ~IsPacketEnd(words[i])

DecodeInsns(w) ==
    IF w.parse = ParseDuplex THEN <<Insn(w.op, 0), Insn(w.op, 0)>>
                             ELSE <<Insn(w.op, w.ahead)>>

\* Deliberately wrong variants: the end of each loop is an instruction of its
\* own; the marks of the two loops are swapped.
EndloopInsnEach(words, n) ==
    (IF n >= 3 /\ IsLoopEnd(words[2]) THEN <<Insn("endloop1", 0)>> ELSE << >>)
        \o (IF n >= 2 /\ IsLoopEnd(words[1]) THEN <<Insn("endloop0", 0)>> ELSE << >>)

EndloopInsnSwapped(words, n) ==
    LET loop0 == n >= 2 /\ IsLoopEnd(words[2])
        loop1 == n >= 3 /\ IsLoopEnd(words[1])
    IN  IF loop0 /\ loop1 THEN <<Insn("endloop01", 0)>>
        ELSE IF loop1 THEN <<Insn("endloop1", 0)>>
        ELSE IF loop0 THEN <<Insn("endloop0", 0)>>
        ELSE << >>

\* The pseudo-instruction at the end of a packet that closes a loop: loop 0
\* is marked in the first word of two or more, loop 1 in the second of three
\* or more.
EndloopInsn(words, n) ==
    LET loop0 == n >= 2 /\ IsLoopEnd(words[1])
        loop1 == n >= 3 /\ IsLoopEnd(words[2])
    IN  IF loop0 /\ loop1 THEN <<Insn("endloop01", 0)>>
        ELSE IF loop1 THEN <<Insn("endloop1", 0)>>
        ELSE IF loop0 THEN <<Insn("endloop0", 0)>>
        ELSE << >>

\* The instructions before the passes over the whole packet.
RawInsns(words, n) ==
    [i \in 1 .. n - 1 |-> Insn(words[i].op, words[i].ahead)]
        \o DecodeInsns(words[n]) \o EndloopInsn(words, n)

-----------------------------------------------------------------------------
(* decode_apply_extenders and decode_fill_newvalue_regno.                  *)

\* Deliberately wrong variant: nothing is asked of an extender in the last place.
ExtendersApplyInside(insns) ==
    \A i \in 1 .. Len(insns) - 1 :
        IsExtender(insns[i]) => IsExtendable(insns[i + 1])

\* The instruction after an extender must have an immediate to extend: an
\* endloop has none, nor has the zeroed entry after the last instruction.
ExtendersApply(insns) ==
    \A i \in 1 .. Len(insns) :
        IsExtender(insns[i]) => i < Len(insns) /\ IsExtendable(insns[i + 1])

ApplyExtenders(insns) ==
    [i \in 1 .. Len(insns) |->
        [insns[i] EXCEPT !.extended = i > 1 /\ IsExtender(insns[i - 1])]]

\* Deliberately wrong variant: constant extenders are counted too.
ProducerOfAnyWord(insns, i) == IF insns[i].ahead < i THEN i - insns[i].ahead ELSE 0

\* One turn of the loop from a consumer to the instruction `ahead` places before
\* it, which counts neither extenders nor the second half of a duplex.
ProducerStep(insns, p) ==
    LET j == p.def - 1 IN
    IF p.ahead = 0 \/ p.def = 0 THEN p
    ELSE IF j = 0                    THEN [p EXCEPT !.def = 0]
    ELSE IF IsExtender(insns[j])     THEN [p EXCEPT !.def = j]
    ELSE [def |-> IF IsSubInsn(insns[j]) THEN j - 1 ELSE j, ahead |-> p.ahead - 1]

\* Every turn goes towards the front.  0 when the walk leaves the packet.
ProducerOf(insns, i) ==
    LET walk[n \in 0 .. i] ==
            IF n = 0 THEN [def |-> i, ahead |-> insns[i].ahead]
            ELSE ProducerStep(insns, walk[n - 1])
    IN  walk[i].def

\* The loop starts at the second instruction: a consumer in the first place is
\* neither checked nor patched.
Patched(insns) == {i \in 2 .. Len(insns) : IsConsumer(insns[i])}

NewValuesResolve(insns) ==
    \A i \in Patched(insns) :
        /\ insns[i].ahead > 0
        /\ ProducerOf(insns, i) # 0
        /\ WritesReg(insns[ProducerOf(insns, i)])

FillNewValues(insns) ==
    [i \in 1 .. Len(insns) |->
        [insns[i] EXCEPT !.producer =
            IF i \in Patched(insns) THEN ProducerOf(insns, i) ELSE 0]]

-----------------------------------------------------------------------------
(* decode_packet with disas_only: extenders stay in the packet.            *)

DecodePacket(words) ==
    IF ~HasEnd(words) THEN Fail
    ELSE LET n     == WordsRead(words)
             insns == RawInsns(words, n)
         IN  IF /\ \A i \in 1 .. n : words[i].op # "bad"
                /\ ExtendersApply(insns)
                /\ NewValuesResolve(ApplyExtenders(insns))
             THEN [size |-> n, insns |-> FillNewValues(ApplyExtenders(insns))]
             ELSE Fail
=============================================================================
