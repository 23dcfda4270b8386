---------------------------- MODULE Preparation -----------------------------
(***************************************************************************)
(* The preparation of a packet, pass by pass.  First the packet as the     *)
(* decoder leaves it comes together, instruction by instruction; then the  *)
(* passes of PreparePacketForLifting run over a copy of it.  The loop of   *)
(* decode_shuffle_for_execution goes round until neither stores nor        *)
(* compares move.                                                          *)
(***************************************************************************)
EXTENDS Prepare

CONSTANTS Kinds,      \* the classes of words, each with or without .new
          SubKinds,   \* the classes of the sub-instructions of a duplex
          MaxWords    \* GetMaxInstructionLength() / 4

SubOps == {"alu", "jump", "cmp", "load", "store", "return"}

ASSUME PreparationAssumption ==
    /\ Kinds \subseteq [op : SubOps \cup {"spNloop", "newstore", "newjump", "cmpjump",
                                          "rte", "ext"}, dotnew : BOOLEAN]
    /\ SubKinds \subseteq [op : SubOps, dotnew : BOOLEAN]
    \* No instruction that writes a predicate is conditional on a new one.
    /\ \A kind \in Kinds \cup SubKinds :
          kind.op \in {"cmp", "spNloop", "cmpjump"} => ~kind.dotnew
    /\ MaxWords \in 1 .. 4

INSTRUCTIONS_MAX == 7

VARIABLES src,        \* the packet in the database
          insns,      \* the copy that is prepared
          stage       \* the pass that comes next

vars == <<src, insns, stage>>

Insn(kind, i) == [op |-> kind.op, dotnew |-> kind.dotnew, at |-> i, part1 |-> FALSE]

Init == src = << >> /\ insns = << >> /\ stage = "decode"

EndsInExtender(q) == q # << >> /\ IsExt(q[Len(q)])

\* The decoder refuses an extender that is not followed by an instruction it
\* can extend.  It refuses no other combination: it counts neither branches nor
\* the slots that are left.
Decode(kind) ==
    /\ stage = "decode" /\ Len(src) < MaxWords
    /\ EndsInExtender(src) => kind.op \notin {"ext", "rte"}
    /\ src' = Append(src, Insn(kind, Len(src) + 1))
    /\ UNCHANGED <<insns, stage>>

\* Two instructions in one word, the last of its packet.
DecodeDuplex(first, second) ==
    /\ stage = "decode" /\ Len(src) < MaxWords
    /\ EndsInExtender(src) => first.op = "alu"
    /\ src' = src \o <<Insn(first, Len(src) + 1), Insn(second, Len(src) + 2)>>
    /\ stage' = "duplex"
    /\ UNCHANGED insns

Endloop(i) == Insn([op |-> "endloop", dotnew |-> FALSE], i)

\* Deliberately wrong variant: each of two loops that end gets its endloop.
CopyBothLoops(loops) ==
    /\ stage \in {"decode", "duplex"} /\ src # << >> /\ ~EndsInExtender(src)
    /\ src' = IF loops
              THEN src \o <<Endloop(Len(src) + 1), Endloop(Len(src) + 2)>>
              ELSE src
    /\ insns' = src'
    /\ stage' = "extenders"

\* The packet is complete, with or without an endloop, for which it needs two
\* words; the copy is made.
Copy(loops) ==
    /\ stage \in {"decode", "duplex"} /\ src # << >> /\ ~EndsInExtender(src)
    /\ loops => Len(src) >= IF stage = "duplex" THEN 3 ELSE 2
    /\ src' = IF loops THEN Append(src, Endloop(Len(src) + 1)) ELSE src
    /\ insns' = src'
    /\ stage' = "extenders"

Extenders ==
    /\ stage = "extenders"
    /\ insns' = RemoveExtenders(insns)
    /\ stage' = "stores"
    /\ UNCHANGED src

Stores ==
    /\ stage = "stores"
    /\ insns' = ShuffleStores(insns).insns
    /\ stage' = IF ShuffleStores(insns).changed THEN "stores" ELSE "compares"
    /\ UNCHANGED src

Compares ==
    /\ stage = "compares"
    /\ insns' = ShuffleCompares(insns).insns
    /\ stage' = IF ShuffleCompares(insns).changed THEN "stores" ELSE "newvalue"
    /\ UNCHANGED src

\* The two last moves of decode_shuffle_for_execution.
LastMoves ==
    /\ stage = "newvalue"
    /\ insns' = RteLast(NewValueLast(insns))
    /\ stage' = "split"
    /\ UNCHANGED src

Split ==
    /\ stage = "split" /\ Len(SplitCmpJump(insns)) <= INSTRUCTIONS_MAX
    /\ insns' = SplitCmpJump(insns)
    /\ stage' = "done"
    /\ UNCHANGED src

\* The split writes compares behind the end of pkt->insn[], which it does not
\* look at: what the copy, and what lies behind it, are then is undefined.
Overrun ==
    /\ stage = "split" /\ Len(SplitCmpJump(insns)) > INSTRUCTIONS_MAX
    /\ stage' = "overrun"
    /\ UNCHANGED <<src, insns>>

Passes == Extenders \/ Stores \/ Compares \/ LastMoves \/ Split \/ Overrun

Next ==
    \/ \E kind \in Kinds : Decode(kind)
    \/ \E first, second \in SubKinds : DecodeDuplex(first, second)
    \/ \E loops \in BOOLEAN : Copy(loops)
    \/ Passes

Spec == Init /\ [][Next]_vars

-----------------------------------------------------------------------------
(* Properties.                                                             *)

\* A packet has as many entries as it has words, one more for a duplex and one
\* for the endloop; the copy holds entries of the packet, and as long as nothing
\* has been written behind pkt->insn[] no more than fit there.
TypeOK ==
    /\ stage \in {"decode", "duplex", "extenders", "stores", "compares", "newvalue",
                  "split", "done", "overrun"}
    /\ Len(src) <= MaxWords + 2
    /\ \A i \in 1 .. Len(src) : src[i].at = i
    /\ \A i \in 1 .. Len(insns) : insns[i].at \in 1 .. Len(src)
    /\ Len(insns) <= INSTRUCTIONS_MAX

\* "2 pairs + loopend": pkt->insn[] is long enough for what the split makes of
\* any packet that was decoded.
InsnArraySuffices == stage # "overrun"

\* It is long enough for what an assembler makes: with four slots, two branches
\* and an endloop the array is exactly full.
AssembledFits == FitsSlots(src) /\ FewBranches(src) => stage # "overrun"

\* Every instruction is lifted exactly once, the compare of a compare-jump
\* once more, and no extender is.
NothingLost ==
    stage = "done" =>
        \A at \in 1 .. Len(src), part1 \in BOOLEAN :
            Cardinality({i \in 1 .. Len(insns) : insns[i].at = at /\ insns[i].part1 = part1})
              = IF IsExt(src[at]) \/ (part1 /\ ~IsCmpJump(src[at])) THEN 0 ELSE 1

WritesPred(insn) == IsCompare(insn) \/ insn.part1
ReadsNew(insn)   == insn.dotnew \/ (IsCmpJump(insn) /\ ~insn.part1)

\* "Move compares to beginning (for use by .new insns)": an instruction that
\* reads a predicate's new value, a compare-jump's own branch included, is
\* lifted after everything that writes a predicate, wherever it was encoded;
\* a new-value consumer is lifted after its producer, whichever instruction
\* encoded before it that is.
ProducersFirst ==
    stage = "done" =>
        \A i, j \in 1 .. Len(insns) :
            \/ WritesPred(insns[i]) /\ ReadsNew(insns[j])
            \/ WritesReg(insns[i]) /\ IsNewValue(insns[j]) /\ insns[i].at < insns[j].at
            => i < j

InEncodingOrder(Of(_)) ==
    \A i, j \in 1 .. Len(insns) :
        i < j /\ Of(insns[i]) /\ Of(insns[j]) => insns[i].at < insns[j].at

\* "Don't shuffle stores wrt each other or a load."  At no point of the
\* preparation, although stores overtake what is between them.  Only in packets
\* whose memory accesses are where the slots want them, at the end: a store before
\* a load that something else follows is shuffled past the load.
MemoryInOrder == FitsSlots(src) => InEncodingOrder(IsMemory)

\* "Branches have a priority based on their encoding order in the packet", and
\* the lifter tests them in the order of the prepared packet.  A new-value jump,
\* which goes to the end, is encoded there if the packet fits the slots.
BranchesInOrder == FitsSlots(src) => InEncodingOrder(IsBranch)

\* "Skip end loops": the end of the loop is lifted after the instructions of
\* its packet, whose counter and start address it reads and writes.
EndloopStaysLast ==
    stage = "done" => \A i \in 1 .. Len(insns) : EndsLoop(insns[i]) => i = Len(insns)

\* Preparing a packet in one step, as the lifter sees it, is what the passes do
\* one after the other, with the loop back from the compares to the stores.
SameInOneStep == stage = "done" => insns = PreparePacketForLifting(src)

\* Pairs that the shuffle has yet to put in order: a store before something else, loads
\* included, which stores go past as well; a compare behind what is none.
Misplaced(first, second) ==
    (IsStore(first) /\ ~IsStore(second)) \/ (IsCompare(second) /\ ~IsCompare(first))
Disorder(q) ==
    Cardinality({p \in (1 .. LastInsn(q)) \X (1 .. LastInsn(q)) :
                    p[1] < p[2] /\ Misplaced(q[p[1]], q[p[2]])})

\* "goto changed": the do-while loop of the shuffle ends, whatever was decoded.  A pass that
\* asks for another round has left less to move, so neither goes on for ever finding
\* something to move behind what the other has moved.
RoundsBringOrder ==
    /\ stage = "stores" /\ ShuffleStores(insns).changed =>
          Disorder(ShuffleStores(insns).insns) < Disorder(insns)
    /\ stage = "compares" /\ ShuffleCompares(insns).changed =>
          Disorder(ShuffleCompares(insns).insns) < Disorder(insns)
=============================================================================
