------------------------------ MODULE Prepare -------------------------------
(***************************************************************************)
(* PreparePacketForLifting (src/plugin/il_util.cc) makes a packet fit to   *)
(* be lifted in order: the three passes of                                 *)
(* src/third_party/qemu-hexagon/decode.c over the copy of a packet.        *)
(*                                                                         *)
(* The class of an instruction stands for the attributes the passes read:  *)
(*   "alu", "jump", "jumpr", "call"  none of them; an indirect jump or     *)
(*                   call is "jumpr", whose slot is 2                      *)
(*   "cmp"           writes Pd4, or P0 implicitly (C2_*, SA1_cmpeqi)       *)
(*   "spNloop"       A_IMPLICIT_WRITES_P3                                  *)
(*   "load", "store" A_LOAD, A_STORE                                       *)
(*   "frame"         A_STORE in slot 0 only: allocframe                    *)
(*   "return"        A_LOAD in slot 0 only, a branch: dealloc_return       *)
(*   "newstore"      A_STORE and A_DOTNEWVALUE                             *)
(*   "newjump"       A_DOTNEWVALUE, a branch                               *)
(*   "cmpjump"       A_NEWCMPJUMP: writes P0 or P1 and branches on it      *)
(*   "rte"           J2_rte                                                *)
(*   "ext"           A_IT_EXTENDER                                         *)
(*   "endloop"       A_HWLOOP0_END or A_HWLOOP1_END                        *)
(* dotnew: it reads a predicate that its own packet writes (Pu.new).       *)
(* at tells instructions of one class apart: the position in the packet    *)
(* that was decoded.                                                       *)
(***************************************************************************)
EXTENDS Integers, Sequences, FiniteSets, SequencesExt

IsStore(insn)    == insn.op \in {"store", "newstore", "frame"}
IsLoad(insn)     == insn.op \in {"load", "return"}
IsNewValue(insn) == insn.op \in {"newstore", "newjump"}
IsCompare(insn)  == insn.op \in {"cmp", "spNloop"}
IsCmpJump(insn)  == insn.op = "cmpjump"
IsRte(insn)      == insn.op = "rte"
IsExt(insn)      == insn.op = "ext"
EndsLoop(insn)   == insn.op = "endloop"
IsBranch(insn)   == /\ insn.op \in {"jump", "jumpr", "call", "newjump", "cmpjump", "return"}
                    /\ ~insn.part1
IsMemory(insn)   == IsStore(insn) \/ IsLoad(insn)
WritesReg(insn)  == insn.op \in {"alu", "load"}

\* The swaps of neighbours carry the instruction at `start` to `newloc`.
SendInsnTo(insns, start, newloc) ==
    InsertAt(RemoveAt(insns, start), newloc, insns[start])

\* Deliberately wrong variant: the endloop is shuffled with the rest.
LastInsnOfAll(insns) == Len(insns)

\* last_insn: the passes leave an endloop in its place.
LastInsn(insns) ==
    IF EndsLoop(insns[Len(insns)]) THEN Len(insns) - 1 ELSE Len(insns)

-----------------------------------------------------------------------------
(* decode_remove_extenders.                                                *)

\* Deliberately wrong variant: extenders are left in.
ExtendersKept(insns) == insns

\* The index moves on after a removal, past the instruction that has moved
\* into the extender's place.
ExtenderStep(rest, i) ==
    IF i <= Len(rest) /\ IsExt(rest[i]) THEN RemoveAt(rest, i) ELSE rest

RemoveExtenders(insns) ==
    LET walk[i \in 0 .. Len(insns)] ==
            IF i = 0 THEN insns ELSE ExtenderStep(walk[i - 1], i)
    IN  walk[Len(insns)]

-----------------------------------------------------------------------------
(* decode_shuffle_for_execution.                                           *)

\* Deliberately wrong variants: a store goes behind loads as well; a store is
\* sent on its way even when nothing is behind it.
StoreStepPastLoads(p, i, last) ==
    IF ~IsStore(p.insns[i]) THEN [p EXCEPT !.flag = TRUE]
    ELSE IF ~p.flag THEN [p EXCEPT !.mems = p.mems + 1]
    ELSE [insns |-> SendInsnTo(p.insns, i, last - p.mems), flag |-> TRUE,
          mems |-> p.mems + 1, changed |-> TRUE]

StoreStepAnyway(p, i, last) ==
    IF ~IsStore(p.insns[i]) THEN p
    ELSE [insns |-> SendInsnTo(p.insns, i, last - p.mems), flag |-> p.flag,
          mems |-> p.mems + 1, changed |-> TRUE]

\* One step of the walk from the end: a store goes behind the instructions
\* that are not memory accesses, and stays before the `mems` accesses that
\* the walk has met.
StoreStep(p, i, last) ==
    LET insn == p.insns[i]
    IN  IF IsStore(insn) /\ p.flag
        THEN [insns |-> SendInsnTo(p.insns, i, last - p.mems), flag |-> TRUE,
              mems |-> p.mems + 1, changed |-> TRUE]
        ELSE IF IsMemory(insn) THEN [p EXCEPT !.mems = p.mems + 1]
        ELSE IF IsNewValue(insn) THEN p
        ELSE [p EXCEPT !.flag = TRUE]

\* "Stores go last, must not reorder."
ShuffleStores(insns) ==
    LET last == LastInsn(insns)
        walk[i \in 1 .. last + 1] ==
            IF i = last + 1
            THEN [insns |-> insns, flag |-> FALSE, mems |-> 0, changed |-> FALSE]
            ELSE StoreStep(walk[i + 1], i, last)
    IN  walk[1]

\* One step of the walk from the front: a compare behind something else goes
\* first.
CompareStep(p, i) ==
    IF ~IsCompare(p.insns[i]) THEN [p EXCEPT !.flag = TRUE]
    ELSE IF p.flag THEN [insns |-> SendInsnTo(p.insns, i, 1), flag |-> TRUE,
                         changed |-> TRUE]
    ELSE p

\* "Compares go first, may be reordered wrt each other."
ShuffleCompares(insns) ==
    LET walk[i \in 0 .. LastInsn(insns)] ==
            IF i = 0 THEN [insns |-> insns, flag |-> FALSE, changed |-> FALSE]
            ELSE CompareStep(walk[i - 1], i)
    IN  walk[LastInsn(insns)]

\* The first instruction that Moves picks goes to last_insn.
FirstToLast(insns, Moves(_)) ==
    LET last  == LastInsn(insns)
        picks == {i \in 1 .. last - 1 : Moves(insns[i])}
    IN  IF picks = {} THEN insns
        ELSE SendInsnTo(insns, CHOOSE i \in picks : \A j \in picks : i <= j, last)

\* Deliberately wrong variant: the new-value instruction goes first.
NewValueFirst(insns) ==
    LET picks == {i \in 1 .. LastInsn(insns) : IsNewValue(insns[i])}
    IN  IF picks = {} THEN insns ELSE SendInsnTo(insns, CHOOSE i \in picks : TRUE, 1)

\* "move that to the very very end, past stores".
NewValueLast(insns) == FirstToLast(insns, IsNewValue)

\* "And at the very very very end, move any RTE's".
RteLast(insns) == FirstToLast(insns, IsRte)

-----------------------------------------------------------------------------
(* decode_split_cmpjump.                                                   *)

\* The copy of a compare-jump that becomes its compare.
CompareHalf(insn) == [insn EXCEPT !.part1 = TRUE]

HalfStep(halves, insn) ==
    IF IsCmpJump(insn) THEN <<CompareHalf(insn)>> \o halves ELSE halves

\* Sent to the front one by one, the compares end up there in reverse order.
CompareHalves(insns) ==
    LET walk[i \in 0 .. Len(insns)] ==
            IF i = 0 THEN << >> ELSE HalfStep(walk[i - 1], insns[i])
    IN  walk[Len(insns)]

\* Deliberately wrong variants: the compares stay at the end; only one is
\* split off.
CompareHalvesLast(insns) == insns \o CompareHalves(insns)

SplitFirstCmpJump(insns) ==
    (IF CompareHalves(insns) = << >> THEN << >> ELSE <<CompareHalves(insns)[1]>>) \o insns

SplitCmpJump(insns) == CompareHalves(insns) \o insns

-----------------------------------------------------------------------------
(* PreparePacketForLifting as one step.  More rounds than instructions     *)
(* change nothing: by then no store and no compare moves.                  *)

StoresSettled(insns) ==
    LET round[n \in 0 .. Len(insns)] ==
            IF n = 0 THEN insns ELSE ShuffleStores(round[n - 1]).insns
    IN  round[Len(insns)]

ShuffleForExecution(insns) ==
    LET round[n \in 0 .. Len(insns)] ==
            IF n = 0 THEN insns
            ELSE ShuffleCompares(StoresSettled(round[n - 1])).insns
    IN  RteLast(NewValueLast(round[Len(insns)]))

\* Deliberately wrong variant: the compare-jumps are split before the shuffle.
PrepareSplitFirst(insns) ==
    ShuffleForExecution(SplitCmpJump(RemoveExtenders(insns)))

PreparePacketForLifting(insns) ==
    SplitCmpJump(ShuffleForExecution(RemoveExtenders(insns)))

-----------------------------------------------------------------------------
(* Which packets there are.                                                *)

\* find_iclass_slots: the slots that can execute an instruction.
Slots(insn) ==
    CASE insn.op \in {"alu", "cmp", "jump", "cmpjump"} -> 0 .. 3
      [] insn.op \in {"load", "store"}                 -> {0, 1}
      [] insn.op \in {"newstore", "newjump", "frame", "return"} -> {0}
      [] insn.op = "call"                              -> {2, 3}
      [] insn.op = "spNloop"                           -> {3}
      [] insn.op \in {"jumpr", "rte"}                  -> {2}

\* "For each instruction, count down until you find a suitable slot."  An
\* extender needs none, nor does an endloop.
SlotStep(slot, insn) ==
    IF IsExt(insn) \/ EndsLoop(insn) THEN slot
    ELSE LET free == {s \in Slots(insn) : s < slot}
         IN  IF free = {} THEN -1 ELSE Max(free)

\* decode_set_slot_number: "The slots are encoded in reverse order."  In packets
\* that an assembler makes every instruction finds one.
FitsSlots(insns) ==
    LET walk[i \in 0 .. Len(insns)] ==
            IF i = 0 THEN 4 ELSE SlotStep(walk[i - 1], insns[i])
    IN  walk[Len(insns)] >= 0

\* "A packet can have up to two distinct branch instructions."
FewBranches(insns) == Cardinality({i \in 1 .. Len(insns) : IsBranch(insns[i])}) <= 2
=============================================================================
