------------------------------- MODULE Lifter --------------------------------
(***************************************************************************)
(* FillBnInstructionLowLevelIL (src/plugin/il_util.cc): the code that a    *)
(* packet is lifted to, run from the packet's first instruction to its     *)
(* last.  Lifting is straight-line: the steps stand for the lifter that    *)
(* emits the code, with the PacketContext it keeps, and for the emitted    *)
(* code at once.  Destinations are LLIL_TEMP registers until the write-    *)
(* back, branches are flags until the end.  Operands Rxx and Pu pairs,     *)
(* extenders and instructions without a lifter (il.Undefined) do not occur.*)
(***************************************************************************)
EXTENDS Branches

CONSTANT Fetched   \* the packets to lift, as the decoder leaves them

ASSUME LifterAssumption ==
    \A pkt \in Fetched : pkt \in Seq(Instruction) /\ pkt # << >> /\ Legal(pkt)

VARIABLES src,       \* the packet
          truthy,    \* the values, of those that conditions test, that are true
          insns,     \* the packet prepared for lifting
          n,         \* the instruction to lift next
          dests,     \* PacketContext::regs_: the destinations and their size
          regs,      \* the registers
          temp,      \* the LLIL_TEMP registers, as a low and a high word
          mem,       \* the values stored, in order
          next,      \* where control goes
          phase

vars == <<src, truthy, insns, n, dests, regs, temp, mem, next, phase>>

\* The numbers of the LLIL_TEMP registers.
Dest(r)        == r
EA_REG         == 100
BranchrDest(i) == 200 + i - 1
BranchTaken(i) == 210 + i - 1

\* Deliberately wrong variant: the pairs read are kept with the destinations.
SourcePairAmongDests(r) == Dest(r)

SourcePair(r) == 100 + r

Temps ==
    Registers \cup {SourcePair(r) : r \in Pairs} \cup {EA_REG}
    \cup {BranchrDest(i) : i \in 1 .. 7} \cup {BranchTaken(i) : i \in 1 .. 7}

One  == Value("one", 0, 0, << >>)
Zero == Value("zero", 0, 0, << >>)

\* What an earlier packet has left: a flag that is set, values of no meaning.
Stale(t) ==
    IF \E i \in 1 .. 7 : t = BranchTaken(i) THEN <<One, One>>
    ELSE <<Value("stale", t, 0, << >>), Value("stale", t, 1, << >>)>>

Init ==
    /\ src \in Fetched
    /\ truthy \in SUBSET Deciders(src)
    /\ insns = << >> /\ n = 1
    /\ dests = << >>
    /\ regs = [r \in Registers |-> Initially(r)]
    /\ temp = [t \in Temps |-> Stale(t)]
    /\ mem = << >>
    /\ next = Nowhere
    /\ phase = "prepare"

\* IsJump or IsCall, and not the compare of a compare-jump.
Leaves(insn) == insn.cof # "none" /\ ~insn.part1

\* The flags of the conditional branches are cleared.
ClearTaken(pkt, t) ==
    [k \in Temps |->
        IF \E i \in 1 .. Len(pkt) :
               k = BranchTaken(i) /\ Leaves(pkt[i]) /\ Guarded(pkt[i])
        THEN <<Zero, t[k][2]>>
        ELSE t[k]]

Prepare ==
    /\ phase = "prepare"
    /\ insns' = PreparePacketForLifting(src)
    /\ temp' = ClearTaken(insns', temp)
    /\ phase' = "lift"
    /\ UNCHANGED <<src, truthy, n, dests, regs, mem, next>>

-----------------------------------------------------------------------------
(* The lifter of one instruction.                                          *)

Wide(operand) == operand[1] = "pair"

\* The operands whose lifter asks the context for a destination: what is
\* written, except directly, and what is read as .new.
Declared(insn) ==
    {d \in Range(insn.to) : d[1] # "direct"}
    \cup {s \in Range(insn.from) : s[1] = "new"}
    \cup IF insn.guard.new /\ ~IsCmpJump(insn) THEN {<<"new", insn.guard.r>>} ELSE {}

\* Deliberately wrong variant: every destination is taken for a pair.
AddWideDests(insn) ==
    [r \in DOMAIN dests \cup {d[2] : d \in Declared(insn)} |-> 8]

\* AddDestReg: the first to ask for a register decides its size.
AddDests(insn) ==
    [r \in DOMAIN dests \cup {d[2] : d \in Declared(insn)} |->
        IF r \in DOMAIN dests THEN dests[r]
        ELSE IF \E d \in Declared(insn) : d[2] = r /\ Wide(d) THEN 8 ELSE 4]

\* The registers that DestReadWriteReg copies to their temporaries.
CopiedOnce(insn) ==
    {d[2] : d \in {e \in Declared(insn) : e[1] \in {"rw", "keep"}}} \ DOMAIN dests

\* The temporaries after the declarations of an instruction.
CopyToTemp(insn) ==
    [t \in Temps |->
        IF t \in {Dest(r) : r \in CopiedOnce(insn)} THEN <<regs[t], temp[t][2]>>
        ELSE IF \E s \in Range(insn.from) : Wide(s) /\ t = SourcePair(s[2])
        THEN LET s == CHOOSE s \in Range(insn.from) : Wide(s) /\ t = SourcePair(s[2])
             IN  <<regs[s[2]], regs[s[2] + 1]>>
        ELSE temp[t]]

\* The value of an operand, given the temporaries.
Operand(operand, t) ==
    CASE operand[1] = "reg"          -> <<regs[operand[2]]>>
      [] operand[1] = "pair"         -> t[SourcePair(operand[2])]
      [] operand[1] \in {"rw", "new"} -> <<t[Dest(operand[2])][1]>>

\* The address is computed first, into EA_REG.
SetEA(insn, t) ==
    IF IsMemory(insn)
    THEN [t EXCEPT ![EA_REG] = <<Operand(insn.from[1], t)[1], t[EA_REG][2]>>]
    ELSE t

Values(insn, t) ==
    LET read == FlattenSeq([k \in 1 .. Len(insn.from) |->
                    IF k = 1 /\ IsMemory(insn) THEN <<t[EA_REG][1]>>
                                               ELSE Operand(insn.from[k], t)])
    IN  IF IsLoad(insn) THEN read \o mem ELSE read

\* The value that decides a guard.
Tested(insn, t, args) ==
    CASE insn.op = "newjump" -> Result(insn, Condition, args)
      [] insn.guard.new      -> t[Dest(insn.guard.r)][1]
      [] OTHER               -> regs[insn.guard.r]

Holds(insn, t, args) ==
    insn.part1 \/ ~Guarded(insn)
    \/ (Tested(insn, t, args).by \in truthy) = insn.guard.sense

\* A compare-jump's first part only writes its predicate, its second only jumps.
Writes(insn) == IF IsCmpJump(insn) /\ ~insn.part1 THEN {} ELSE Range(insn.to)

\* fBRANCH: the flag of a conditional branch, the target of an indirect one.
BranchTemps(insn, i, args, t) ==
    [t EXCEPT
        ![BranchTaken(i)] =
            IF Leaves(insn) /\ Guarded(insn) THEN <<One, @[2]>> ELSE @,
        ![BranchrDest(i)] =
            IF insn.cof \in {"jumpr", "callr", "loop"} THEN <<args[1], @[2]>> ELSE @]

WriteTemps(insn, args, t) ==
    [k \in Temps |->
        IF \E d \in Writes(insn) : d[1] \in {"reg", "rw", "pair"} /\ k = Dest(d[2])
        THEN LET d == CHOOSE d \in Writes(insn) : k = Dest(d[2])
             IN  <<Result(insn, k, args),
                   IF Wide(d) THEN Result(insn, k + 1, args) ELSE t[k][2]>>
        ELSE t[k]]

Lift ==
    /\ phase = "lift" /\ n <= Len(insns)
    /\ LET insn == insns[n]
           t    == SetEA(insn, CopyToTemp(insn))
           args == Values(insn, t)
       IN  /\ dests' = AddDests(insn)
           /\ IF Holds(insn, t, args)
              THEN /\ temp' = WriteTemps(insn, args, BranchTemps(insn, n, args, t))
                   /\ regs' = [r \in Registers |->
                                  IF <<"direct", r>> \in Writes(insn)
                                  THEN Result(insn, r, args) ELSE regs[r]]
                   /\ mem' = IF IsStore(insn) THEN mem \o args ELSE mem
              ELSE temp' = t /\ UNCHANGED <<regs, mem>>
    /\ n' = n + 1
    /\ phase' = IF n = Len(insns) THEN "write_back" ELSE "lift"
    /\ UNCHANGED <<src, truthy, insns, next>>

-----------------------------------------------------------------------------
(* The end of the packet.                                                  *)

\* WriteClobberedRegs: in no particular order.
WriteBack(r) ==
    /\ phase = "write_back" /\ r \in DOMAIN dests
    /\ regs' = [q \in Registers |->
                   IF q = r THEN temp[Dest(r)][1]
                   ELSE IF q = r + 1 /\ dests[r] = 8 THEN temp[Dest(r)][2]
                   ELSE regs[q]]
    /\ dests' = [q \in DOMAIN dests \ {r} |-> dests[q]]
    /\ UNCHANGED <<src, truthy, insns, n, temp, mem, next, phase>>

\* The first branch that is unconditional, or whose flag is set.
Goes(i) ==
    /\ Leaves(insns[i])
    /\ Guarded(insns[i]) => temp[BranchTaken(i)][1] = One

\* Deliberately wrong variant: the last branch that is taken wins.
LastToGo(going) == CHOOSE i \in going : \A j \in going : j <= i

FirstToGo(going) == CHOOSE i \in going : \A j \in going : i <= j

Goal(i) ==
    CASE insns[i].cof = "return" \/ ReturnsThroughLR(insns[i]) -> regs[LR]
      [] insns[i].cof \in {"jump", "call"}                     -> Target(insns[i])
      [] OTHER                                       -> temp[BranchrDest(i)][1]

Leave ==
    /\ phase = "write_back" /\ dests = << >>
    /\ LET going == {i \in 1 .. Len(insns) : Goes(i)}
           i     == FirstToGo(going)
       IN  next' = IF going = {} THEN Nowhere
                   ELSE [call |-> insns[i].cof \in {"call", "callr"}, to |-> Goal(i)]
    /\ phase' = "done"
    /\ UNCHANGED <<src, truthy, insns, n, dests, regs, temp, mem>>

Next ==
    \/ Prepare
    \/ Lift
    \/ \E r \in DOMAIN dests : WriteBack(r)
    \/ Leave

Spec == Init /\ [][Next]_vars

-----------------------------------------------------------------------------
(* Properties.                                                             *)

\* What the write-back copies to are registers, both halves of a pair.
TypeOK ==
    /\ phase \in {"prepare", "lift", "write_back", "done"}
    /\ n \in 1 .. Len(insns) + 1
    /\ DOMAIN temp = Temps /\ DOMAIN regs = Registers
    /\ \A r \in DOMAIN dests : {r, r + dests[r] \div 8} \subseteq Registers
    /\ \A i \in 1 .. Len(insns) : BranchTaken(i) \in Temps

Outcome ==
    IF phase = "done" THEN [regs |-> regs, mem |-> mem, next |-> next]
    ELSE [regs |-> [r \in Registers |-> Initially(r)], mem |-> << >>, next |-> Nowhere]

\* Where a packet goes is derived twice, from the decoded packet and in the code
\* it is lifted to.  Control goes nowhere that the branches of
\* FillBnInstructionInfo do not lead to, except where these are left out on
\* purpose: it reaches a direct target only as a reported one, falls through or
\* returns from a call only into a successor, and takes an indirect branch that
\* always executes only as one that is reported to end the block.
SuccessorsReported ==
    phase = "done" =>
        CASE next.call ->
                /\ \/ Branch("CallDestination", next.to) \in Reported(src)
                   \/ next.to \notin {Target(insns[i]) : i \in 1 .. Len(insns)}
                /\ NextPacket \in Successors(src) \/ CallsBesideJump(src)
          [] next = Nowhere -> NextPacket \in Successors(src)
          [] OTHER ->
                \/ next.to \in Successors(src)
                \/ \E i \in 1 .. Len(src) :
                      /\ IsJump(src[i]) /\ IsIndirect(src[i])
                      /\ next.to \notin {Target(src[j]) : j \in 1 .. Len(src)}
                      /\ Guarded(src[i]) \/ Unknown \in Successors(src)

P == INSTANCE Parallel WITH outcome <- Outcome

\* The lifted code does what the packet does: whatever order the instructions
\* are encoded in, whichever conditions hold and whatever the temporaries held
\* before, .new operands see the results of the packet and all others the
\* registers before it, and the first branch taken is the only one.
Implements == P!Spec

\* "This builds an equivalent symbolic model" (docs/design.md), of every packet
\* that decodes: what the runs named after a disagreement refute.
Equivalent ==
    phase = "done" =>
        [regs |-> regs, mem |-> mem, next |-> next] = InParallel(src, truthy)
=============================================================================
