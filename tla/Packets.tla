------------------------------ MODULE Packets -------------------------------
(***************************************************************************)
(* Instructions with operands, and what a packet of them does: "up to four *)
(* instructions that run in parallel" (docs/design.md).  Every instruction *)
(* reads the registers as they were before the packet, except for operands *)
(* marked .new; all results are written at the end; memory accesses happen *)
(* in encoded order; at most one branch is taken, the first whose          *)
(* condition holds.                                                        *)
(*                                                                         *)
(* An instruction has, besides the fields that Prepare knows,              *)
(*   from   the operands it reads, a memory access its address first       *)
(*   to     the operands it writes                                         *)
(*   guard  NoGuard, or the predicate, its sense, and whether it is .new   *)
(*   cof    "none" or the kind of branch                                   *)
(* An operand is <<kind, register>>: "reg" and "pair" are Rs, Rd, Rss and  *)
(* Rdd, predicates included; "rw" is Rx, or a predicate named in the       *)
(* semantics; "new" is Nt.new; "direct" is a register the semantics write  *)
(* by name (SP, FP, LC0, SA0); "keep" is a named predicate whose write     *)
(* does not take place (P3 in an endloop when USR.LPCFG is 0).             *)
(*                                                                         *)
(* What an instruction computes is left open: a value records which        *)
(* instruction computed it from which values.                              *)
(***************************************************************************)
EXTENDS Prepare

SP == 29
FP == 30
LR == 31
SA0 == 32
LC0 == 33
P0 == 90
P3 == 93

Registers == {0, 1, 2, 3, SP, FP, LR, SA0, LC0, P0, P3}

Predicates == {P0, P3}

\* The lower registers of the pairs.
Pairs == {0, 2, FP}

Sources ==
    {<<kind, r>> : kind \in {"reg", "rw", "new"}, r \in Registers}
    \cup {<<"pair", r>> : r \in Pairs}
Destinations ==
    {<<kind, r>> : kind \in {"reg", "rw"}, r \in Registers}
    \cup {<<"pair", r>> : r \in Pairs}
    \cup {<<"direct", r>> : r \in {SP, FP, LC0, SA0}}
    \cup {<<"keep", r>> : r \in Predicates}

NoGuard == [r |-> -1, sense |-> TRUE, new |-> FALSE]
Guarded(insn) == insn.guard # NoGuard

\* The kinds of branch in each class.
Branching(op) ==
    CASE op \in {"jump", "newjump", "cmpjump"} -> {"jump"}
      [] op = "jumpr"                          -> {"jumpr", "callr"}
      [] op = "call"                           -> {"call"}
      [] op = "return"                         -> {"return"}
      [] op = "endloop"                        -> {"loop"}
      [] OTHER                                 -> {"none"}

\* A memory access reads its address first, an indirect branch its target.  What
\* is Rx is read and written, and only new-value instructions read Nt.new.
OperandsFit(insn) ==
    /\ IsMemory(insn) => insn.from # << >> /\ insn.from[1][1] \in {"reg", "rw"}
    /\ insn.op = "jumpr" => \E r \in Registers : insn.from = << <<"reg", r>> >>
    /\ EndsLoop(insn) => insn.from # << >>
    /\ IsCmpJump(insn) => \A s \in Range(insn.from) : s[1] = "reg"
    /\ insn.op = "newjump" => insn.to = << >>
    /\ insn.op = "return" => <<"pair", FP>> \in Range(insn.to)
    /\ \A s \in Range(insn.from) : /\ s[1] = "rw" => s \in Range(insn.to)
                                   /\ s[1] = "new" => IsNewValue(insn)

\* Compares are what writes predicates and do not wait for a new one; a
\* compare-jump branches on the predicate it writes.
PredicatesFit(insn) ==
    /\ \A d \in Range(insn.to) : d[2] \in Predicates =>
          IsCompare(insn) \/ IsCmpJump(insn) \/ d[1] = "keep"
    /\ Guarded(insn) /\ insn.op # "newjump" =>
          insn.guard.r \in IF EndsLoop(insn) THEN {LC0} ELSE Predicates
    /\ insn.guard.new => ~IsCompare(insn) /\ ~EndsLoop(insn) /\ insn.op # "newjump"
    /\ IsCmpJump(insn) => insn.guard.new /\ insn.to = << <<"rw", insn.guard.r>> >>

\* The instructions that occur.
Instruction ==
    {insn \in [op    : {"alu", "jump", "jumpr", "call", "cmp", "spNloop", "load",
                       "store", "frame", "return", "newstore", "newjump",
                       "cmpjump", "endloop"},
              from  : Seq(Sources),
              to    : Seq(Destinations),
              guard : {NoGuard} \cup [r : Registers, sense : BOOLEAN, new : BOOLEAN],
              cof   : {"none", "jump", "call", "jumpr", "callr", "loop", "return"},
              at    : Nat,
              part1 : BOOLEAN] :
        insn.cof \in Branching(insn.op) /\ OperandsFit(insn) /\ PredicatesFit(insn)}

\* The registers an operand stands for.
RegistersOf(operand) ==
    IF operand[1] = "pair" THEN <<operand[2], operand[2] + 1>> ELSE <<operand[2]>>

Written(insn) ==
    UNION {Range(RegistersOf(d)) : d \in {e \in Range(insn.to) : e[1] # "keep"}}
Read(insn) == UNION {Range(RegistersOf(s)) : s \in Range(insn.from)}

-----------------------------------------------------------------------------
(* Values.                                                                 *)

Value(kind, i, r, args) == [by |-> <<kind, i, r>>, args |-> args]

Initially(r)           == Value("reg", r, 0, << >>)
Result(insn, r, args)  == Value("insn", insn.at, r, args)
Target(insn)           == Value("target", insn.at, 0, << >>)

\* What a new-value jump tests: not a register.
Condition == 200

Nowhere == [call |-> FALSE, to |-> Value("next", 0, 0, << >>)]

-----------------------------------------------------------------------------
(* The packet in parallel.                                                 *)

ProducersOf(pkt, r) == {j \in 1 .. Len(pkt) : r \in Written(pkt[j])}
ProducerOf(pkt, i, r) ==
    IF \E j \in ProducersOf(pkt, r) : j # i
    THEN CHOOSE j \in ProducersOf(pkt, r) : j # i
    ELSE i

\* What decides a guard: a register before the packet, or a result of it.
Decider(pkt, i) ==
    CASE pkt[i].op = "newjump" -> <<"insn", pkt[i].at, Condition>>
      [] pkt[i].guard.new      -> <<"insn", pkt[ProducerOf(pkt, i, pkt[i].guard.r)].at,
                                    pkt[i].guard.r>>
      [] OTHER                 -> <<"reg", pkt[i].guard.r, 0>>

Deciders(pkt) ==
    {Decider(pkt, i) : i \in {j \in 1 .. Len(pkt) : Guarded(pkt[j])}}

\* truthy: which of the deciding values are true.
Happens(pkt, i, truthy) ==
    Guarded(pkt[i]) => (Decider(pkt, i) \in truthy) = pkt[i].guard.sense

\* The values an instruction computes with.  A load depends on the stores
\* before it.
Arguments(pkt, truthy) ==
    LET args[i \in 1 .. Len(pkt)] ==
            LET ValueOf(operand) ==
                    IF operand[1] = "new"
                    THEN LET j == ProducerOf(pkt, i, operand[2])
                         IN  <<Result(pkt[j], operand[2], args[j])>>
                    ELSE [k \in 1 .. Len(RegistersOf(operand)) |->
                             Initially(RegistersOf(operand)[k])]
                Stored(j) ==
                    IF IsStore(pkt[j]) /\ Happens(pkt, j, truthy) THEN args[j] ELSE << >>
                values == FlattenSeq([k \in 1 .. Len(pkt[i].from) |-> ValueOf(pkt[i].from[k])])
            IN  IF IsLoad(pkt[i])
                THEN values \o FlattenSeq([j \in 1 .. i - 1 |-> Stored(j)])
                ELSE values
    IN  args

\* Registers, memory (the log of its stores) and next packet.
InParallel(pkt, truthy) ==
    LET args    == Arguments(pkt, truthy)
        on      == {i \in 1 .. Len(pkt) : Happens(pkt, i, truthy)}
        writers == on \cup {i \in 1 .. Len(pkt) : IsCmpJump(pkt[i])}
        taken   == {i \in on : pkt[i].cof # "none"}
        first   == CHOOSE i \in taken : \A j \in taken : i <= j
        Dest(i) == CASE pkt[i].cof \in {"jump", "call"} -> Target(pkt[i])
                     [] pkt[i].cof = "return"           -> Result(pkt[i], LR, args[i])
                     [] OTHER                           -> args[i][1]
    IN  [regs |-> [r \in Registers |->
                      IF \E i \in writers : r \in Written(pkt[i])
                      THEN LET w == CHOOSE i \in writers : r \in Written(pkt[i])
                           IN  Result(pkt[w], r, args[w])
                      ELSE Initially(r)],
         mem  |-> FlattenSeq([i \in 1 .. Len(pkt) |->
                                 IF IsStore(pkt[i]) /\ i \in on THEN args[i] ELSE << >>]),
         next |-> IF taken = {} THEN Nowhere
                  ELSE [call |-> pkt[first].cof \in {"call", "callr"}, to |-> Dest(first)]]

-----------------------------------------------------------------------------
(* The packets that an assembler makes.                                    *)

\* Two instructions that never both execute.
Alternatives(a, b) ==
    /\ Guarded(a) /\ Guarded(b)
    /\ a.guard.r = b.guard.r /\ a.guard.new = b.guard.new
    /\ a.guard.sense # b.guard.sense

\* A packet writes no register twice.
WrittenOnce(pkt) ==
    \A i, j \in 1 .. Len(pkt) :
        i # j /\ Written(pkt[i]) \cap Written(pkt[j]) # {} => Alternatives(pkt[i], pkt[j])

\* Every .new has one instruction that produces it and always executes; that of
\* a new register value is encoded before its consumer.
NewProduced(pkt) ==
    LET Makes(j, r) == ProducersOf(pkt, r) = {j} /\ (Guarded(pkt[j]) => IsCmpJump(pkt[j]))
    IN  \A i \in 1 .. Len(pkt) :
            /\ pkt[i].guard.new =>
                  \E j \in 1 .. Len(pkt) :
                      Makes(j, pkt[i].guard.r) /\ (IsCmpJump(pkt[i]) => j = i)
            /\ \A s \in Range(pkt[i].from) : s[1] = "new" =>
                  \E j \in 1 .. i - 1 :
                      Makes(j, s[2]) /\ {<<"reg", s[2]>>, <<"rw", s[2]>>} \cap Range(pkt[j].to) # {}

\* An endloop ends a packet of two instructions or more, which does not set up
\* a loop.
LoopsApart(pkt) ==
    \A i \in 1 .. Len(pkt) : EndsLoop(pkt[i]) =>
        i = Len(pkt) /\ i > 2 /\ \A j \in 1 .. i - 1 : LC0 \notin Written(pkt[j])

Legal(pkt) ==
    /\ \A i \in 1 .. Len(pkt) : pkt[i].at = i /\ ~pkt[i].part1
    /\ FitsSlots(pkt) /\ FewBranches(pkt)
    /\ WrittenOnce(pkt) /\ NewProduced(pkt) /\ LoopsApart(pkt)

-----------------------------------------------------------------------------
(* The legal packets that the lifter's technique covers.                   *)

\* A register written under a condition is also written when it fails.
Exhaustive(pkt) ==
    \A i \in 1 .. Len(pkt) : \A d \in Range(pkt[i].to) :
        Guarded(pkt[i]) /\ ~IsCmpJump(pkt[i]) /\ d[1] \in {"reg", "pair"} =>
            \E j \in 1 .. Len(pkt) :
                Alternatives(pkt[i], pkt[j]) /\ d \in Range(pkt[j].to)

\* "TODO: handle the case where a dest register appears as a single 32b
\* register, and a 64b pair."
OneWidth(pkt) ==
    \A i, j \in 1 .. Len(pkt) : \A d \in Range(pkt[i].to), e \in Range(pkt[j].to) :
        Range(RegistersOf(d)) \cap Range(RegistersOf(e)) # {} => d = e

\* Nothing lifted after a direct write reads the register.
DirectWritesLast(pkt) ==
    LET insns == PreparePacketForLifting(pkt)
    IN  \A i, j \in 1 .. Len(insns) :
            i < j => \A d \in Range(insns[i].to) :
                        d[1] = "direct" => d[2] \notin Read(insns[j])

\* The copy of a stored pair is not in the register of the address.
AddressApart(pkt) ==
    \A i \in 1 .. Len(pkt) : IsMemory(pkt[i]) => <<"pair", 0>> \notin Range(pkt[i].from)

ReturnsThroughLR(insn) ==
    insn.op = "jumpr" /\ insn.cof = "jumpr" /\ ~Guarded(insn) /\ LR \in Read(insn)

\* A return through LR comes with no instruction that writes LR.
ReturnAddressKept(pkt) ==
    \A i, j \in 1 .. Len(pkt) : ReturnsThroughLR(pkt[i]) => LR \notin Written(pkt[j])

Covered(pkt) ==
    /\ Exhaustive(pkt) /\ OneWidth(pkt) /\ DirectWritesLast(pkt)
    /\ AddressApart(pkt) /\ ReturnAddressKept(pkt)
=============================================================================
