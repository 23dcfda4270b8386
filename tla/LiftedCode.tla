------------------------------ MODULE LiftedCode ------------------------------
(***************************************************************************)
(* The lift functions that gen_il_funcs.py writes, at work: the IL that    *)
(* one of them emits for an instruction is executed step by step, and ends *)
(* in what the semantics of the instruction means as C.                    *)
(***************************************************************************)
EXTENDS IlGenerator

CONSTANTS Insns,     \* the instructions: a function from tags
          Starts(_)  \* the states in which the instruction of a tag is executed

VARIABLES tag, code,   \* the instruction and what is generated for it,
          part1,       \* and which part of it runs when it has two
          start,       \* the state before
          env,         \* the state now
          pc           \* the next IL instruction

vars == <<tag, code, part1, start, env, pc>>

Prog      == code.parts[IF part1 \/ Len(code.parts) = 1 THEN 1 ELSE 2]
Finished  == pc > Len(Prog)
At(il)    == ~Finished /\ Prog[pc].il = il
Arg(j)    == Eval(Prog[pc].args[j], env)

Init ==
    /\ tag \in DOMAIN Insns
    /\ code = gen_il_func(Insns[tag])
    /\ part1 \in (IF Len(code.parts) = 2 THEN BOOLEAN ELSE {FALSE})
    /\ start \in Starts(tag)
    /\ env = start
    /\ pc = 1

Advance(e) == pc' = pc + 1 /\ env' = e /\ UNCHANGED <<tag, code, part1, start>>
GoTo(l)    == pc' = Target(Prog, pc, l) /\ UNCHANGED <<tag, code, part1, start, env>>

SetRegister == At("SetRegister") /\ Advance([env EXCEPT !.r[Prog[pc].reg] = Cut(Arg(1), Prog[pc].size)])
Store       == At("Store") /\ Advance([env EXCEPT !.mem = Write(@, Arg(1), Prog[pc].size, Arg(2))])
If          == At("If") /\ GoTo(Prog[pc].args[IF Arg(1) # 0 THEN 2 ELSE 3])
Goto        == At("Goto") /\ GoTo(Prog[pc].reg)
Raise       == \/ At("SystemCall") /\ Advance([env EXCEPT !.event = "fTRAP"])
               \/ At("Breakpoint") /\ Advance([env EXCEPT !.event = "fBREAK"])
Align       == At("Align") /\ Advance([env EXCEPT !.r[Prog[pc].reg] = @ - (@ % 4)])
Pass        == (At("Label") \/ At("Open") \/ At("Close")) /\ Advance(env)

Next == SetRegister \/ Store \/ If \/ Goto \/ Raise \/ Align \/ Pass

Spec     == Init /\ [][Next]_vars
FairSpec == Spec /\ WF_vars(Next)

-----------------------------------------------------------------------------
\* Registers besides the operands that the code reads and writes by name.
Named == {"HEX_REG_SP", "HEX_REG_FP", "HEX_REG_LR", "HEX_REG_GP", "HEX_REG_LC0", "HEX_REG_LC1",
          "HEX_REG_SA0", "HEX_REG_SA1", "HEX_REG_USR_LPCFG"}
Scratch == {"EA_REG", "TMP_REG", "WIDTH_REG", "OFFSET_REG", "SHAMT_REG"}
Flags   == {"BRANCH_TAKEN_ARRAY", "BRANCHR_DEST_ARRAY"}
Decls(modes) == {d.name : d \in {x \in code.decls : x.mode \in modes}}
Operands     == {d.name : d \in code.decls}

\* In C a true predicate has all its bits set.  The generator has comparisons leave 1, and
\* takes for true what is not 0.
AsC(e) == [e EXCEPT !.r = [x \in DOMAIN @ |-> IF IsPred(x) /\ @[x] # 0 THEN AllOnes ELSE @[x]]]
StandsFor(x, v, c) == v = c \/ (IsPred(x) /\ v = 1 /\ c = AllOnes)

Meaning  == CMeaning(Insns[tag].sem, part1, AsC(start))
\* What the rest of the packet sees: destinations, named registers, memory, exceptions,
\* and of a branch whether it is taken, if it is conditional, and where to, if that is not
\* known beforehand.
Agrees(m) ==
    /\ \A x \in Operands \cup Named : StandsFor(x, env.r[x], m.r[x])
    /\ env.mem = m.mem
    /\ env.event = m.event
    /\ "A_BN_COND_J" \in Insns[tag].attribs => env.r["BRANCH_TAKEN_ARRAY"] = BoolOf(m.next # -1)
    /\ Insns[tag].indirect /\ m.next # -1 => env.r["BRANCHR_DEST_ARRAY"] = m.next

TypeOK ==
    /\ tag \in DOMAIN Insns
    /\ part1 \in BOOLEAN
    /\ DOMAIN env.r = DOMAIN start.r
    /\ \A x \in DOMAIN env.r : env.r[x] \in 0 .. 2^Bits(IF x \in Scratch THEN 8 ELSE CSize(x)) - 1
    /\ pc \in 1 .. Len(Prog) + 1

\* A condition that negates a true predicate: NOT of a byte that is 1 is not 0.  The new
\* value of a predicate is cut to one bit before.
NegatesTrue ==
    \E s \in Range(Rest(Insns[tag].sem)) :
        /\ s.k = "if"
        /\ LET c == s.e[1][1]
           IN  CASE c.v = "fLSBOLDNOT"  -> start.r[c.a[1][1].v] = 1
                 [] c.v = "fLSBNEWNOT"  -> start.r[c.a[1][1].v] # 0
                 [] c.v = "fLSBNEW0NOT" -> start.r["Pd0"] # 0
                 [] c.v = "fLSBNEW1NOT" -> start.r["Pd1"] # 0
                 [] OTHER -> FALSE
\* Instructions that use the bits of a predicate compute with a true one that is 1.
BitsOfPred == {"C2_not", "C2_xor", "C2_andn", "C2_orn", "C4_and_andn", "C4_and_orn", "C4_or_andn", "C4_or_orn",
               "C2_all8", "C2_vitpack", "C2_tfrpr", "S2_valignrb"}
OtherBits(m) ==
    LET asByte == CMeaning(Insns[tag].sem, part1, start)
    IN  \E x \in Decls({"write-only", "write-only pair"}) : ~StandsFor(x, asByte.r[x], m.r[x])

\* The six forms of semantics that are lifted to something else, and when one can tell.
Deviates(m) ==
    LET r == start.r
        n == r["uiV"] * Bits(1)
    IN  CASE ~part1 /\ NegatesTrue -> TRUE
          [] tag \in BitsOfPred -> OtherBits(m)
          [] "RxxV" \in Operands ->
               Cut(m.r["RxxV"], 8) # Cut(m.r["RxxV"], 4)
          [] tag = "S4_subaddi" -> Cut(2 * r["siV"], 4) # 0
          [] tag = "M2_dpmpyss_rnd_s0" -> TRUE
          [] tag = "S2_vspliceib" -> n > Bits(4) /\ Cut(r["RssV"], 4) # r["RssV"] % 2^n
          [] OTHER -> FALSE

DeviatesOrAgrees(m) == Deviates(m) <=> ~Agrees(m)

\* The code lifted for an instruction does what the semantics says: same destinations,
\* memory, exceptions, branches.  It fails exactly for the forms above: a condition that
\* negates a predicate, a predicate whose bits are used, a register pair that is read and
\* written and lifted as a word, a difference after which the grammar takes the rest
\* together, a constant that is sign-extended, a mask wider than a word.
\* (SemanticsTreeTransformer, gen_il_funcs.py:918-1795.)
Equivalent == Finished => DeviatesOrAgrees(Meaning)

\* What the description of every instruction claims, "if (!Pu4.new) Rd32=#s12" for one:
\* the code does it.
AlwaysEquivalent == Finished => Agrees(Meaning)

\* The generated C++ compiles and keeps within the instruction: it reads only operands that
\* are declared and registers of fixed names, and writes only what was declared as a
\* destination or has a fixed name (genptr_decl*, gen_il_funcs.py:1798-1935, 2064-2087,
\* against the transformer).
RECURSIVE Reads(_)
Reads(x) ==
    CASE x.il = "Register" -> {x.reg}
      [] x.il = "If"       -> Reads(x.args[1])
      [] x.il \in {"RegisterSplit", "Open"} -> {}
      [] OTHER -> UNION {Reads(x.args[j]) : j \in DOMAIN x.args}
Declared ==
    pc = 1 => \A j \in DOMAIN Prog :
        /\ Prog[j].il # "assert"
        /\ Reads(Prog[j]) \subseteq Operands \cup Named \cup Scratch
        /\ Prog[j].il = "SetRegister" =>
             Prog[j].reg \in Decls({"write-only", "write-only pair", "read-write", "read-write pair"})
                             \cup Named \cup Scratch \cup Flags

\* Lifted code runs to its end: its jumps find their labels, in the innermost block that
\* declares them, and never lead back (if_stmt, gen_il_funcs.py:1634-1660).
Ends == <>Finished
=============================================================================
