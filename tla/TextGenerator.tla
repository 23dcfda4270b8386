--------------------------- MODULE TextGenerator ----------------------------
(***************************************************************************)
(* The text generator as a whole: the pool of TagPool generates the        *)
(* functions of TextTokens, and the functions in the file it writes show   *)
(* decoded instructions.                                                   *)
(***************************************************************************)
EXTENDS TextTokens, TagPool

CONSTANT Insns         \* the instructions: a function from tags

\* Decoded instructions: every operand tells itself apart.  Only what has an IMMEXT can be
\* extended.
Decodings(insn) ==
    {[pc |-> 1000, regno |-> [j \in DOMAIN insn.regs |-> 2 * j], immed |-> <<100, 200>>,
      extension_valid |-> x] : x \in (IF insn.immexts = << >> THEN {FALSE} ELSE BOOLEAN)}

\* The functions of the file that is written, run: in the file a body is the name of the
\* instruction that it was generated from.
InFile(Shows(_, _, _)) ==
    file # NoFile => \A j \in DOMAIN file : \A d \in Decodings(Insns[file[j].tag]) :
        Shows(Insns[file[j].tag], d, tokenize(gen_insn_text_func(Insns[file[j].body]), d))

\* What a reader makes of the behaviour string, leaf by leaf: words, the registers of the
\* operand with this name and id, the immediates.  An r immediate counts from the packet.
OperandOf(insn, x) == CHOOSE j \in DOMAIN insn.regs : insn.regs[j] = [t |-> x.word, id |-> x.id]
IsRelative(letter) == letter \in {"r", "R"}
Value(d, letter)   == d.immed[IF IsUpper(letter) THEN 2 ELSE 1]
Word(w) == <<w, "", 0>>
\* A predicate or a system register has the name that Hexagon's assembler gives it.
NameOf(word) ==
    CASE word = "p0" -> "P0" [] word = "p1" -> "P1" [] word = "p2" -> "P2" [] word = "p3" -> "P3"
      [] word = "r29" -> "SP" [] word = "r31" -> "LR" [] word = "pc" -> "PC"
      [] word = "sgp0" -> "SGP0" [] word = "sgp1" -> "SGP1" [] word = "sgp1:0" -> "SGP1:0"
Read(insn, d, x) ==
    LET no == d.regno[OperandOf(insn, x)]
    IN  CASE x.rule = "reg" -> IF Len(x.id) = 1 THEN <<<<x.word, x.half, no>>>>
                               ELSE <<<<x.word, "", no + 1>>, Word(":"), <<x.word, "", no>>>>
          [] x.rule = "imm" -> IF IsRelative(x.word) THEN <<<<"", "", d.pc + Value(d, x.word)>>>>
                               ELSE <<Word("#"), <<"", "", Value(d, x.word)>>>>
          [] x.rule = "const"    -> <<Word("#"), Word(x.word)>>
          [] x.rule = "gp_reg"   -> <<Word(IF d.extension_valid THEN "0" ELSE "GP")>>
          [] x.rule \in {"sys_reg", "pred_reg"} -> <<Word(NameOf(x.word))>>
          [] OTHER               -> <<Word(x.word)>>

\* Tokens without their kinds, blanks, and the doubling of the extended number's marker.
Solid(s)    == CASE s = " = " -> "=" [] s = ") " -> ")" [] s = "##" -> "#" [] OTHER -> s
Inked(t)    == IF t.s = " " THEN << >> ELSE <<<<Solid(t.s), t.half, t.v>>>>
Text(shown) == FlattenSeq([n \in DOMAIN shown |-> Inked(shown[n])])

-----------------------------------------------------------------------------
(* What holds of the instruction data.                                     *)

\* Trees are not deeper than Depth; a word is none of the literals that the transformer
\* spaces out.
Parsed(leaves) ==
    \A x \in ToSet(leaves) : /\ x # None /\ x.rule \notin DOMAIN insn_grammar
                            /\ x.word # " " /\ Solid(x.word) = x.word
\* Operands are numbered from one.  A register is one of them, the only one with its id; a
\* pair has no halves (reg); there are four predicates, and the system registers are known by name.
NamesOperands(insn, leaves) ==
    /\ DOMAIN insn.regs \subseteq Nat \ {0}
    /\ \A j, k \in DOMAIN insn.regs : insn.regs[j].id = insn.regs[k].id => j = k
    /\ \A x \in ToSet(leaves) :
          /\ x.rule = "reg" => /\ \E j \in DOMAIN insn.regs : insn.regs[j] = [t |-> x.word, id |-> x.id]
                               /\ Len(x.id) = 1 \/ (Len(x.id) = 2 /\ x.half = "")
          /\ x.rule = "pred_reg" => x.word \in {"p0", "p1", "p2", "p3"}
          /\ x.rule = "sys_reg" => x.word \in SysWords
\* Of two immediates one is upper-case.  What counts from the packet is the last immediate
\* of a jump and the first of a loop; a jump with two is of one of three kinds (imm).
NamesImmediates(insn, letters) ==
    /\ \A j, k \in DOMAIN letters : IsUpper(letters[j]) = IsUpper(letters[k]) => j = k
    /\ \A j \in DOMAIN letters :
          IsRelative(letters[j]) <=> IF is_write_to_loop_start(insn) THEN j = 1
                                     ELSE (is_jump(insn) \/ is_call(insn)) /\ j = Len(letters)
    /\ (is_jump(insn) \/ is_call(insn)) /\ Len(letters) > 1 =>
          \/ insn.tag = "J4_jumpseti"
          \/ is_compound_comapre_jump(insn)
          \/ is_new_value_jump(insn)
Regular(insn) ==
    LET leaves == Leaves(insn.tree, insn_grammar)
    IN  Parsed(leaves) /\ NamesOperands(insn, leaves) /\ NamesImmediates(insn, Letters(leaves))

ASSUME DepthAssumption == Depth \in Nat
ASSUME InsnsAssumption == \A t \in DOMAIN Insns : Regular(Insns[t])
\* In the file a body is the name of its instruction.
ASSUME BodyAssumption ==
    \A list \in TagLists : \A j \in DOMAIN list : list[j] \in DOMAIN Insns /\ Body(list[j]) = list[j]

-----------------------------------------------------------------------------
(* Properties.                                                             *)

\* The text of a decoded instruction is its behaviour string with operands filled in: no
\* literal of the grammar is lost, each register is read from the field of its own operand,
\* each number from its own immediate, and an extended GP-relative address has no GP, as
\* in the lifted code (InsnTreeTransformer, wrap_call, gen_insn_text_funcs.py:179-590).
ReadsLike(insn, d, shown) ==
    LET leaves == Leaves(insn.tree, insn_grammar)
    IN  Text(shown) = FlattenSeq([n \in DOMAIN leaves |-> Read(insn, d, leaves[n])])
ReadsLikeBehaviour == InFile(ReadsLike)

\* The user interface follows exactly the numbers that are targets: those that count from
\* the packet, whichever of two immediates they are, and whatever flags the transformer
\* goes by (imm, gen_insn_text_funcs.py:393-440).
Targets(insn, d, shown) ==
    {t.v : t \in {shown[n] : n \in {k \in DOMAIN shown : shown[k].kind = "CodeRelativeAddress"}}}
      = {d.pc + Value(d, x.word) :
           x \in {y \in ToSet(Leaves(insn.tree, insn_grammar)) : y.rule = "imm" /\ IsRelative(y.word)}}
AddressesAreTargets == InFile(Targets)

\* A number is marked as extended if and only if it is the one the decoder extended: "lower
\* is always imm 0, upper always imm 1", by the first IMMEXT of the semantics
\* (opcode_which_immediate_is_extended, opcodes.c:124-147).
Marked(insn, d, shown) ==
    \A n \in DOMAIN shown : shown[n].kind = "Integer" /\ shown[n].v # 0 =>
        (shown[n - 1].s = "##" <=>
           d.extension_valid /\ shown[n].v = Value(d, insn.immexts[1]))
ExtensionsMarked == InFile(Marked)
=============================================================================
