----------------------------- MODULE TextTokens ------------------------------
(***************************************************************************)
(* gen_insn_text_funcs.py: from the behaviour string of an instruction,    *)
(* "memh(Rs32+#s11:1)=Rt.H32" for one, to the tokens of its text.          *)
(*                                                                         *)
(* A behaviour is given as its parse tree: a node of the grammar, with the *)
(* children that may be missing equal to None, over operands and words.    *)
(* An instruction is a record: tag; tree; regs, its register operands, a   *)
(* type and an id each; immexts, the immediates in IMMEXT(...) in the      *)
(* order of its semantics; attribs.                                        *)
(***************************************************************************)
EXTENDS Integers, Sequences, SequencesExt

CONSTANT Depth         \* how deep a parse tree may be

Leaf(rule, word) == [rule |-> rule, word |-> word, id |-> "", half |-> "", kids |-> << >>]
Node(rule, kids) == [Leaf(rule, "") EXCEPT !.kids = kids]
None == Leaf("none", "")

\* The children of a node by number, and one that brings a comma with it.
Slots == <<"$1", "$2", "$3", "$4", "$5", "$6">>
SlotComma == ",$2"

\* insn_grammar: what a node stands for in the behaviour string.
insn_grammar == [
    call_exp |-> <<"$1", "$2", "$3">>,
    if_exp   |-> <<"if (", "$1", "$2", ")", "$3">>,
    cond2    |-> <<"$1", "$2", "$3">>,
    call1_no_paren |-> <<"$1", "$2">>,
    call1        |-> <<"$1", "(", "$2", ")">>,
    call2        |-> <<"$1", "(", "$2", ",", "$3", ")">>,
    call2_rator  |-> <<"$1", "(", "$2", ",", "$3", "$4", ")">>,
    call3        |-> <<"$1", "(", "$2", ",", "$3", ",", "$4", ")">>,
    call_rator2  |-> <<"$1", "(", "$2", "$3", "$4", ")">>,
    call_rator3  |-> <<"$1", "(", "$2", "$3", "$4", "$5", "$6", ")">>,
    call_nested1 |-> <<"$1", "(", "$2", ")">>,
    call_nested2 |-> <<"$1", "(", "$2", ",", "$3", ")">>,
    call_nested3 |-> <<"$1", "(", "$2", ",", "$3", ")">>,
    assign_to_op  |-> <<"$1", ",$2", "$3", "=", "$4", "$5">>,
    assign_comma  |-> <<"$1", "$2", "=", "$3", "$4", ";", "$5">>,
    assign_to_exp |-> <<"$1", "$2", "$3", "=", "$4", "$5", "$6">>,
    raw_hint  |-> <<":raw", "$1">>,
    res_hint  |-> <<"$1", "$2">>,
    circ_addr |-> <<"$1", ":circ(", "$2", ")">>,
    reg_dot   |-> <<"$1", "$2">>,
    reg_brev  |-> <<"$1", ":brev">>,
    reg_star  |-> <<"$1", "*">>,
    not_reg   |-> <<"$1", "$2">>]

\* InsnTreeTransformer: what it makes of the tokens of the children.
Calls == [
    call_exp |-> <<"$1", "$2", "$3">>,
    if_exp   |-> <<"if (", "$1", "$2", ") ", "$3">>,
    cond2    |-> <<"$1", "$2", "$3">>,
    call1_no_paren |-> <<"$1", " ", "$2">>,
    call1        |-> <<"$1", "(", "$2", ")">>,
    call2        |-> <<"$1", "(", "$2", ",", "$3", ")">>,
    call2_rator  |-> <<"$1", "(", "$2", ",", "$3", "$4", ")">>,
    call3        |-> <<"$1", "(", "$2", ",", "$3", ",", "$4", ")">>,
    call_rator2  |-> <<"$1", "(", "$2", "$3", "$4", ")">>,
    call_rator3  |-> <<"$1", "(", "$2", "$3", "$4", "$5", "$6", ")">>,
    call_nested1 |-> <<"$1", "(", "$2", ")">>,
    call_nested2 |-> <<"$1", "(", "$2", ",", "$3", ")">>,
    call_nested3 |-> <<"$1", "(", "$2", ",", "$3", ")">>]
Assignments == [
    assign_to_op  |-> <<"$1", ",$2", "$3", " = ", "$4", "$5">>,
    assign_comma  |-> <<"$1", "$2", " = ", "$3", "$4", ";", "$5">>,
    assign_to_exp |-> <<"$1", "$2", "$3", " = ", "$4", "$5", "$6">>,
    raw_hint  |-> <<":raw", "$1">>,
    res_hint  |-> <<"$1", "$2">>]
Operands == [
    circ_addr |-> <<"$1", ":circ(", "$2", ")">>,
    reg_dot   |-> <<"$1", "$2">>,
    reg_brev  |-> <<"$1", ":brev">>,
    reg_star  |-> <<"$1", "*">>,
    not_reg   |-> <<"$1", "$2">>]
Transformer == [rule \in DOMAIN insn_grammar |->
    IF rule \in DOMAIN Calls THEN Calls[rule]
    ELSE IF rule \in DOMAIN Assignments THEN Assignments[rule] ELSE Operands[rule]]

\* What a node stands for, one level down: its children, and the literals around them.
Piece(tree, s) ==
    IF s \in ToSet(Slots) THEN <<tree.kids[CHOOSE n \in DOMAIN Slots : Slots[n] = s]>>
    ELSE IF s # SlotComma THEN <<Leaf("text", s)>>
    ELSE IF tree.kids[2] = None THEN << >> ELSE <<Leaf("text", ","), tree.kids[2]>>
Pieces(tree, layout) ==
    CASE tree = None -> << >>
      [] tree.rule \in DOMAIN layout ->
           FlattenSeq([j \in DOMAIN layout[tree.rule] |-> Piece(tree, layout[tree.rule][j])])
      [] OTHER -> <<tree>>
Expand(items, layout) == FlattenSeq([j \in DOMAIN items |-> Pieces(items[j], layout)])

\* The words, operands and literals under a node in the order of the text, which is the
\* order in which a Transformer visits them: below Depth levels nothing is left to expand.
Leaves(tree, layout) ==
    LET level[n \in 0 .. Depth] == IF n = 0 THEN <<tree>> ELSE Expand(level[n - 1], layout)
    IN  level[Depth]

-----------------------------------------------------------------------------
\* Tokens.  A register is named by the text itself or by insn.regno[j] + up, with the
\* letter of its half; a number is one of the text, j = 0, or insn.immed[j].
Tok(kind, s)  == [kind |-> kind, s |-> s, half |-> "", j |-> 0, up |-> 0]
TextToken(s)  == Tok("Text", s)
GetRegister(a, half, j, up) == [kind |-> "Register", s |-> a, half |-> half, j |-> j, up |-> up]
Immed(kind, ii) == [Tok(kind, "") EXCEPT !.j = ii]

\* __init__: the operand of an id, the last one if there are several, and the immediate
\* that an extender extends, the first in the semantics.
IsUpper(letter) == letter \in {"R", "S", "U"}
seenregs(insn, id) == CHOOSE j \in DOMAIN insn.regs : /\ insn.regs[j].id = id
                          /\ \A k \in DOMAIN insn.regs : insn.regs[k].id = id => k <= j
extendable_upper_imm(insn) == insn.immexts # << >> /\ IsUpper(insn.immexts[1])
extendable_lower_imm(insn) == insn.immexts # << >> /\ ~IsUpper(insn.immexts[1])

\* A pair is shown as its odd register, a colon and its even one.
reg(insn, r) ==
    LET j == seenregs(insn, r.id)
    IN  IF Len(r.id) = 2
        THEN <<GetRegister(r.word, r.half, j, 1), TextToken(":"), GetRegister(r.word, r.half, j, 0)>>
        ELSE <<GetRegister(r.word, r.half, j, 0)>>

is_jump(insn) == "A_JUMP" \in insn.attribs
is_call(insn) == "A_CALL" \in insn.attribs
is_compound_comapre_jump(insn) == "A_NEWCMPJUMP" \in insn.attribs
is_new_value_jump(insn) == {"A_JUMP", "A_DOTNEWVALUE", "A_MEMLIKE_PACKET_RULES"} \subseteq insn.attribs
is_write_to_loop_start(insn) == insn.attribs \cap {"A_IMPLICIT_WRITES_SA0", "A_IMPLICIT_WRITES_SA1"} # {}

\* Deliberately wrong variant: every immediate of a jump is an address.
PlaceAddrTokenAll(insn, num_imms, seen) ==
    is_jump(insn) \/ is_call(insn) \/ (is_write_to_loop_start(insn) /\ ~seen)
\* Whether an immediate is shown as an address; seen tells if another one came before it.
\* Of the two of a compare-and-jump the second is, of the two of a loop the first.
PlaceAddrToken(insn, num_imms, seen) ==
    IF is_write_to_loop_start(insn) THEN ~seen
    ELSE (is_jump(insn) \/ is_call(insn)) /\ (num_imms > 1 => seen)
\* Deliberately wrong variant: of two immediates both are marked.
ExtendableBoth(insn, upper) == insn.immexts # << >>
Extendable(insn, upper) == IF upper THEN extendable_upper_imm(insn) ELSE extendable_lower_imm(insn)
\* Jumps with two immediates are of three kinds, or the assertion fails.
imm(insn, letter, num_imms, seen) ==
    LET upper == IsUpper(letter)
        ii    == IF upper THEN 2 ELSE 1
    IN  IF /\ is_jump(insn) \/ is_call(insn)
           /\ num_imms > 1
           /\ ~(num_imms = 2 /\ (\/ insn.tag = "J4_jumpseti"
                                 \/ is_compound_comapre_jump(insn)
                                 \/ is_new_value_jump(insn)))
        THEN <<Tok("assert", "")>>
        ELSE IF PlaceAddrToken(insn, num_imms, seen) THEN <<Immed("CodeRelativeAddress", ii)>>
        ELSE <<IF Extendable(insn, upper) THEN Immed("Extended", ii) ELSE TextToken("#"),
               Immed("Integer", ii)>>

const(word) == <<TextToken("#"), Tok("Integer", word)>>
pred_reg(word) == <<Tok("Register", [p0 |-> "P0", p1 |-> "P1", p2 |-> "P2", p3 |-> "P3"][word])>>
gp_reg == <<Tok("GPRegister", "GP")>>
\* The words of sys_reg that occur, and what upper() makes of them.
SysWords == {"pc", "sgp0", "sgp1", "sgp1:0", "r29", "r31"}
upper(word) == CASE word = "pc" -> "PC" [] word = "sgp0" -> "SGP0" [] word = "sgp1" -> "SGP1"
                 [] word = "sgp1:0" -> "SGP1:0" [] word = "r29" -> "R29" [] word = "r31" -> "R31"
sys_reg(word) ==
    LET shown == upper(word)
    IN  <<Tok("Register", CASE shown = "R29" -> "SP" [] shown = "R31" -> "LR" [] OTHER -> shown)>>
\* wrap_full_match: a word as it stands, by what its rule is.
terminal(x) ==
    CASE x.rule = "insn" -> <<Tok("Instruction", x.word)>>
      [] x.rule = "dot"  -> <<Tok("Register", x.word)>>
      [] OTHER           -> <<TextToken(x.word)>>

\* The letters of the immediates among some leaves.
Letter(x) == IF x.rule = "imm" THEN <<x.word>> ELSE << >>
Letters(leaves) == FlattenSeq([k \in DOMAIN leaves |-> Letter(leaves[k])])

\* The tokens of the nth leaf.
Tokens(insn, leaves, n) ==
    LET x == leaves[n]
        seen == \E k \in DOMAIN leaves : k < n /\ leaves[k].rule = "imm"
    IN  CASE x.rule = "reg"      -> reg(insn, x)
          [] x.rule = "imm"      -> imm(insn, x.word, Len(Letters(leaves)), seen)
          [] x.rule = "const"    -> const(x.word)
          [] x.rule = "pred_reg" -> pred_reg(x.word)
          [] x.rule = "gp_reg"   -> gp_reg
          [] x.rule = "sys_reg"  -> sys_reg(x.word)
          [] OTHER               -> terminal(x)
process_insn_tokens(insn) ==
    LET leaves == Leaves(insn.tree, Transformer)
    IN  FlattenSeq([n \in DOMAIN leaves |-> Tokens(insn, leaves, n)])

-----------------------------------------------------------------------------
\* The generated code at work on a decoded instruction d: pc, regno, immed, with the
\* lower-case immediate first, and extension_valid.
Shown(kind, s, half, v) == [kind |-> kind, s |-> s, half |-> half, v |-> v]
\* Deliberately wrong variant: the base of a global address is GP, extender or not.
GPShownAlways(t, d) == Shown("Register", t.s, "", 0)
\* An extended global address is absolute: it has no base.
GPShown(t, d) == IF d.extension_valid THEN Shown("Integer", "0", "", 0) ELSE Shown("Register", t.s, "", 0)
\* GetRegisterName's registers are left as a type and a number.
wrap_call(t, d) ==
    CASE t.kind = "Register" /\ t.j > 0   -> Shown("Register", t.s, t.half, d.regno[t.j] + t.up)
      [] t.kind = "GPRegister"            -> GPShown(t, d)
      [] t.kind = "CodeRelativeAddress"   -> Shown(t.kind, "", "", d.pc + d.immed[t.j])
      [] t.kind = "Integer" /\ t.j > 0    -> Shown(t.kind, "", "", d.immed[t.j])
      [] t.kind = "Extended" -> Shown("Text", IF d.extension_valid THEN "##" ELSE "#", "", 0)
      [] OTHER -> Shown(t.kind, t.s, "", 0)
\* The body of a function is the sequence of its tokens; tokenize runs it.
gen_insn_text_func(insn) == process_insn_tokens(insn)
tokenize(body, d) == [n \in DOMAIN body |-> wrap_call(body[n], d)]
=============================================================================
