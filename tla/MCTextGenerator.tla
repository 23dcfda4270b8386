--------------------------- MODULE MCTextGenerator ---------------------------
(***************************************************************************)
(* Instructions for model checking TextGenerator: one or more for most     *)
(* forms of the grammar and for every kind of immediate, as the .idef      *)
(* files have them.                                                        *)
(***************************************************************************)
EXTENDS TextGenerator, TLC

\* Words and operands.
insn_(w)  == Leaf("insn", w)
rator(w)  == Leaf("rator", w)
hint(w)   == Leaf("hint", w)
not       == Leaf("not_sign", "!")
Im(l)     == Leaf("imm", l)
num(n)    == Leaf("const", n)
sys(w)    == Leaf("sys_reg", w)
gp        == Leaf("gp_reg", "gp")
P(n)      == Leaf("pred_reg", n)
R(t, id)  == [Leaf("reg", t) EXCEPT !.id = id]
H(t, id)  == [R(t, id) EXCEPT !.half = "H"]
Dot(r, w) == Node("reg_dot", <<r, Leaf("dot", w)>>)
Rd == R("R", "d")   Rs == R("R", "s")   Rt == R("R", "t")   Rx == R("R", "x")   Rdd == R("R", "dd")

\* Expressions.
Call(c)         == Node("call_exp", <<None, c, None>>)
Hinted(c, h)    == Node("call_exp", <<None, c, h>>)
To(r, e)        == Node("assign_to_op", <<r, None, None, None, e>>)
ToWith(r, o, e) == Node("assign_to_op", <<r, None, rator(o), None, e>>)
ToTwo(r, q, e)  == Node("assign_to_op", <<r, q, None, None, e>>)
Mem(m, e)       == Node("assign_to_exp", <<Call(m), None, None, None, e, None>>)
MemWith(m, o, e) == Node("assign_to_exp", <<Call(m), None, rator(o), None, e, None>>)
Both(r, e, e2)  == Node("assign_comma", <<r, None, None, e, e2>>)
c1(n, a)        == Node("call1", <<insn_(n), a>>)
c2(n, a, b)     == Node("call2", <<insn_(n), a, b>>)
r2(n, a, o, b)  == Node("call_rator2", <<insn_(n), a, rator(o), b>>)
Jump(n, l)      == Call(Node("call1_no_paren", <<insn_(n), Im(l)>>))
If(c, e)        == Node("if_exp", <<None, c, e>>)
IfNot(c, e)     == Node("if_exp", <<not, c, e>>)

\* An instruction: its tree, its registers, its extendable immediates, its attributes.
I(tree, regs, immexts, attribs) ==
    [tag |-> "", tree |-> tree, immexts |-> immexts, attribs |-> attribs,
     regs |-> [j \in DOMAIN regs |-> [t |-> regs[j].word, id |-> regs[j].id]]]
CmpJump == {"A_JUMP", "A_NEWCMPJUMP"}
NewJump == {"A_JUMP", "A_DOTNEWVALUE", "A_MEMLIKE_PACKET_RULES"}
Mu == R("M", "u")   Pu == R("P", "u")   Pv == R("P", "v")   Ns == R("N", "s")   Nt == R("N", "t")

MCTextInsns == [
  A2_combineii  |-> I(To(Rdd, Call(c2("combine", Im("s"), Im("S")))), <<Rdd>>, <<"s">>, {}),
  A4_combineii  |-> I(To(Rdd, Call(c2("combine", Im("s"), Im("U")))), <<Rdd>>, <<"U">>, {}),
  C2_cmovenewif |-> I(IfNot(Dot(Pu, ".new"), To(Rd, Im("s"))), <<Pu, Rd>>, <<"s">>, {}),
  J2_jumpt      |-> I(If(Pu, Jump("jump:nt", "r")), <<Pu>>, <<"r">>, {"A_JUMP"}),
  J2_call       |-> I(Jump("call", "r"), << >>, <<"r">>, {"A_CALL"}),
  J4_cmpeqi_tp0_jump_nt |->
     I(Both(P("p0"), Call(c2("cmp.eq", Rs, Im("U"))), If(Dot(P("p0"), ".new"), Jump("jump:nt", "r"))),
       <<Rs>>, <<"r">>, CmpJump),
  J4_jumpseti   |-> [I(Both(Rd, Im("U"), Jump("jump", "r")), <<Rd>>, <<"r">>, {"A_JUMP"})
                     EXCEPT !.tag = "J4_jumpseti"],
  J4_cmpgtui_t_jumpnv_t |->
     I(If(c2("cmp.gtu", Dot(Ns, ".new"), Im("U")), Jump("jump:t", "r")), <<Ns>>, <<"r">>, NewJump),
  J2_loop0i     |-> I(Call(c2("loop0", Im("r"), Im("U"))), << >>, <<"r">>, {"A_IMPLICIT_WRITES_SA0"}),
  J2_ploop1sr   |-> I(To(P("p3"), Call(c2("sp1loop0", Im("r"), Rs))), <<Rs>>, <<"r">>,
                      {"A_IMPLICIT_WRITES_SA0"}),
  L2_loadrigp   |-> I(To(Rd, Call(r2("memw", gp, "+", Im("u")))), <<Rd>>, <<"u">>, {}),
  S2_storerinew_io |-> I(Mem(r2("memw", Rs, "+", Im("s")), Dot(Nt, ".new")), <<Rs, Nt>>, <<"s">>,
                         {"A_DOTNEWVALUE"}),
  S2_storerf_io |-> I(Mem(r2("memh", Rs, "+", Im("s")), H("R", "t")), <<Rs, Rt>>, <<"s">>, {}),
  L4_add_memopw_io |-> I(MemWith(r2("memw", Rs, "+", Im("u")), "+", Rt), <<Rs, Rt>>, <<"u">>, {}),
  S2_pstorerit_io |-> I(If(Pv, Mem(r2("memw", Rs, "+", Im("u")), Rt)), <<Pv, Rs, Rt>>, <<"u">>, {}),
  L2_loadrd_pci |-> I(To(Rdd, Call(r2("memd", Rx, "++", Node("circ_addr", <<Im("s"), Mu>>)))),
                      <<Rdd, Rx, Mu>>, << >>, {}),
  S4_andi_asl_ri |-> I(To(Rx, Call(Node("call_nested2", <<insn_("and"), Im("u"), c2("asl", Rx, Im("U"))>>))),
                       <<Rx>>, <<"u">>, {}),
  F2_sfrecipa   |-> I(ToTwo(Rd, R("P", "e"), Call(c2("sfrecipa", Rs, Rt))), <<Rd, R("P", "e"), Rs, Rt>>, << >>, {}),
  A2_addh_h16_sat_hh |-> I(To(Rd, Hinted(c2("add", H("R", "t"), H("R", "s")),
                              Node("res_hint", <<hint(":sat"), hint(":<<16")>>))), <<Rd, Rt, Rs>>, << >>, {}),
  M2_accii      |-> I(ToWith(Rx, "+", Call(c2("add", Rs, Im("s")))), <<Rx, Rs>>, <<"s">>, {}),
  L2_loadrub_pbr |-> I(To(Rd, Call(r2("memub", Rx, "++", Node("reg_brev", <<Mu>>)))), <<Rd, Rx, Mu>>, << >>, {}),
  L2_loadw_locked |-> I(To(Rd, Call(c1("memw_locked", Rs))), <<Rd, Rs>>, << >>, {}),
  SS2_storew_sp |-> I(Mem(r2("memw", sys("r29"), "+", Im("u")), Rt), <<Rt>>, << >>, {}),
  C2_andn       |-> I(To(R("P", "d"), Call(c2("and", R("P", "t"), Node("not_reg", <<not, R("P", "s")>>)))),
                      <<R("P", "d"), R("P", "t"), R("P", "s")>>, << >>, {}),
  L4_loadrd_ap  |-> I(To(Rdd, Call(r2("memd", R("R", "e"), "=", Im("U")))), <<Rdd, R("R", "e")>>, <<"U">>, {}),
  L4_loadri_ur  |-> I(To(Rd, Call(Node("call_rator3", <<insn_("memw"), Rt, rator("<<"), Im("u"), rator("+"), Im("U")>>))),
                      <<Rd, Rt>>, <<"U">>, {}),
  V6_vL32b_cur_pred_ai |-> I(If(Pv, To(Dot(R("V", "d"), ".cur"), Call(r2("vmem", Rt, "+", Im("s"))))),
                             <<Pv, R("V", "d"), Rt>>, << >>, {}),
  SA1_dec       |-> I(To(Rd, Call(c2("add", Rs, num("-1")))), <<Rd, Rs>>, << >>, {}),
  J2_endloop0   |-> I(Call(insn_("endloop0")), << >>, << >>, {"A_JUMP"}),
  Y2_crswap0    |-> I(Call(c2("crswap", Rx, sys("sgp0"))), <<Rx>>, << >>, {}),
  Y4_crswap1    |-> I(Call(c2("crswap", Rx, sys("sgp1"))), <<Rx>>, << >>, {}),
  Y4_crswap10   |-> I(Call(c2("crswap", R("R", "xx"), sys("sgp1:0"))), <<R("R", "xx")>>, << >>, {}),
  C4_addipc     |-> I(To(Rd, Call(c2("add", sys("pc"), Im("u")))), <<Rd>>, <<"u">>, {}),
  SL2_jumpr31   |-> I(Call(Node("call1_no_paren", <<insn_("jumpr"), sys("r31")>>)), << >>, << >>, {"A_JINDIR"}),
  \* S2_pstorerit_io with the other of the trees that the grammar allows.
  S2_pstorerit_io_2 |-> I(Node("assign_to_exp", <<If(Pv, Call(r2("memw", Rs, "+", Im("u")))), None, None, None, Rt, None>>),
                       <<Pv, Rs, Rt>>, <<"u">>, {})]

\* The text of a function, by the name of its instruction.
MCBody(t) == t

\* Each instruction in one list.
MCTagLists ==
    {<<"A2_combineii", "A4_combineii", "J4_cmpgtui_t_jumpnv_t">>, <<"C2_cmovenewif", "J2_jumpt", "J2_call">>,
     <<"J4_cmpeqi_tp0_jump_nt", "J4_jumpseti", "J2_loop0i">>, <<"J2_ploop1sr", "L2_loadrigp", "S2_storerinew_io">>,
     <<"S2_storerf_io", "L4_add_memopw_io", "S2_pstorerit_io">>, <<"L2_loadrd_pci", "S4_andi_asl_ri", "F2_sfrecipa">>,
     <<"A2_addh_h16_sat_hh", "M2_accii", "L2_loadrub_pbr">>, <<"L2_loadw_locked", "SS2_storew_sp", "C2_andn">>,
     <<"L4_loadrd_ap", "L4_loadri_ur", "V6_vL32b_cur_pred_ai">>, <<"SA1_dec", "J2_endloop0", "S2_pstorerit_io_2">>,
     <<"Y2_crswap0", "Y4_crswap1", "Y4_crswap10">>, <<"C4_addipc", "SL2_jumpr31">>}
=============================================================================
