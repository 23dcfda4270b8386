----------------------------- MODULE MCLiftedCode -----------------------------
(***************************************************************************)
(* Instructions for model checking LiftedCode, as the .idef files in       *)
(* src/third_party/qemu-hexagon/imported have them but for names in fHIDE. *)
(* A byte has two bits here, a word eight: a constant that counts bits is  *)
(* a quarter of its value there, and 0xff, 0x55 and 0xAA are 3, 1 and 2.   *)
(***************************************************************************)
EXTENDS LiftedCode, TLC

\* Register operands, of which a new value is one.
Reg(t, id) == [t |-> t, id |-> id, new |-> FALSE]
NewReg(t, id) == [t |-> t, id |-> id, new |-> TRUE]
Rd == Reg("R", "d")    Rs == Reg("R", "s")    Rt == Reg("R", "t")    Ru == Reg("R", "u")
Rx == Reg("R", "x")    Rdd == Reg("R", "dd")  Rss == Reg("R", "ss")  Rtt == Reg("R", "tt")
Rxx == Reg("R", "xx")  Pd == Reg("P", "d")    Pu == Reg("P", "u")    Ps == Reg("P", "s")
Pt == Reg("P", "t")    Re == Reg("R", "e")

\* An instruction, and the values to start it with: a function from names to sets.
I(regs, free, sem) == [regs |-> regs, free |-> free, sem |-> sem, attribs |-> {}, indirect |-> FALSE]
With(insn, attribs) == [insn EXCEPT !.attribs = attribs]
CondJ == {"A_BN_COND_J"}

Word  == {0, 1, 15, 127, 128, 129, 255}
Some  == {0, 18, 127, 200, 255}
Many  == Word \cup Some \cup {3, 13, 16, 64, 90, 240}
Pair  == {0, 1, 255, 256, 32767, 32768, 33023, 65280, 65535}
Bool  == {0, 1}
Pred  == Bool \cup {AllOnes}
Addr  == {1, 250}
Shamt == {0, 1, 5, 7}
Long  == {0, 1, 7, 8, 15}

V(v) == Id(v)
RsV == V("RsV")  RtV == V("RtV")  RuV == V("RuV")  RxV == V("RxV")  RssV == V("RssV")  RttV == V("RttV")
PuV == V("PuV")  siV == V("siV")  uiV == V("uiV")  UiV == V("UiV")  riV == V("riV")  EA == V("EA")
F1(f, x)       == Call(f, <<x>>)
F2(f, x, y)    == Call(f, <<x, y>>)
F3(f, x, y, z) == Call(f, <<x, y, z>>)
Immext(i)      == CallStmt("fIMMEXT", <<i>>)
Aligned        == Immext(riV) \o CallStmt("fPCALIGN", <<riV>>)
PcRel          == Call("fREAD_PC", << >>) \o Op("+") \o riV
Branch(type)   == CallStmt("fBRANCH", <<PcRel, V(type)>>)
Stall          == CallStmt("fBRANCH_SPECULATE_STALL", << >>)
P1(work)       == <<Stmt("part1", "", "", << >>, <<work>>)>>
Load(size, sign, dst)  == CallStmt("fLOAD", <<Num(1), Num(size), V(sign), EA, V(dst)>>)
StoreEA(size, src)     == CallStmt("fSTORE", <<Num(1), Num(size), EA, src>>)
LoopRegs(n, count)     == CallStmt("fWRITE_LOOP_REGS" \o n, <<PcRel, count>>)
ConstLL(n)             == F1("fCONSTLL", Num(n))

\* Arithmetic and logic.
Ones(w) == Paren(Paren(ConstLL(1) \o Op("<<") \o V(w)) \o Op("-") \o Num(1))
Alu == [
  A2_addi     |-> I(<<Rd, Rs>>, [RsV |-> Word, siV |-> Word],
                    Immext(siV) \o Assg("RdV", RsV \o Op("+") \o siV)),
  A2_subri    |-> I(<<Rd, Rs>>, [RsV |-> Word, siV |-> Some],
                    Immext(siV) \o Assg("RdV", siV \o Op("-") \o RsV)),
  A4_modwrapu |-> I(<<Rd, Rs, Rt>>, [RsV |-> Word, RtV |-> Word],
     IfElse(RsV \o Op("<") \o Num(0), Assg("RdV", RsV \o Op("+") \o F1("fCAST4u", RtV)),
       IfElse(F1("fCAST4u", RsV) \o Op(">=") \o F1("fCAST4u", RtV),
              Assg("RdV", RsV \o Op("-") \o F1("fCAST4u", RtV)), Assg("RdV", RsV)))),
  S4_subaddi  |-> I(<<Rd, Rs, Ru>>, [RsV |-> Some, RuV |-> Some, siV |-> Word],
                    Assg("RdV", RsV \o Op("-") \o RuV \o Op("+") \o F1("fIMMEXT", siV))),
  S4_addaddi  |-> I(<<Rd, Rs, Ru>>, [RsV |-> Some, RuV |-> Some, siV |-> Some],
                    Assg("RdV", RsV \o Op("+") \o RuV \o Op("+") \o F1("fIMMEXT", siV))),
  S4_andi_asl_ri |-> I(<<Rx>>, [RxV |-> Word, uiV |-> Some, UiV |-> Shamt],
                    Assg("RxV", F1("fIMMEXT", uiV) \o Op("&") \o Paren(RxV \o Op("<<") \o UiV))),
  C4_and_andn |-> I(<<Pd, Ps, Pt, Pu>>, [PsV |-> Pred, PtV |-> Pred, PuV |-> Pred],
                    Assg("PdV", V("PsV") \o Op("&") \o V("PtV") \o Op("&") \o Paren(Un("~") \o PuV))),
  M4_and_andn |-> I(<<Rx, Rs, Rt>>, [RxV |-> Some, RsV |-> Some, RtV |-> Some],
                    AssgOp("RxV", "&", Paren(RsV \o Op("&") \o Paren(Un("~") \o RtV)))),
  C4_or_orn   |-> I(<<Pd, Ps, Pt, Pu>>, [PsV |-> Pred, PtV |-> Pred, PuV |-> Pred],
                    Assg("PdV", V("PsV") \o Op("|") \o V("PtV") \o Op("|") \o Paren(Un("~") \o PuV))),
  C4_and_orn  |-> I(<<Pd, Ps, Pt, Pu>>, [PsV |-> Pred, PtV |-> Pred, PuV |-> Pred],
                    Assg("PdV", V("PsV") \o Op("&") \o Paren(V("PtV") \o Op("|") \o Paren(Un("~") \o PuV)))),
  C4_or_andn  |-> I(<<Pd, Ps, Pt, Pu>>, [PsV |-> Pred, PtV |-> Pred, PuV |-> Pred],
                    Assg("PdV", V("PsV") \o Op("|") \o Paren(V("PtV") \o Op("&") \o Paren(Un("~") \o PuV)))),
  C2_xor      |-> I(<<Pd, Ps, Pt>>, [PsV |-> Pred, PtV |-> Pred], Assg("PdV", V("PsV") \o Op("^") \o V("PtV"))),
  C2_andn     |-> I(<<Pd, Pt, Ps>>, [PtV |-> Pred, PsV |-> Pred],
                    Assg("PdV", V("PtV") \o Op("&") \o Paren(Un("~") \o V("PsV")))),
  C2_orn      |-> I(<<Pd, Pt, Ps>>, [PtV |-> Pred, PsV |-> Pred],
                    Assg("PdV", V("PtV") \o Op("|") \o Paren(Un("~") \o V("PsV")))),
  C2_not      |-> I(<<Pd, Ps>>, [PsV |-> Pred], Assg("PdV", Un("~") \o V("PsV"))),
  C2_all8     |-> I(<<Pd, Ps>>, [PsV |-> Pred],
                    Ternary(Paren(V("PsV") \o Op("==") \o Num(AllOnes)), Assg("PdV", Num(AllOnes)), Assg("PdV", Num(0)))),
  C2_vitpack  |-> I(<<Rd, Ps, Pt>>, [PsV |-> Pred, PtV |-> Pred],
                    Assg("RdV", Paren(V("PsV") \o Op("&") \o Num(1)) \o Op("|") \o Paren(V("PtV") \o Op("&") \o Num(2)))),
  C2_tfrpr    |-> I(<<Rd, Ps>>, [PsV |-> Pred], Assg("RdV", F3("fZXTN", Num(Bits(1)), Num(Bits(4)), V("PsV")))),
  C2_tfrrp    |-> I(<<Pd, Rs>>, [RsV |-> Many], Assg("PdV", F2("fGETUBYTE", Num(0), RsV))),
  C2_cmpgtu   |-> I(<<Pd, Rs, Rt>>, [RsV |-> Word, RtV |-> Word],
                    Assg("PdV", F1("f8BITSOF", F1("fCAST4u", RsV) \o Op(">") \o F1("fCAST4u", RtV)))),
  C4_cmplte   |-> I(<<Pd, Rs, Rt>>, [RsV |-> Word, RtV |-> Word],
                    Assg("PdV", F1("f8BITSOF", RsV \o Op("<=") \o RtV))),
  S2_tstbit_i |-> I(<<Pd, Rs>>, [RsV |-> Word, uiV |-> Shamt],
                    Assg("PdV", F1("f8BITSOF", Paren(RsV \o Op("&") \o Paren(Num(1) \o Op("<<") \o uiV))
                                               \o Op("!=") \o Num(0)))),
  A4_cmpbeqi  |-> I(<<Pd, Rs>>, [RsV |-> Many, uiV |-> 0 .. AllOnes],
                    Assg("PdV", F1("f8BITSOF", F2("fGETUBYTE", Num(0), RsV) \o Op("==") \o uiV))),
  C2_mux      |-> I(<<Rd, Pu, Rs, Rt>>, [PuV |-> Pred, RsV |-> Some, RtV |-> Some],
                    Ternary(Paren(F1("fLSBOLD", PuV)), Assg("RdV", RsV), Assg("RdV", RtV))),
  C2_cmovenewif |-> I(<<Rd, NewReg("P", "u")>>, [PuN |-> Pred, siV |-> Word],
                    Immext(siV) \o IfElse(F1("fLSBNEWNOT", V("PuN")), Assg("RdV", siV), CallStmt("CANCEL", << >>))),
  SA1_clrtnew |-> I(<<Rd>>, [Pd0 |-> Pred],
                    IfElse(V("fLSBNEW0"), Assg("RdV", Num(0)), CallStmt("CANCEL", << >>))),
  SA1_clrt    |-> I(<<Rd>>, [Pd0 |-> Pred],
                    IfElse(F1("fLSBOLD", Call("fREAD_P0", << >>)), Assg("RdV", Num(0)), CallStmt("CANCEL", << >>))),
  A4_cmphgtu  |-> I(<<Pd, Rs, Rt>>, [RsV |-> Many, RtV |-> Word],
                    Assg("PdV", F1("f8BITSOF", F2("fGETUHALF", Num(0), RsV) \o Op(">")
                                               \o F2("fGETUHALF", Num(0), RtV)))),
  A2_max      |-> I(<<Rd, Rs, Rt>>, [RsV |-> Word, RtV |-> Word], Assg("RdV", F2("fMAX", RsV, RtV))),
  A2_maxu     |-> I(<<Rd, Rs, Rt>>, [RsV |-> Word, RtV |-> Word],
                    Assg("RdV", F2("fMAX", F1("fCAST4u", RsV), F1("fCAST4u", RtV)))),
  A2_minp     |-> I(<<Rdd, Rtt, Rss>>, [RttV |-> Pair, RssV |-> Pair], Assg("RddV", F2("fMIN", RttV, RssV))),
  A2_minup    |-> I(<<Rdd, Rtt, Rss>>, [RttV |-> Pair, RssV |-> Pair],
                    Assg("RddV", F2("fMIN", F1("fCAST8u", RttV), F1("fCAST8u", RssV)))),
  A2_abs      |-> I(<<Rd, Rs>>, [RsV |-> Many], Assg("RdV", F1("fABS", RsV))),
  A2_negp     |-> I(<<Rdd, Rss>>, [RssV |-> Pair], Assg("RddV", Un("-") \o RssV)),
  A2_swiz     |-> I(<<Rd, Rs>>, [RsV |-> Many], Assg("RdV", F1("fBYTESWAP", RsV)))]

\* Halves, words, shifts, bit fields and products.
Bitfields == [
  A2_tfril    |-> I(<<Rx>>, [RxV |-> Word, uiV |-> {0, 1, 5, 15}], CallStmt("fSETHALF", <<Num(0), RxV, uiV>>)),
  A2_tfrih    |-> I(<<Rx>>, [RxV |-> Word, uiV |-> {0, 1, 5, 15}], CallStmt("fSETHALF", <<Num(1), RxV, uiV>>)),
  A2_combineii |-> I(<<Rdd>>, [siV |-> Word, SiV |-> Word],
     Immext(siV) \o CallStmt("fSETWORD", <<Num(0), V("RddV"), V("SiV")>>)
                 \o CallStmt("fSETWORD", <<Num(1), V("RddV"), siV>>)),
  A2_addh_h16_hh |-> I(<<Rd, Rs, Rt>>, [RsV |-> Many, RtV |-> Word],
     Assg("RdV", Paren(F2("fGETHALF", Num(1), RtV) \o Op("+") \o F2("fGETHALF", Num(1), RsV))
                 \o Op("<<") \o Num(Bits(2)))),
  A2_addh_l16_ll |-> I(<<Rd, Rs, Rt>>, [RsV |-> Many, RtV |-> Word],
     Assg("RdV", F3("fSXTN", Num(Bits(2)), Num(Bits(4)), Paren(F2("fGETHALF", Num(0), RtV)
                                                   \o Op("+") \o F2("fGETHALF", Num(0), RsV))))),
  M2_mpyu_lh  |-> I(<<Rd, Rs, Rt>>, [RsV |-> Many, RtV |-> Word],
     Assg("RdV", F2("fGETUHALF", Num(0), RsV) \o Op("*") \o F2("fGETUHALF", Num(1), RtV))),
  A2_addspl   |-> I(<<Rdd, Rss, Rtt>>, [RssV |-> Pair, RttV |-> Pair],
     Assg("RddV", RttV \o Op("+") \o F3("fSXTN", Num(Bits(4)), Num(Bits(8)), F2("fGETWORD", Num(0), RssV)))),
  S2_asr_i_r  |-> I(<<Rd, Rs>>, [RsV |-> Many, uiV |-> Shamt],
                    Assg("RdV", F1("fECHO", F3("fASHIFTR", RsV, uiV, V("4_4"))))),
  S2_lsr_i_p  |-> I(<<Rdd, Rss>>, [RssV |-> Pair, uiV |-> Long],
                    Assg("RddV", F1("fECHO", F3("fLSHIFTR", RssV, uiV, V("8_8"))))),
  S6_rol_i_r  |-> I(<<Rd, Rs>>, [RsV |-> Many, uiV |-> Shamt],
                    Assg("RdV", F1("fECHO", F3("fROTL", RsV, uiV, V("4_4"))))),
  S2_valignib |-> I(<<Rdd, Rtt, Rss>>, [RttV |-> Pair, RssV |-> Pair, uiV |-> {0, 1, 5, 7}],
     Assg("RddV", Paren(F3("fLSHIFTR", RssV, uiV \o Op("*") \o Num(Bits(1)), V("8_8"))) \o Op("|")
            \o Paren(F3("fASHIFTL", RttV, Paren(Paren(Num(8) \o Op("-") \o uiV) \o Op("*") \o Num(Bits(1))), V("8_8"))))),
  \* Eight times seven fits a byte of eight bits, its counterpart here does not.
  S2_valignrb |-> I(<<Rdd, Rtt, Rss, Pu>>, [RttV |-> Pair, RssV |-> Pair, PuV |-> Bool],
     Assg("RddV", F3("fLSHIFTR", RssV, Paren(PuV \o Op("&") \o Num(7)) \o Op("*") \o Num(Bits(1)), V("8_8")) \o Op("|")
            \o Paren(F3("fASHIFTL", RttV, Paren(Num(8) \o Op("-") \o Paren(PuV \o Op("&") \o Num(7)))
                                          \o Op("*") \o Num(Bits(1)), V("8_8"))))),
  S2_vspliceib |-> I(<<Rdd, Rss, Rtt>>, [RssV |-> Pair, RttV |-> Pair, uiV |-> {0, 1, 4, 5, 7}],
     Assg("RddV", F3("fASHIFTL", RttV, uiV \o Op("*") \o Num(Bits(1)), V("8_8")) \o Op("|")
            \o F3("fZXTN", uiV \o Op("*") \o Num(Bits(1)), Num(Bits(8)), RssV))),
  S2_insert   |-> I(<<Rx, Rs>>, [RxV |-> Some, RsV |-> Some, uiV |-> Shamt, UiV |-> Shamt],
     Assg("width", uiV) \o Assg("offset", UiV)
     \o AssgOp("RxV", "&", Un("~") \o Paren(Ones("width") \o Op("<<") \o V("offset")))
     \o AssgOp("RxV", "|", Paren(Paren(RsV \o Op("&") \o Ones("width")) \o Op("<<") \o V("offset")))),
  S4_extract  |-> I(<<Rd, Rs>>, [RsV |-> Many, uiV |-> Shamt, UiV |-> Shamt],
     Assg("width", uiV) \o Assg("offset", UiV)
     \o Assg("RdV", F3("fSXTN", V("width"), Num(Bits(4)),
                       Paren(F1("fCAST4_4u", RsV) \o Op(">>") \o V("offset"))))),
  A4_bitsplit |-> I(<<Rdd, Rs, Rt>>, [RsV |-> Many, RtV |-> Word],
     Assg("shamt", F3("fZXTN", Num(3), Num(Bits(4)), RtV))
     \o CallStmt("fSETWORD", <<Num(1), V("RddV"), Paren(F1("fCAST4_4u", RsV) \o Op(">>") \o V("shamt"))>>)
     \o CallStmt("fSETWORD", <<Num(0), V("RddV"), F3("fZXTN", V("shamt"), Num(Bits(4)), RsV)>>)),
  M2_mpy_up   |-> I(<<Rd, Rs, Rt>>, [RsV |-> Word, RtV |-> Word],
                    Assg("RdV", F2("fMPY32SS", RsV, RtV) \o Op(">>") \o Num(Bits(4)))),
  M2_dpmpyuu_s0 |-> I(<<Rdd, Rs, Rt>>, [RsV |-> Word, RtV |-> Word],
                    Assg("RddV", F2("fMPY32UU", F1("fCAST4u", RsV), F1("fCAST4u", RtV)))),
  M2_dpmpyss_acc_s0 |-> I(<<Rxx, Rs, Rt>>, [RxxV |-> {0, 127, 32767, 65280}, RsV |-> Word, RtV |-> Word],
                    Assg("RxxV", V("RxxV") \o Op("+") \o F2("fMPY32SS", RsV, RtV))),
  M2_dpmpyss_rnd_s0 |-> I(<<Rd, Rs, Rt>>, [RsV |-> Word, RtV |-> Word],
     Assg("RdV", Paren(F2("fMPY32SS", RsV, RtV) \o Op("+") \o ConstLL(2^(Bits(4) - 1))) \o Op(">>") \o Num(Bits(4))))]

\* Loads, stores, branches, loops, traps.
Control == [
  L2_loadrb_pi |-> I(<<Rd, Rx>>, [RxV |-> Addr, siV |-> {1, 255}],
     CallStmt("fEA_REG", <<RxV>>) \o CallStmt("fPM_I", <<RxV, siV>>) \o Load(1, "s", "RdV")),
  L2_loadrigp |-> I(<<Rd>>, [uiV |-> Addr],
     Immext(uiV) \o CallStmt("fEA_GPI", <<uiV>>) \o Load(4, "u", "RdV")),
  L4_ploadrhfnew_abs |-> I(<<Rd, NewReg("P", "t")>>, [PtN |-> Pred, uiV |-> Addr],
     CallStmt("fMUST_IMMEXT", <<uiV>>) \o CallStmt("fEA_IMM", <<uiV>>)
     \o IfElse(F1("fLSBNEWNOT", V("PtN")), Load(2, "s", "RdV"), CallStmt("LOAD_CANCEL", <<EA>>))),
  L4_ploadrdt_rr |-> I(<<Rdd, Reg("P", "v"), Rs, Rt>>, [PvV |-> Pred, RsV |-> Addr, RtV |-> {0, 3}, uiV |-> Shamt],
     CallStmt("fEA_RRs", <<RsV, RtV, uiV>>)
     \o IfElse(F1("fLSBOLD", V("PvV")), Load(8, "u", "RddV"), CallStmt("LOAD_CANCEL", <<EA>>))),
  L4_loadrub_ur |-> I(<<Rd, Rt>>, [RtV |-> {0, 3}, uiV |-> Shamt, UiV |-> Addr],
     CallStmt("fMUST_IMMEXT", <<UiV>>) \o CallStmt("fEA_IRs", <<UiV, RtV, uiV>>) \o Load(1, "u", "RdV")),
  L4_add_memoph_io |-> I(<<Rs, Rt>>, [RsV |-> Addr, RtV |-> Some, uiV |-> {0, 2}],
     Immext(uiV) \o CallStmt("fEA_RI", <<RsV, uiV>>) \o Load(2, "s", "tmp") \o AssgOp("tmp", "+", RtV)
     \o StoreEA(2, V("tmp"))),
  S2_storerinew_io |-> I(<<Rs, NewReg("N", "t")>>, [RsV |-> Addr, NtN |-> Some, siV |-> {0, 255}],
     Immext(siV) \o CallStmt("fEA_RI", <<RsV, siV>>) \o StoreEA(4, F1("fNEWREG_ST", V("NtN")))),
  S2_storerf_io |-> I(<<Rs, Rt>>, [RsV |-> Addr, RtV |-> Word, siV |-> {0, 255}],
     Immext(siV) \o CallStmt("fEA_RI", <<RsV, siV>>) \o StoreEA(2, F2("fGETHALF", Num(1), RtV))),
  S4_storerb_ap |-> I(<<Re, Rt>>, [RtV |-> Word, UiV |-> Addr],
     CallStmt("fMUST_IMMEXT", <<UiV>>) \o CallStmt("fEA_IMM", <<UiV>>)
     \o StoreEA(1, F2("fGETBYTE", Num(0), RtV)) \o Assg("ReV", UiV)),
  S4_stored_locked |-> I(<<Rs, Pd, Rtt>>, [RsV |-> Addr, RttV |-> Pair],
     CallStmt("fEA_REG", <<RsV>>) \o CallStmt("fSTORE_LOCKED", <<Num(1), Num(8), EA, RttV, V("PdV")>>)),
  L2_loadw_locked |-> I(<<Rd, Rs>>, [RsV |-> Addr],
     CallStmt("fEA_REG", <<RsV>>) \o CallStmt("fLOAD_LOCKED", <<Num(1), Num(4), V("u"), EA, V("RdV")>>)),
  S2_allocframe |-> I(<<Rx>>, [RxV |-> Addr, uiV |-> {0, 4}],
     CallStmt("fEA_RI", <<RxV, Un("-") \o Num(8)>>)
     \o StoreEA(8, F1("fFRAME_SCRAMBLE",
           Paren(F1("fCAST8_8u", Paren(F1("fCAST4_4u", Call("fREAD_LR", << >>)))) \o Op("<<") \o Num(Bits(4)))
           \o Op("|") \o F1("fCAST4_4u", Call("fREAD_FP", << >>))))
     \o CallStmt("fWRITE_FP", <<EA>>) \o CallStmt("fFRAMECHECK", <<EA, EA>>)
     \o Assg("RxV", EA \o Op("-") \o uiV)),
  SL2_deallocframe |-> I(<< >>, [HEX_REG_FP |-> {0, 5, 250}],
     CallStmt("fEA_REG", <<Call("fREAD_FP", << >>)>>) \o Load(8, "u", "tmp")
     \o Assg("tmp", F1("fFRAME_UNSCRAMBLE", V("tmp")))
     \o CallStmt("fWRITE_LR", <<F2("fGETWORD", Num(1), V("tmp"))>>)
     \o CallStmt("fWRITE_FP", <<F2("fGETWORD", Num(0), V("tmp"))>>)
     \o CallStmt("fWRITE_SP", <<EA \o Op("+") \o Num(8)>>)),
  L4_return |-> I(<<Rdd, Rs>>, [RsV |-> {0, 5, 250}],
     CallStmt("fEA_REG", <<RsV>>) \o Load(8, "u", "tmp")
     \o Assg("RddV", F1("fFRAME_UNSCRAMBLE", V("tmp"))) \o CallStmt("fWRITE_SP", <<EA \o Op("+") \o Num(8)>>)
     \o CallStmt("fJUMPR", <<V("REG_LR"), F2("fGETWORD", Num(1), V("RddV")), V("COF_TYPE_JUMPR")>>)),
  J2_jumpt |-> With(I(<<Pu>>, [PuV |-> Pred, riV |-> {5, 12}],
     Stall \o IfElse(F1("fLSBOLD", PuV), Aligned \o Branch("COF_TYPE_JUMP"), << >>)), CondJ),
  J2_jumprf |-> [With(I(<<Pu, Rs>>, [PuV |-> Pred, RsV |-> Some],
     Stall \o IfElse(F1("fLSBOLDNOT", PuV),
                     CallStmt("fJUMPR", <<V("RsN"), RsV, V("COF_TYPE_JUMPR")>>), << >>)), CondJ)
     EXCEPT !.indirect = TRUE],
  J2_jumprgtez |-> With(I(<<Rs>>, [RsV |-> Word, riV |-> {4}],
     Stall \o IfElse(RsV \o Op(">=") \o Num(0), Branch("COF_TYPE_JUMP"), << >>)), CondJ),
  J2_call  |-> I(<< >>, [riV |-> {5, 12}], Aligned \o CallStmt("fCALL", <<PcRel>>)),
  J2_callr |-> [I(<<Rs>>, [RsV |-> Word], CallStmt("fCALLR", <<RsV>>)) EXCEPT !.indirect = TRUE],
  J4_cmpeqi_fp0_jump_nt |-> With(I(<<Rs>>, [RsV |-> Some, UiV |-> {18, 30}, riV |-> {5}, Pd0 |-> Pred],
     P1(CallStmt("fWRITE_P0", <<F1("f8BITSOF", Paren(RsV \o Op("==") \o UiV))>>)) \o Stall
     \o IfElse(V("fLSBNEW0NOT"), Aligned \o Branch("COF_TYPE_JUMP"), << >>)),
     CondJ \cup {"A_NEWCMPJUMP"}),
  J4_tstbit0_tp1_jump_nt |-> With(I(<<Rs>>, [RsV |-> Word, riV |-> {5}, Pd1 |-> Pred],
     P1(CallStmt("fWRITE_P1", <<F1("f8BITSOF", Paren(RsV \o Op("&") \o Num(1)))>>)) \o Stall
     \o IfElse(V("fLSBNEW1"), Aligned \o Branch("COF_TYPE_JUMP"), << >>)),
     CondJ \cup {"A_NEWCMPJUMP"}),
  J4_cmpgtu_t_jumpnv_nt |-> With(I(<<NewReg("N", "s"), Rt>>, [NsN |-> Word, RtV |-> Word, riV |-> {5}],
     Stall \o IfElse(Paren(F1("fCAST4u", F1("fNEWREG", V("NsN"))) \o Op(">") \o F1("fCAST4u", RtV)),
                     Aligned \o Branch("COF_TYPE_JUMP"), << >>)), CondJ),
  J2_loop0r |-> I(<<Rs>>, [RsV |-> Some, riV |-> {5}],
     Aligned \o LoopRegs("0", RsV) \o CallStmt("fSET_LPCFG", <<Num(0)>>)),
  J2_loop1i |-> I(<< >>, [UiV |-> Some, riV |-> {5, 12}], Aligned \o LoopRegs("1", UiV)),
  J2_ploop1sr |-> I(<<Rs>>, [RsV |-> Some, riV |-> {5}],
     Aligned \o LoopRegs("0", RsV) \o CallStmt("fSET_LPCFG", <<Num(1)>>) \o CallStmt("fWRITE_P3", <<Num(0)>>)),
  J2_endloop0 |-> [With(I(<< >>, [HEX_REG_LC0 |-> 0 .. 3, HEX_REG_USR_LPCFG |-> 0 .. 3, Pd3 |-> Bool],
     IfElse(V("fGET_LPCFG"),
            IfElse(V("fGET_LPCFG") \o Op("==") \o Num(1), CallStmt("fWRITE_P3", <<Num(AllOnes)>>), << >>)
            \o CallStmt("fSET_LPCFG", <<V("fGET_LPCFG") \o Op("-") \o Num(1)>>), << >>)
     \o IfElse(V("fREAD_LC0") \o Op(">") \o Num(1),
               CallStmt("fBRANCH", <<V("fREAD_SA0"), V("COF_TYPE_LOOPEND0")>>)
               \o CallStmt("fWRITE_LC0", <<V("fREAD_LC0") \o Op("-") \o Num(1)>>), << >>)), CondJ)
     EXCEPT !.indirect = TRUE],
  J2_trap0 |-> I(<< >>, [uiV |-> Bool], CallStmt("fTRAP", <<Num(0), uiV>>)),
  Y2_break |-> I(<< >>, [riV |-> Bool], CallStmt("fBREAK", << >>)),
  J2_pause |-> I(<< >>, [uiV |-> Bool], CallStmt("fPAUSE", <<uiV>>))]

MCInsns == Alu @@ Bitfields @@ Control
Negated == [C2_cmovenewif |-> Alu.C2_cmovenewif]

\* Registers before: every name distinct enough to tell which one was read; destinations
\* hold what an earlier instruction left in them.
Fixed == [HEX_REG_SP |-> 220, HEX_REG_FP |-> 153, HEX_REG_LR |-> 102, HEX_REG_GP |-> 35, HEX_REG_LC0 |-> 5,
          HEX_REG_LC1 |-> 4, HEX_REG_SA0 |-> 172, HEX_REG_SA1 |-> 44, HEX_REG_USR_LPCFG |-> 0, pc |-> 136,
          Pd0 |-> 1, Pd1 |-> 0, Pd2 |-> 0, Pd3 |-> 0]
Left  == [x \in Scratch \cup Flags \cup {"EA"} \cup Temps |-> 0]
             @@ [x \in {"RdV", "ReV"} |-> 165] @@ [x \in {"RddV", "PdV"} |-> IF x = "PdV" THEN 1 ELSE 42405]
MemA  == [x \in Addresses |-> ((3 * x) \div 2) % 4]
Valuations(free) == {f \in [DOMAIN free -> UNION {free[x] : x \in DOMAIN free}] :
                        \A x \in DOMAIN free : f[x] \in free[x]}
MCStarts(t) ==
    {[r |-> f @@ Fixed @@ Left, mem |-> MemA, next |-> -1, event |-> "none", extended |-> x] :
        f \in Valuations(MCInsns[t].free), x \in (IF t = "L2_loadrigp" THEN BOOLEAN ELSE {FALSE})}
=============================================================================
