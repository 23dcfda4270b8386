----------------------------- MODULE IlGenerator -----------------------------
(***************************************************************************)
(* gen_il_funcs.py: from the semantics of an instruction to the body of    *)
(* its lift function.  The text goes through a preprocessor, which expands *)
(* some macros and splits a compare-and-jump in two, through the parser of *)
(* Idef, and through SemanticsTreeTransformer, which turns the tree into   *)
(* IL bottom-up.  An instruction is a record: sem, its statements; regs,   *)
(* its register operands, a type and an id each; attribs.                  *)
(***************************************************************************)
EXTENDS Idef, SequencesExt

\* preprocess_semantics.  Macros that stand for an expression.
RECURSIVE Expand(_)
Cast(size, s, c)  == Call("fCAST" \o size \o s, <<c>>)
Renamed == [fCONSTLL |-> "fCAST8s", fCAST4_4s |-> "fCAST4s", fCAST4_4u |-> "fCAST4u",
            fCAST8_8s |-> "fCAST8s", fCAST8_8u |-> "fCAST8u", fMUST_IMMEXT |-> "fIMMEXT"]
Identifiers == [fLSBNEW0 |-> Call("fLSBNEW", <<Num(0)>>), fLSBNEW1 |-> Call("fLSBNEW", <<Num(1)>>),
                fLSBNEW0NOT |-> Un("!") \o Call("fLSBNEW", <<Num(0)>>),
                fLSBNEW1NOT |-> Un("!") \o Call("fLSBNEW", <<Num(1)>>),
                fGET_LPCFG |-> Call("fREAD_LPCFG", << >>),
                fREAD_SA0 |-> Call("fREAD_SA", <<Num(0)>>), fREAD_SA1 |-> Call("fREAD_SA", <<Num(1)>>),
                fREAD_LC0 |-> Call("fREAD_LC", <<Num(0)>>), fREAD_LC1 |-> Call("fREAD_LC", <<Num(1)>>)]
Zxtn(n, c)  == Paren(Paren(c) \o Op("&") \o Paren(Paren(Num(1) \o Op("<<") \o Paren(n)) \o Op("-") \o Num(1)))
SignBit(n)  == Paren(Num(1) \o Op("<<") \o Paren(Paren(n) \o Op("-") \o Num(1)))
Sxtn(n, c)  == Paren(Paren(Zxtn(n, c) \o Op("^") \o SignBit(n)) \o Op("-") \o SignBit(n))
Wide(s, c)  == Paren(Cast("8", s, Cast("4", s, c)))
Shift(s, op, a) == Paren(Expand(Cast(a[3][1].v, s, a[1])) \o Op(op) \o Paren(a[2]))
Mpy32(s, a) == Paren(Wide(s, a[1]) \o Op("*") \o Wide(s, a[2]))
ExpandItem(it) ==
    LET a == [j \in DOMAIN it.a |-> Expand(it.a[j])]
    IN  CASE it.k = "id" /\ it.v \in DOMAIN Identifiers -> Identifiers[it.v]
          [] it.k = "call" /\ it.v \in DOMAIN Renamed   -> Call(Renamed[it.v], a)
          [] it.v \in {"fECHO", "fFRAME_UNSCRAMBLE"}    -> a[1]
          [] it.v = "fLSBOLDNOT" -> Un("!") \o Call("fLSBOLD", a)
          [] it.v = "fLSBNEWNOT" -> Un("!") \o Call("fLSBNEW", a)
          [] it.v = "fZXTN"      -> Zxtn(a[1], a[3])
          [] it.v = "fSXTN"      -> Sxtn(a[1], a[3])
          [] it.v = "fSE32_64"   -> Wide("s", a[1])
          [] it.v = "fZE32_64"   -> Wide("u", a[1])
          [] it.v = "fMPY32SS"   -> Mpy32("s", a)
          [] it.v = "fMPY32UU"   -> Mpy32("u", a)
          [] it.v = "fASHIFTL"   -> Shift("s", "<<", a)
          [] it.v = "fASHIFTR"   -> Shift("s", ">>", a)
          [] it.v = "fLSHIFTR"   -> Shift("u", ">>", a)
          [] it.v = "fROTL"      -> Paren(Call("fROTL", SubSeq(a, 1, 2)))
          [] OTHER -> <<[it EXCEPT !.a = a]>>
Expand(c) == IF c = << >> THEN << >> ELSE ExpandItem(Head(c)) \o Expand(Tail(c))

\* Macros that stand for statements; those that do nothing go away.
Removed == {"fBRANCH_SPECULATE_STALL", "fHIDE", "CANCEL", "LOAD_CANCEL", "STORE_CANCEL",
            "fFRAMECHECK", "fPAUSE"}
Indexed == [fWRITE_LC0 |-> <<"fWRITE_LC", 0>>, fWRITE_LC1 |-> <<"fWRITE_LC", 1>>,
            fWRITE_LOOP_REGS0 |-> <<"fWRITE_LOOP_REGS", 0>>,
            fWRITE_LOOP_REGS1 |-> <<"fWRITE_LOOP_REGS", 1>>]
ExpandCall(v, e) ==
    LET scaled == e[1] \o Op("+") \o Paren(e[2] \o Op("<<") \o e[3])
    IN  CASE v \in Removed -> << >>
          [] v = "fMUST_IMMEXT" -> CallStmt("fIMMEXT", e)
          [] v = "fCALL"   -> CallStmt("fBRANCH", <<e[1], Id("COF_TYPE_CALL")>>)
          [] v = "fCALLR"  -> CallStmt("fBRANCH", <<e[1], Id("COF_TYPE_CALLR")>>)
          [] v = "fEA_RI"  -> Assg("EA", e[1] \o Op("+") \o e[2])
          [] v \in {"fEA_RRs", "fEA_IRs"} -> Assg("EA", scaled)
          [] v \in {"fEA_IMM", "fEA_REG"} -> Assg("EA", Paren(e[1]))
          [] v = "fEA_GPI" -> Assg("EA", Paren(Call("fREAD_GP", << >>) \o Op("+") \o Paren(e[1])))
          [] v \in {"fPM_I", "fPM_M"} -> Assg(e[1][1].v, e[1] \o Op("+") \o Paren(e[2]))
          [] v = "fLOAD_LOCKED" -> CallStmt("fLOAD", e)
          [] v \in DOMAIN Indexed -> CallStmt(Indexed[v][1], <<Num(Indexed[v][2])>> \o e)
          [] OTHER -> CallStmt(v, e)
RECURSIVE ExpandStmts(_)
ExpandStmts(stmts) ==
    IF stmts = << >> THEN << >>
    ELSE LET s == Head(stmts)
             e == [j \in DOMAIN s.e |-> Expand(s.e[j])]
         IN  (IF s.k = "call" THEN ExpandCall(s.v, e)
              ELSE <<[s EXCEPT !.e = e, !.b = [j \in DOMAIN @ |-> ExpandStmts(@[j])]]>>)
             \o ExpandStmts(Tail(stmts))

\* The compare part of a compound compare-and-jump comes first, the rest without it last.
preprocess_semantics(insn) ==
    (IF "A_NEWCMPJUMP" \in insn.attribs THEN <<ExpandStmts(Part1(insn.sem))>> ELSE << >>)
    \o <<ExpandStmts(Rest(insn.sem))>>

-----------------------------------------------------------------------------
\* The ids that make a register a pair; the ids xx and yy do not.
PairRegex == {"dd", "ss", "tt", "uu", "vv"}
TempReg   == [EA |-> "EA_REG", REG_LR |-> "HEX_REG_LR", tmp |-> "TMP_REG", width |-> "WIDTH_REG",
              offset |-> "OFFSET_REG", shamt |-> "SHAMT_REG"]
Imms      == {i \o "iV" : i \in {"r", "R", "s", "S", "u", "U", "m"}}
\* Deliberately wrong variant: a predicate is a word.
lift_operand_word(t) ==
    IF t.k = "int" THEN IlConst(4, t.n) ELSE IF t.v \in Imms THEN IlImm(4, t.v)
    ELSE IF t.v \in DOMAIN TempReg THEN IlRegister(IF t.v \in Temps THEN 8 ELSE 4, TempReg[t.v])
    ELSE IlRegister(IF \E id \in PairRegex, r \in {"R", "C"} : t.v = r \o id \o "V" THEN 8 ELSE 4, t.v)
lift_operand(t) ==
    CASE t.k = "int"  -> IlConst(4, t.n)
      [] t.v \in Imms -> IlImm(4, t.v)
      [] t.v \in DOMAIN TempReg -> IlRegister(IF t.v \in Temps THEN 8 ELSE 4, TempReg[t.v])
      [] IsPred(t.v)  -> IlRegister(1, t.v)
      [] OTHER -> IlRegister(IF \E id \in PairRegex, r \in {"R", "C"} : t.v = r \o id \o "V"
                             THEN 8 ELSE 4, t.v)

As(x, signed) == [x EXCEPT !.signed = signed]
Extend(size, signed, x) == IF signed THEN IlSignExtend(size, x) ELSE IlZeroExtend(size, x)
ShiftRight(signed, size, a, b) ==
    IF signed THEN IlArithShiftRight(size, a, b) ELSE IlLogicalShiftRight(size, a, b)
\* fCAST4s, fCAST4u, fCAST8s, fCAST8u.
CastTo(size, signed, x) ==
    CASE x.size > size -> IlLowPart(size, As(x, signed))
      [] x.size = size -> As(x, signed)
      [] x.size < size -> Extend(size, signed, x)
\* The nth byte, half or word; all but a byte is extended to the size it is taken from.
Piece(size, signed, n, src) ==
    IlLowPart(size, IF n = 0 THEN As(src, signed)
                    ELSE ShiftRight(signed, src.size, As(src, signed), IlConst(1, n * Bits(size))))
Get(size, signed, n, src) == Extend(src.size, signed, Piece(size, signed, n, src))
\* fSETHALF, fSETWORD.
SetPiece(size, n, dst, val) ==
    LET ones == IlConst(4, 2^Bits(size) - 1)
        at   == IlConst(1, n * Bits(size))
        old  == IlAnd(dst.size, dst, IlNot(dst.size, IlShiftLeft(dst.size, ones, at)))
        new  == IlShiftLeft(dst.size, IlAnd(dst.size, val, ones), at)
    IN  <<IlSetRegister(dst.size, dst.reg, IlOr(dst.size, old, new))>>

\* IL has no conditional expression: a*(a >= b) + b*(a < b).
Choose2(a, b, first, second) ==
    IlAdd(a.size, IlMult(a.size, IlBoolToInt(a.size, first), a),
                  IlMult(a.size, IlBoolToInt(a.size, second), b))
fMAX(a, b) ==
    IF a.signed THEN Choose2(a, b, IlCompareSignedGreaterEqual(a.size, a, b),
                                   IlCompareSignedLessThan(a.size, a, b))
    ELSE Choose2(a, b, IlCompareUnsignedGreaterEqual(a.size, a, b),
                       IlCompareUnsignedLessThan(a.size, a, b))
fMIN(a, b) ==
    IF a.signed THEN Choose2(a, b, IlCompareSignedLessEqual(a.size, a, b),
                                   IlCompareSignedGreaterThan(a.size, a, b))
    ELSE Choose2(a, b, IlCompareUnsignedLessEqual(a.size, a, b),
                       IlCompareUnsignedGreaterThan(a.size, a, b))
\* (1 - 2*(a < 0)) * a
fABS(a) ==
    LET c(n) == IlConst(a.size, n)
    IN  IF ~a.signed THEN a
        ELSE IlMult(a.size, IlSub(a.size, c(1),
                 IlMult(a.size, c(2), IlBoolToInt(a.size, IlCompareSignedLessThan(a.size, a, c(0))))), a)
fBYTESWAP(x) ==
    LET byte(n) == IlAnd(x.size, x, IlConst(4, (2^Bits(1) - 1) * 2^Bits(n)))
        up(n, k)   == IlShiftLeft(x.size, byte(n), IlConst(1, Bits(k)))
        down(n, k) == IlLogicalShiftRight(x.size, byte(n), IlConst(1, Bits(k)))
    IN  IlOr(x.size, up(0, 3), IlOr(x.size, up(1, 1), IlOr(x.size, down(2, 1), down(3, 3))))
fLSBNEW(x) ==
    LET p == IF x.il = "Const" /\ x.n \in {0, 1} THEN IlRegister(1, IF x.n = 0 THEN "Pd0" ELSE "Pd1")
             ELSE x
    IN  IlAnd(p.size, p, IlConst(1, 1))

\* Predicate registers hold booleans, so the value that would be spread over all bits has
\* to be one.
Fails == IlExprId("assert", 0, TRUE, << >>)
IsBool(x)   == x.il \in CompareExprs \/ (x.il = "And" /\ x.args[2] = IlConst(4, 1))
f8BITSOF(x) == IF IsBool(x) THEN x ELSE Fails

\* expr_binop and expr_relop: the size and the signedness are those of the first operand.
RelopOf(v, signed, size, a, b) ==
    CASE v = "==" -> IlCompareEqual(size, a, b)
      [] v = "!=" -> IlCompareNotEqual(size, a, b)
      [] v = "<"  -> IF signed THEN IlCompareSignedLessThan(size, a, b)
                     ELSE IlCompareUnsignedLessThan(size, a, b)
      [] v = "<=" -> IF signed THEN IlCompareSignedLessEqual(size, a, b)
                     ELSE IlCompareUnsignedLessEqual(size, a, b)
      [] v = ">"  -> IF signed THEN IlCompareSignedGreaterThan(size, a, b)
                     ELSE IlCompareUnsignedGreaterThan(size, a, b)
      [] v = ">=" -> IF signed THEN IlCompareSignedGreaterEqual(size, a, b)
                     ELSE IlCompareUnsignedGreaterEqual(size, a, b)
expr_relop(v, a, b) == RelopOf(v, a.signed, a.size, a, b)
expr_binop(v, a, b) ==
    CASE v = "+"  -> IlAdd(a.size, a, b)
      [] v = "-"  -> IlSub(a.size, a, b)
      [] v = "*"  -> IlMult(a.size, a, b)
      [] v = "|"  -> IlOr(a.size, a, b)
      [] v = "&"  -> IlAnd(a.size, a, b)
      [] v = "^"  -> IlXor(a.size, a, b)
      [] v = "<<" -> IlShiftLeft(a.size, a, b)
      [] v = ">>" -> ShiftRight(a.signed, a.size, a, b)

macro_expr_fROTL(x, shamt)  == IlRotateLeft(x.size, x, shamt)
macro_expr_fFRAME_SCRAMBLE  == IlRegisterSplit(4, "HEX_REG_LR", "HEX_REG_FP")
ReadOf == [fREAD_LR |-> IlRegister(4, "HEX_REG_LR"), fREAD_FP |-> IlRegister(4, "HEX_REG_FP"),
           fREAD_SP |-> IlRegister(4, "HEX_REG_SP"), fREAD_P0 |-> IlRegister(1, "Pd0"),
           fREAD_LPCFG |-> IlRegister(1, "HEX_REG_USR_LPCFG"),
           fREAD_PC |-> IlConstPointer(4, "pc"), fREAD_GP |-> IlReadGP(4)]
Numbered(reg, n) == IlRegister(4, "HEX_REG_" \o reg \o (IF n = 0 THEN "0" ELSE "1"))
call_expr(v, t, a) ==
    CASE v = "fCAST4s" -> CastTo(4, TRUE, a[1])
      [] v = "fCAST4u" -> CastTo(4, FALSE, a[1])
      [] v = "fCAST8s" -> CastTo(8, TRUE, a[1])
      [] v = "fCAST8u" -> CastTo(8, FALSE, a[1])
      [] v = "fGETBYTE"  -> Piece(1, TRUE, t[1].n, a[2])
      [] v = "fGETUBYTE" -> Piece(1, FALSE, t[1].n, a[2])
      [] v = "fGETHALF"  -> Get(2, TRUE, t[1].n, a[2])
      [] v = "fGETUHALF" -> Get(2, FALSE, t[1].n, a[2])
      [] v = "fGETWORD"  -> Get(4, TRUE, t[1].n, a[2])
      [] v = "fGETUWORD" -> Get(4, FALSE, t[1].n, a[2])
      [] v = "fROTL"     -> macro_expr_fROTL(a[1], a[2])
      [] v = "fMAX"      -> fMAX(a[1], a[2])
      [] v = "fMIN"      -> fMIN(a[1], a[2])
      [] v = "fABS"      -> fABS(a[1])
      [] v = "fBYTESWAP" -> fBYTESWAP(a[1])
      [] v = "f8BITSOF"  -> f8BITSOF(a[1])
      [] v = "fLSBNEW"   -> fLSBNEW(a[1])
      [] v \in {"fLSBOLD", "fNEWREG", "fNEWREG_ST", "fIMMEXT"} -> a[1]
      [] v = "fFRAME_SCRAMBLE" -> macro_expr_fFRAME_SCRAMBLE
      [] v = "fREAD_LC"  -> Numbered("LC", t[1].n)
      [] v = "fREAD_SA"  -> Numbered("SA", t[1].n)
      [] OTHER -> ReadOf[v]

RECURSIVE Lift(_)
Lift(t) ==
    LET a == [j \in DOMAIN t.a |-> Lift(t.a[j])]
    IN  CASE t.k \in {"id", "int"} -> lift_operand(t)
          [] t.k = "call"          -> call_expr(t.v, t.a, a)
          [] t.k = "un"            -> IF t.v = "-" THEN IlNeg(a[1].size, a[1])
                                      ELSE IlNot(a[1].size, a[1])
          [] t.k = "op"            -> IF t.v \in {"<", "<=", ">", ">=", "==", "!="}
                                      THEN expr_relop(t.v, a[1], a[2])
                                      ELSE expr_binop(t.v, a[1], a[2])

\* Statements.
assg(lvalue, rvalue) == <<IlSetRegister(lvalue.size, lvalue.reg, rvalue)>>
assg_binop_stmt(lvalue, op, rvalue) == assg(lvalue, expr_binop(op, lvalue, rvalue))
\* IlBranch instructions are left to the end of the packet and not written here.
macro_stmt_fBRANCH(loc, typ, attribs) ==
    (IF "A_BN_COND_J" \in attribs
     THEN <<IlSetRegister(1, "BRANCH_TAKEN_ARRAY", IlConst(1, 1))>> ELSE << >>)
    \o (IF typ \in {"COF_TYPE_JUMPR", "COF_TYPE_CALLR", "COF_TYPE_LOOPEND0", "COF_TYPE_LOOPEND1"}
        THEN <<IlSetRegister(4, "BRANCHR_DEST_ARRAY", loc)>> ELSE << >>)
    \o (CASE typ \in {"COF_TYPE_CALL", "COF_TYPE_CALLR"} -> <<IlCall(loc)>>
          [] typ = "COF_TYPE_RETURN" -> <<IlReturn(loc)>>
          [] OTHER -> <<IlJump(loc)>>)
macro_stmt_fJUMPR(regno, loc, typ, attribs) ==
    macro_stmt_fBRANCH(loc, IF regno = "REG_LR" THEN "COF_TYPE_RETURN" ELSE typ, attribs)
macro_stmt_fLOAD(size, sign, ea, dst) ==
    LET val == IlLoad(size, ea)
    IN  assg(dst, IF size < dst.size THEN Extend(dst.size, sign = "s", val) ELSE val)
WriteTo == [fWRITE_FP |-> IlRegister(4, "HEX_REG_FP"), fWRITE_LR |-> IlRegister(4, "HEX_REG_LR"),
            fWRITE_SP |-> IlRegister(4, "HEX_REG_SP"), fWRITE_P0 |-> IlRegister(1, "Pd0"),
            fWRITE_P1 |-> IlRegister(1, "Pd1"), fWRITE_P2 |-> IlRegister(1, "Pd2"),
            fWRITE_P3 |-> IlRegister(1, "Pd3"), fSET_LPCFG |-> IlRegister(1, "HEX_REG_USR_LPCFG")]
macro_stmt_fPCALIGN(imm) == <<RawAlign(imm)>>
macro_stmt_fTRAP  == <<IlSystemCall>>
macro_stmt_fBREAK == <<IlBreakpoint>>
macro_stmt_fSTORE(size, ea, src) == <<IlStore(size, ea, src)>>
\* It always succeeds.
macro_stmt_fSTORE_LOCKED(size, ea, src, pred) ==
    macro_stmt_fSTORE(size, ea, src) \o assg(pred, IlConst(1, 1))
macro_stmt_fWRITE_LC(n, val) == assg(Numbered("LC", n), val)
macro_stmt_fWRITE_LOOP_REGS(n, begin, count) ==
    macro_stmt_fWRITE_LC(n, count) \o assg(Numbered("SA", n), begin)
\* A statement from its arguments, as trees and lifted.
stmt_of_args(v, t, x, attribs) ==
    CASE v = "fIMMEXT"  -> << >>
        [] v = "fPCALIGN" -> macro_stmt_fPCALIGN(t[1].v)
        [] v = "fBRANCH"  -> macro_stmt_fBRANCH(x[1], t[2].v, attribs)
        [] v = "fJUMPR"   -> macro_stmt_fJUMPR(t[1].v, x[2], t[3].v, attribs)
        [] v = "fTRAP"    -> macro_stmt_fTRAP
        [] v = "fBREAK"   -> macro_stmt_fBREAK
        [] v = "fSTORE"   -> macro_stmt_fSTORE(t[2].n, x[3], x[4])
        [] v = "fSTORE_LOCKED" -> macro_stmt_fSTORE_LOCKED(t[2].n, x[3], x[4], x[5])
        [] v = "fLOAD"    -> macro_stmt_fLOAD(t[2].n, t[3].v, x[4], x[5])
        [] v = "fWRITE_LOOP_REGS" -> macro_stmt_fWRITE_LOOP_REGS(t[1].n, x[2], x[3])
        [] v = "fWRITE_LC" -> macro_stmt_fWRITE_LC(t[1].n, x[2])
        [] v = "fSETHALF" -> SetPiece(2, t[1].n, x[2], x[3])
        [] v = "fSETWORD" -> SetPiece(4, t[1].n, x[2], x[3])
        [] OTHER -> assg(WriteTo[v], x[1])
call_stmt(v, e, attribs) ==
    stmt_of_args(v, [j \in DOMAIN e |-> Parse(e[j])], [j \in DOMAIN e |-> Lift(Parse(e[j]))], attribs)

\* The labels are those of a block of C++; a branch without else goes on at done.
if_blocks(cond, tstmt, fstmt, leave) ==
    IF fstmt # << >>
    THEN <<RawOpen(<<"true_case", "false_case", "done">>), IlIf(cond, "true_case", "false_case"),
           IlLabel("true_case")>> \o tstmt \o leave \o <<IlLabel("false_case")>>
         \o fstmt \o <<IlLabel("done"), RawClose>>
    ELSE <<RawOpen(<<"true_case", "done">>), IlIf(cond, "true_case", "done"), IlLabel("true_case")>>
         \o tstmt \o <<IlLabel("done"), RawClose>>
\* Deliberately wrong variants: the first branch falls through into the second, or repeats.
if_stmt_falls_through(cond, tstmt, fstmt) == if_blocks(cond, tstmt, fstmt, << >>)
if_stmt_repeats(cond, tstmt, fstmt) == if_blocks(cond, tstmt, fstmt, <<IlGoto("true_case")>>)
if_stmt(cond, tstmt, fstmt) == if_blocks(cond, tstmt, fstmt, <<IlGoto("done")>>)

RECURSIVE process_semantics(_, _)
process_semantics(stmts, attribs) ==
    IF stmts = << >> THEN << >>
    ELSE LET s == Head(stmts)
             r == Lift(Parse(s.e[1]))
             l == Lift(Id(s.v)[1])
             nested(j) == process_semantics(s.b[j], attribs)
         IN  (CASE s.k = "assg"   -> assg(l, r)
                [] s.k = "assgop" -> assg_binop_stmt(l, s.op, r)
                [] s.k \in {"if", "ternary"} -> if_stmt(r, nested(1), nested(2))
                [] s.k = "call"   -> call_stmt(s.v, s.e, attribs))
             \o process_semantics(Tail(stmts), attribs)

-----------------------------------------------------------------------------
\* genptr_decl, genptr_decl_new: what a register operand is declared to be.
\* Deliberately wrong variant: a new value has the name of an old one.
RegName_old(r) == r.t \o r.id \o "V"
RegName(r) == r.t \o r.id \o (IF r.new THEN "N" ELSE "V")
genptr_decl(r) ==
    CASE r.id \in {"ss", "tt"} /\ r.t \in {"R", "C"} -> "source pair"
      [] r.id \in {"dd", "ee"} /\ r.t \in {"R", "C"} -> "write-only pair"
      [] r.id \in {"xx", "yy"} /\ r.t = "R"          -> "read-write pair"
      [] r.id \in {"s", "t", "u", "v"} /\ r.t \in {"R", "C", "P"} -> "source"
      [] r.id \in {"d", "e"} /\ r.t \in {"R", "C", "P"}           -> "write-only"
      [] r.id \in {"x", "y"} /\ r.t \in {"R", "P"}               -> "read-write"
genptr_decl_new(r) ==
    CASE r.t = "N" /\ r.id \in {"s", "t"}      -> "new"
      [] r.t = "P" /\ r.id \in {"t", "u", "v"} -> "new"
genptr_decl_opn(r) == [name |-> RegName(r), mode |-> IF r.new THEN genptr_decl_new(r) ELSE genptr_decl(r)]

\* The predicates that the text names by number, and the names that .new predicates have.
RECURSIVE PredsIn(_), PredsOf(_)
PredsIn(c) ==      \* in an expression
    IF c = << >> THEN << >>
    ELSE LET it == Head(c)
         IN  (CASE it.k = "call" /\ it.v = "fLSBNEW" -> <<Parse(it.a[1])>>
                [] it.k = "call" /\ it.v = "fREAD_P0" -> <<Num(0)[1]>>
                [] OTHER -> FlattenSeq([j \in DOMAIN it.a |-> PredsIn(it.a[j])]))
             \o PredsIn(Tail(c))
PredsOf(stmts) ==  \* in statements
    IF stmts = << >> THEN << >>
    ELSE LET s == Head(stmts)
             n == CHOOSE k \in 0 .. 3 : WriteTo[s.v].reg = <<"Pd0", "Pd1", "Pd2", "Pd3">>[k + 1]
         IN  (IF s.v \in {"fWRITE_P0", "fWRITE_P1", "fWRITE_P2", "fWRITE_P3"} THEN <<Num(n)[1]>>
              ELSE FlattenSeq([j \in DOMAIN s.e |-> PredsIn(s.e[j])])
                   \o FlattenSeq([j \in DOMAIN s.b |-> PredsOf(s.b[j])]))
             \o PredsOf(Tail(stmts))
\* The texts of a part are put together first: a part with two of them declares none.
genptr_decl_fixed_pred(parts) ==
    LET Named(j) == LET p == PredsOf(parts[j])
                    IN  IF Len(p) = 1 /\ p[1].k = "int" THEN {p[1].n} ELSE {}
    IN  {<<"Pd0", "Pd1", "Pd2", "Pd3">>[n + 1] : n \in UNION {Named(j) : j \in DOMAIN parts}}

\* The declarations and the program of each part.
gen_il_func(insn) ==
    LET parts == preprocess_semantics(insn)
        written(prog) == SelectSeq(prog, LAMBDA x : x.il \notin {"Jump", "Call", "Return"})
    IN  [decls |-> {genptr_decl_opn(insn.regs[j]) : j \in DOMAIN insn.regs}
                   \cup {[name |-> p, mode |-> "read-write"] : p \in genptr_decl_fixed_pred(parts)},
         parts |-> [j \in DOMAIN parts |-> written(process_semantics(parts[j], insn.attribs))]]
=============================================================================
