--------------------------------- MODULE Idef ---------------------------------
(***************************************************************************)
(* The language in which the .idef files give an instruction its meaning:  *)
(* statements, and expressions that are still sequences of operands and    *)
(* operators; how gen_il_funcs.py parses them (semantics_grammar); and, to *)
(* compare with, what they mean as C.                                      *)
(***************************************************************************)
EXTENDS Il

\* Items of an expression.  `a` holds the arguments of a macro, or the expression in
\* parentheses, again as sequences of items.
Item(k, v, n, a) == [k |-> k, v |-> v, n |-> n, a |-> a]
Id(v)      == <<Item("id", v, 0, << >>)>>
Num(n)     == <<Item("int", "", n, << >>)>>
Op(v)      == <<Item("op", v, 0, << >>)>>
Un(v)      == <<Item("un", v, 0, << >>)>>
Paren(c)   == <<Item("paren", "", 0, <<c>>)>>
Call(v, a) == <<Item("call", v, 0, a)>>

\* Statements: `e` the expressions, `b` the nested statements.
Stmt(k, v, op, e, b)  == [k |-> k, v |-> v, op |-> op, e |-> e, b |-> b]
Assg(v, c)            == <<Stmt("assg", v, "=", <<c>>, << >>)>>
AssgOp(v, op, c)      == <<Stmt("assgop", v, op, <<c>>, << >>)>>
CallStmt(v, a)        == <<Stmt("call", v, "", a, << >>)>>
IfElse(c, t, f)       == <<Stmt("if", "", "", <<c>>, <<t, f>>)>>
Ternary(c, t, f)      == <<Stmt("ternary", "", "", <<c>>, <<t, f>>)>>

-----------------------------------------------------------------------------
\* The grammar gives no operator a precedence: the parser shifts wherever it could reduce,
\* so that an operator, unary or binary, takes all that follows it.  C would rather split
\* at the last of the operators that bind least.
Binding == [op \in {"*", "+", "-", "<<", ">>", "<", "<=", ">", ">=", "==", "!=", "&", "^", "|"} |->
              CASE op = "*" -> 8 [] op \in {"+", "-"} -> 7 [] op \in {"<<", ">>"} -> 6
                [] op \in {"<", "<=", ">", ">="} -> 5 [] op \in {"==", "!="} -> 4
                [] op = "&" -> 3 [] op = "^" -> 2 [] op = "|" -> 1]
OpsOf(c)     == {i \in DOMAIN c : c[i].k = "op"}
FirstOf(c)   == CHOOSE i \in OpsOf(c) : \A j \in OpsOf(c) : i <= j
LoosestOf(c) == CHOOSE i \in OpsOf(c) : \A j \in OpsOf(c) :
                   \/ Binding[c[i].v] < Binding[c[j].v]
                   \/ Binding[c[i].v] = Binding[c[j].v] /\ j <= i

RECURSIVE TreeOf(_, _)
TreeOf(c, asC) ==
    LET i    == IF asC THEN LoosestOf(c) ELSE FirstOf(c)
        head == c[1]
    IN  CASE head.k = "un" /\ (asC => OpsOf(c) = {}) ->
               Item("un", head.v, 0, <<TreeOf(Tail(c), asC)>>)
          [] OpsOf(c) # {} /\ (head.k = "un" => asC) ->
               Item("op", c[i].v, 0, <<TreeOf(SubSeq(c, 1, i - 1), asC),
                                       TreeOf(SubSeq(c, i + 1, Len(c)), asC)>>)
          [] OTHER ->
               IF head.k = "paren" THEN TreeOf(head.a[1], asC)
               ELSE [head EXCEPT !.a = [j \in DOMAIN @ |-> TreeOf(@[j], asC)]]
Parse(c)  == TreeOf(c, FALSE)
ParseC(c) == TreeOf(c, TRUE)

-----------------------------------------------------------------------------
\* What the names stand for.  Predicate registers are bytes, pairs are double words.
PairIds   == {"dd", "ss", "tt", "uu", "vv", "xx", "yy"}
FixedPred == {"Pd0", "Pd1", "Pd2", "Pd3"}
IsPred(v) == v \in FixedPred \/ \E id \in {"d", "e", "s", "t", "u", "v", "x"}, s \in {"V", "N"} : v = "P" \o id \o s
IsPair(v) == \E id \in PairIds, t \in {"R", "C"} : v = t \o id \o "V"
Temps     == {"tmp", "width", "offset", "shamt"}
CSize(v)  == IF IsPred(v) THEN 1 ELSE IF IsPair(v) \/ v \in Temps THEN 8 ELSE 4

\* Values of C: a number of a size, unsigned or not.
Val(v, size, u)  == [v |-> IF u THEN Cut(v, size) ELSE SignedOf(v, size), size |-> size, u |-> u]
Promote(x)       == IF x.size < 4 THEN Val(x.v, 4, FALSE) ELSE x
Arith(v, x, y)   == LET size == IF x.size > y.size THEN x.size ELSE y.size
                    IN  Val(v, size, (x.u /\ x.size = size) \/ (y.u /\ y.size = size))
CTruth(b)        == Val(BoolOf(b), 4, FALSE)
\* Of promoted operands, and of operands of one type.
CShift(op, x, y) ==
    Val(IF op = "<<" THEN Shl(Cut(x.v, x.size), y.v, x.size) ELSE Shr(x.v, y.v), x.size, x.u)
CCompare(op, l, r) ==
    CTruth(CASE op = "==" -> l = r [] op = "!=" -> l # r [] op = "<" -> l < r
             [] op = "<=" -> l <= r [] op = ">" -> l > r [] op = ">=" -> l >= r)
CBits(op, l, r) == CASE op = "&" -> l & r [] op = "|" -> l | r [] op = "^" -> l ^^ r
CArith(op, l, r) ==
    Val(CASE op = "+" -> l.v + r.v [] op = "-" -> l.v - r.v [] op = "*" -> l.v * r.v
          [] op \in {"&", "|", "^"} -> CBits(op, Cut(l.v, l.size), Cut(r.v, r.size)), l.size, l.u)
COperate(op, l, r) ==
    IF Binding[op] \in {4, 5} THEN CCompare(op, l.v, r.v) ELSE CArith(op, l, r)
CPromoted(op, x, y) ==
    IF op \in {"<<", ">>"} THEN CShift(op, x, y)
    ELSE COperate(op, Arith(x.v, x, y), Arith(y.v, x, y))
CBinary(op, p, q) == CPromoted(op, Promote(p), Promote(q))
CUnary(op, x) ==
    CASE op = "!" -> CTruth(x.v = 0)
      [] op = "-" -> Val(-Promote(x).v, Promote(x).size, x.u)
      [] op = "~" -> Val(-1 - Promote(x).v, Promote(x).size, x.u)

\* What a predicate register holds that is true.
AllOnes == 2^Bits(1) - 1

\* Field n, of the given size, of a value.
Field(n, x, size) == Cut(x.v, x.size) \div 2^(n * Bits(size))
Byte(n, x)           == Field(n, x, 1) % 2^Bits(1)
SetField(n, old, v, size) ==
    LET k == n * Bits(size)
    IN  (old - ((old \div 2^k) % 2^Bits(size)) * 2^k) + Cut(v, size) * 2^k

\* The macros that are values, as macros.def defines them: the key that frames are scrambled
\* with is 0, and fBYTESWAP, which it lacks, is what A2_swiz does in shift.idef.
RegisterOf == [fREAD_PC |-> "pc", fREAD_LR |-> "HEX_REG_LR", fREAD_FP |-> "HEX_REG_FP",
               fREAD_SP |-> "HEX_REG_SP", fREAD_LC0 |-> "HEX_REG_LC0", fREAD_LC1 |-> "HEX_REG_LC1",
               fREAD_SA0 |-> "HEX_REG_SA0", fREAD_SA1 |-> "HEX_REG_SA1"]
FlagOf     == [fREAD_P0 |-> "Pd0", fLSBNEW0 |-> "Pd0", fLSBNEW1 |-> "Pd1",
               fGET_LPCFG |-> "HEX_REG_USR_LPCFG"]
CMacro(v, a, env) ==
    LET x == a[1]
        y == a[2]
        pick(take) == IF take THEN x ELSE y
        shift(by)  == Val(by, IF a[3].v = "8_8" THEN 8 ELSE 4, FALSE)
        larger     == CBinary(">", x, y).v = 1
        smaller    == CBinary("<", x, y).v = 1
    IN  CASE v \in {"fCAST4s", "fCAST4_4s"} -> Val(x.v, 4, FALSE)
          [] v \in {"fCAST4u", "fCAST4_4u"} -> Val(x.v, 4, TRUE)
          [] v \in {"fCAST8s", "fCAST8_8s", "fCONSTLL"} -> Val(x.v, 8, FALSE)
          [] v \in {"fCAST8u", "fCAST8_8u"} -> Val(x.v, 8, TRUE)
          [] v = "fSE32_64" -> Val(SignedOf(x.v, 4), 8, FALSE)
          [] v = "fZE32_64" -> Val(Cut(x.v, 4), 8, TRUE)
          [] v = "fMPY32SS" -> Val(SignedOf(x.v, 4) * SignedOf(y.v, 4), 8, FALSE)
          [] v = "fMPY32UU" -> Val(Cut(x.v, 4) * Cut(y.v, 4), 8, TRUE)
          [] v = "fGETBYTE"  -> Val(SignedOf(Field(x.v, y, 1), 1), 4, FALSE)
          [] v = "fGETUBYTE" -> Val(Cut(Field(x.v, y, 1), 1), 4, FALSE)
          [] v = "fGETHALF"  -> Val(SignedOf(Field(x.v, y, 2), 2), 4, FALSE)
          [] v = "fGETUHALF" -> Val(Cut(Field(x.v, y, 2), 2), 4, FALSE)
          [] v = "fGETWORD"  -> Val(SignedOf(Field(x.v, y, 4), 4), 8, FALSE)
          [] v = "fGETUWORD" -> Val(Cut(Field(x.v, y, 4), 4), 8, TRUE)
          [] v = "fZXTN"     -> Val(a[3].v % 2^x.v, 8, FALSE)
          [] v = "fSXTN"     -> IF x.v = 0 THEN Val(0, 8, FALSE)
                                ELSE LET u == a[3].v % 2^x.v
                                     IN  Val(IF u >= 2^(x.v - 1) THEN u - 2^x.v ELSE u, 8, FALSE)
          [] v = "fASHIFTL"  -> LET w == shift(x.v) IN Val(Shl(Cut(w.v, w.size), y.v, w.size), w.size, FALSE)
          [] v = "fASHIFTR"  -> LET w == shift(x.v) IN Val(Shr(w.v, y.v), w.size, FALSE)
          [] v = "fLSHIFTR"  -> LET w == shift(x.v) IN Val(Shr(Cut(w.v, w.size), y.v), w.size, TRUE)
          [] v = "fROTL"     -> LET w == shift(x.v) IN Val(Rotl(w.v, y.v, w.size), w.size, TRUE)
          [] v \in {"fMAX", "fMIN"} -> LET p == pick(IF v = "fMAX" THEN larger ELSE smaller)
                                       IN  Arith(p.v, x, y)
          [] v = "fABS"      -> Val(IF x.v < 0 THEN -x.v ELSE x.v, x.size, x.u)
          [] v = "fBYTESWAP" -> Val(Byte(3, x) + 2^Bits(1) * (Byte(2, x) + 2^Bits(1) * (Byte(1, x)
                                    + 2^Bits(1) * Byte(0, x))), 4, FALSE)
          [] v = "f8BITSOF"  -> Val(IF x.v # 0 THEN AllOnes ELSE 0, 1, TRUE)
          [] v \in {"fLSBOLD", "fLSBNEW"} -> Val(x.v % 2, 4, FALSE)
          [] v \in {"fLSBOLDNOT", "fLSBNEWNOT"} -> CTruth(x.v % 2 = 0)
          [] v \in {"fLSBNEW0NOT", "fLSBNEW1NOT"} ->
               CTruth(env.r[IF v = "fLSBNEW0NOT" THEN "Pd0" ELSE "Pd1"] % 2 = 0)
          [] v = "fREAD_GP"  -> Val(IF env.extended THEN 0 ELSE env.r["HEX_REG_GP"], 4, FALSE)
          [] v \in DOMAIN RegisterOf -> Val(env.r[RegisterOf[v]], 4, FALSE)
          [] v \in DOMAIN FlagOf     -> Val(env.r[FlagOf[v]], 1, TRUE)
          [] OTHER -> x   \* fIMMEXT, fNEWREG, fNEWREG_ST, fECHO, fFRAME_(UN)SCRAMBLE

\* A bare name is a macro without arguments, a register, an immediate or a temporary.
MacroNames == {"fLSBNEW0", "fLSBNEW1", "fLSBNEW0NOT", "fLSBNEW1NOT", "fGET_LPCFG",
               "fREAD_SA0", "fREAD_SA1", "fREAD_LC0", "fREAD_LC1"}
RECURSIVE CValue(_, _)
CValue(t, env) ==
    CASE t.k = "int" -> Val(t.n, 4, t.n >= 2^(Bits(4) - 1))
      [] t.k = "op"  -> CBinary(t.v, CValue(t.a[1], env), CValue(t.a[2], env))
      [] t.k = "un"  -> CUnary(t.v, CValue(t.a[1], env))
      [] t.k = "call" -> CMacro(t.v, [j \in DOMAIN t.a |-> CValue(t.a[j], env)], env)
      [] t.k = "id" /\ t.v \in MacroNames -> CMacro(t.v, << >>, env)
      [] t.k = "id" /\ t.v \notin DOMAIN env.r -> [v |-> t.v, size |-> 0, u |-> FALSE]  \* 4_4
      [] OTHER -> Val(env.r[t.v], CSize(t.v), IsPred(t.v) \/ t.v = "EA")

\* Statements.  env.next is where a branch goes, -1 when there is none, and env.event the
\* exception that was raised.
NoOps == {"fIMMEXT", "fMUST_IMMEXT", "fHIDE", "fFRAMECHECK", "fBRANCH_SPECULATE_STALL",
          "CANCEL", "LOAD_CANCEL", "STORE_CANCEL", "fPAUSE"}
WritesTo == [fWRITE_FP |-> "HEX_REG_FP", fWRITE_LR |-> "HEX_REG_LR", fWRITE_SP |-> "HEX_REG_SP",
             fWRITE_LC0 |-> "HEX_REG_LC0", fWRITE_LC1 |-> "HEX_REG_LC1"]
WritesFlag == [fWRITE_P0 |-> "Pd0", fWRITE_P1 |-> "Pd1", fWRITE_P2 |-> "Pd2", fWRITE_P3 |-> "Pd3",
               fSET_LPCFG |-> "HEX_REG_USR_LPCFG"]
CSet(env, reg, v, size) == [env EXCEPT !.r[reg] = Cut(v, size)]
CSetId(env, v, x)       == CSet(env, v, x.v, CSize(v))
CGoto(env, x)           == [env EXCEPT !.next = Cut(x.v, 4)]

\* A statement from its arguments, as they are written and as values.  That a call sets LR
\* is left out: in the lifted code Binary Ninja's call does it, at the end of the packet.
CStmt(v, e, x, env) ==
    LET name(j) == e[j][1].v
        int(j)  == e[j][1].n
        plus(j, k) == CBinary("+", x[j], x[k])
        scaled(j, k, l) == CBinary("+", x[j], CBinary("<<", x[k], x[l]))
        stored == [env EXCEPT !.mem = Write(@, x[3].v, int(2), Cut(x[4].v, 8))]
        loaded == Read(env.mem, x[4].v, int(2))
        field(size) == SetField(int(1), env.r[name(2)], x[3].v, size)
        loop(n) == CSet(CSet(env, "HEX_REG_LC" \o n, x[2].v, 4), "HEX_REG_SA" \o n, x[1].v, 4)
    IN  CASE v \in NoOps    -> env
          [] v = "fPCALIGN" -> CSet(env, name(1), x[1].v - (x[1].v % 4), 4)
          [] v = "fEA_RI"   -> CSetId(env, "EA", plus(1, 2))
          [] v = "fEA_RRs"  -> CSetId(env, "EA", scaled(1, 2, 3))
          [] v = "fEA_IRs"  -> CSetId(env, "EA", scaled(1, 2, 3))
          [] v \in {"fEA_IMM", "fEA_REG"} -> CSetId(env, "EA", x[1])
          [] v = "fEA_GPI"  -> CSetId(env, "EA", CBinary("+", CMacro("fREAD_GP", << >>, env), x[1]))
          [] v \in {"fPM_I", "fPM_M"} -> CSetId(env, name(1), plus(1, 2))
          [] v \in {"fLOAD", "fLOAD_LOCKED"} ->
               CSet(env, name(5), IF name(3) = "s" THEN SignedOf(loaded, int(2)) ELSE loaded,
                    CSize(name(5)))
          [] v = "fSTORE"        -> stored
          [] v = "fSTORE_LOCKED" -> CSet(stored, name(5), AllOnes, 1)
          [] v \in {"fBRANCH", "fCALL", "fCALLR"} -> CGoto(env, x[1])
          [] v = "fJUMPR"        -> CGoto(env, x[2])
          [] v = "fWRITE_LOOP_REGS0" -> loop("0")
          [] v = "fWRITE_LOOP_REGS1" -> loop("1")
          [] v = "fSETHALF" -> CSet(env, name(2), field(2), CSize(name(2)))
          [] v = "fSETWORD" -> CSet(env, name(2), field(4), CSize(name(2)))
          [] v \in {"fTRAP", "fBREAK"} -> [env EXCEPT !.event = v]
          [] v \in DOMAIN WritesTo     -> CSet(env, WritesTo[v], x[1].v, 4)
          [] v \in DOMAIN WritesFlag   -> CSet(env, WritesFlag[v], x[1].v, 1)
CCall(v, e, env) == CStmt(v, e, [j \in DOMAIN e |-> CValue(ParseC(e[j]), env)], env)

RECURSIVE CRun(_, _), CAfter(_, _, _)
CAfter(s, x, env) ==
    CASE s.k = "assg"   -> CSetId(env, s.v, x)
      [] s.k = "assgop" -> CSetId(env, s.v, CBinary(s.op, CValue(Id(s.v)[1], env), x))
      [] s.k \in {"if", "ternary"} -> CRun(s.b[IF x.v # 0 THEN 1 ELSE 2], env)
      [] s.k = "call"   -> CCall(s.v, s.e, env)
CRun(stmts, env) ==
    IF stmts = << >> THEN env
    ELSE CRun(Tail(stmts),
              CAfter(Head(stmts), CValue(ParseC(Head(stmts).e[1]), env), env))

\* fPART1 is what the first half of a compare-and-jump does, and all that it does.
RECURSIVE Part1(_)
Part1(stmts) == IF stmts = << >> THEN << >>
                ELSE (IF Head(stmts).k = "part1" THEN Head(stmts).b[1] ELSE << >>) \o Part1(Tail(stmts))
Rest(stmts)  == SelectSeq(stmts, LAMBDA s : s.k # "part1")
CMeaning(stmts, part1, env) == CRun(IF part1 THEN Part1(stmts) ELSE Rest(stmts), env)
=============================================================================
