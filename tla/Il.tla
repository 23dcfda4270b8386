---------------------------------- MODULE Il ----------------------------------
(***************************************************************************)
(* The IL expressions that gen_il_funcs.py builds (its classes IlExprId    *)
(* and below) and what Binary Ninja computes for them.  An expression is a *)
(* record: operator, size in bytes, the `signed` attribute that picks the  *)
(* operator of a comparison or a right shift, arguments, register, number. *)
(* A byte has ByteBits bits: more than one, or the bitwise not of a true   *)
(* predicate, which is a byte, would be false.                             *)
(***************************************************************************)
EXTENDS Integers, Sequences, FiniteSets, Bitwise

CONSTANT ByteBits

ASSUME ByteBitsAssumption == ByteBits \in Nat \ {0, 1}

IlExprId(il, size, signed, args) ==
    [il |-> il, size |-> size, signed |-> signed, args |-> args, reg |-> "", n |-> 0]

IlRegister(size, reg)      == [IlExprId("Register", size, TRUE, << >>) EXCEPT !.reg = reg]
IlRegisterSplit(size, hi, lo) == IlExprId("RegisterSplit", size, TRUE, <<hi, lo>>)
IlSetRegister(size, reg, val) ==
    [IlExprId("SetRegister", size, val.signed, <<val>>) EXCEPT !.reg = reg]
IlConst(size, val)         == [IlExprId("Const", size, TRUE, << >>) EXCEPT !.n = val]
IlImm(size, imm)           == [IlExprId("Imm", size, TRUE, << >>) EXCEPT !.reg = imm]
IlConstPointer(size, val)  == [IlExprId("Imm", size, FALSE, << >>) EXCEPT !.reg = val]
IlReadGP(size)             == IlExprId("ReadGP", size, TRUE, << >>)
IlLoad(size, addr)         == IlExprId("Load", size, TRUE, <<addr>>)
IlStore(size, addr, val)   == IlExprId("Store", size, val.signed, <<addr, val>>)

IlLowPart(size, a)    == IlExprId("LowPart", size, a.signed, <<a>>)
IlZeroExtend(size, a) == IlExprId("ZeroExtend", size, FALSE, <<a>>)
IlSignExtend(size, a) == IlExprId("SignExtend", size, TRUE, <<a>>)
IlBoolToInt(size, a)  == IlExprId("BoolToInt", size, TRUE, <<a>>)
IlNot(size, a)        == IlExprId("Not", size, FALSE, <<a>>)
IlNeg(size, a)        == IlExprId("Neg", size, FALSE, <<a>>)

IlAdd(size, a, b)  == IlExprId("Add", size, a.signed, <<a, b>>)
IlSub(size, a, b)  == IlExprId("Sub", size, a.signed, <<a, b>>)
IlMult(size, a, b) == IlExprId("Mult", size, a.signed, <<a, b>>)
IlOr(size, a, b)   == IlExprId("Or", size, FALSE, <<a, b>>)
IlAnd(size, a, b)  == IlExprId("And", size, FALSE, <<a, b>>)
IlXor(size, a, b)  == IlExprId("Xor", size, FALSE, <<a, b>>)
IlShiftLeft(size, a, b)         == IlExprId("ShiftLeft", size, a.signed, <<a, b>>)
IlLogicalShiftRight(size, a, b) == IlExprId("LogicalShiftRight", size, a.signed, <<a, b>>)
IlArithShiftRight(size, a, b)   == IlExprId("ArithShiftRight", size, a.signed, <<a, b>>)
IlRotateLeft(size, a, b)        == IlExprId("RotateLeft", size, a.signed, <<a, b>>)

CompareExprs == {"==", "!=", "s<", "u<", "s<=", "u<=", "s>", "u>", "s>=", "u>="}
IlCompareExpr(op, size, a, b)           == IlExprId(op, size, FALSE, <<a, b>>)
IlCompareEqual(size, a, b)              == IlCompareExpr("==", size, a, b)
IlCompareNotEqual(size, a, b)           == IlCompareExpr("!=", size, a, b)
IlCompareSignedLessThan(size, a, b)     == IlCompareExpr("s<", size, a, b)
IlCompareUnsignedLessThan(size, a, b)   == IlCompareExpr("u<", size, a, b)
IlCompareSignedLessEqual(size, a, b)    == IlCompareExpr("s<=", size, a, b)
IlCompareUnsignedLessEqual(size, a, b)  == IlCompareExpr("u<=", size, a, b)
IlCompareSignedGreaterThan(size, a, b)  == IlCompareExpr("s>", size, a, b)
IlCompareUnsignedGreaterThan(size, a, b)  == IlCompareExpr("u>", size, a, b)
IlCompareSignedGreaterEqual(size, a, b)   == IlCompareExpr("s>=", size, a, b)
IlCompareUnsignedGreaterEqual(size, a, b) == IlCompareExpr("u>=", size, a, b)

\* Instructions that have no value.
IlBranch(il, dest) == IlExprId(il, 0, TRUE, <<dest>>)
IlJump(dest)       == IlBranch("Jump", dest)
IlCall(dest)       == IlBranch("Call", dest)
IlReturn(dest)     == IlBranch("Return", dest)
IlSystemCall       == IlExprId("SystemCall", 0, TRUE, << >>)
IlBreakpoint       == IlExprId("Breakpoint", 0, TRUE, << >>)
IlIf(cond, t, f)   == IlExprId("If", 0, TRUE, <<cond, t, f>>)
IlGoto(l)          == [IlExprId("Goto", 0, TRUE, << >>) EXCEPT !.reg = l]
IlLabel(l)         == [IlExprId("Label", 0, TRUE, << >>) EXCEPT !.reg = l]

\* The C++ that the generator writes between the IL: the immediate aligned, and the
\* braces of a block, with the labels it declares (none for the closing brace).
RawAlign(imm)   == [IlExprId("Align", 0, TRUE, << >>) EXCEPT !.reg = imm]
RawOpen(labels) == IlExprId("Open", 0, TRUE, labels)
RawClose        == IlExprId("Close", 0, TRUE, << >>)

-----------------------------------------------------------------------------
Bits(size)          == size * ByteBits
Cut(v, size)        == v % 2^Bits(size)
SignedOf(v, size)   == LET u == Cut(v, size)
                       IN  IF u >= 2^(Bits(size) - 1) THEN u - 2^Bits(size) ELSE u
Shl(v, k, size)     == IF k >= Bits(size) THEN 0 ELSE Cut(v * 2^k, size)
Shr(v, k)           == IF k >= Bits(8) THEN (IF v < 0 THEN -1 ELSE 0) ELSE v \div 2^k
Rotl(v, k, size)    == LET r == k % Bits(size)
                       IN  Shl(v, r, size) + Cut(v, size) \div 2^(Bits(size) - r)
BoolOf(b)           == IF b THEN 1 ELSE 0

\* Memory is little-endian.
Addresses == 0 .. 2^Bits(4) - 1
RECURSIVE Read(_, _, _)
Read(mem, addr, size) ==
    IF size = 0 THEN 0
    ELSE mem[Cut(addr, 4)] + 2^ByteBits * Read(mem, addr + 1, size - 1)
Write(mem, addr, size, v) ==
    [x \in Addresses |-> LET k == Cut(x - addr, 4)
                         IN  IF k < size THEN (v \div 2^Bits(k)) % 2^ByteBits ELSE mem[x]]

\* The value of an expression, as a natural number, where env.r maps registers, tempo-
\* raries and immediates to values and env.mem is the memory.  An operand narrower than
\* the operation counts as zero-extended, and the result is cut to the operation's size;
\* the count of a shift is a number of its own.
RECURSIVE Eval(_, _)
Eval(x, env) ==
    LET size == x.size
        A == Eval(x.args[1], env)
        B == Eval(x.args[2], env)
        Sa == SignedOf(A, size)
        Sb == SignedOf(B, size)
        Ua == Cut(A, size)
        Ub == Cut(B, size)
    IN  CASE x.il \in {"Register", "Imm"} -> Cut(env.r[x.reg], size)
          [] x.il = "RegisterSplit"     -> env.r[x.args[1]] * 2^Bits(size) + env.r[x.args[2]]
          [] x.il = "Const"             -> IF size = 1 THEN x.n ELSE Cut(x.n, size)
          [] x.il = "ReadGP"            -> IF env.extended THEN 0 ELSE env.r["HEX_REG_GP"]
          [] x.il = "Load"              -> Read(env.mem, A, size)
          [] x.il = "LowPart"           -> Cut(A, size)
          [] x.il = "ZeroExtend"        -> Cut(A, size)
          [] x.il = "SignExtend"        -> Cut(SignedOf(A, x.args[1].size), size)
          [] x.il = "BoolToInt"         -> A
          [] x.il = "Not"               -> Cut(-1 - A, size)
          [] x.il = "Neg"               -> Cut(-A, size)
          [] x.il = "Add"               -> Cut(A + B, size)
          [] x.il = "Sub"               -> Cut(A - B, size)
          [] x.il = "Mult"              -> Cut(Sa * Sb, size)
          [] x.il = "Or"                -> Ua | Ub
          [] x.il = "And"               -> Ua & Ub
          [] x.il = "Xor"               -> Ua ^^ Ub
          [] x.il = "ShiftLeft"         -> Shl(A, B, size)
          [] x.il = "LogicalShiftRight" -> Shr(Ua, B)
          [] x.il = "ArithShiftRight"   -> Cut(Shr(Sa, B), size)
          [] x.il = "RotateLeft"        -> Rotl(Ua, B, size)
          [] x.il = "=="  -> BoolOf(Ua = Ub)
          [] x.il = "!="  -> BoolOf(Ua # Ub)
          [] x.il = "s<"  -> BoolOf(Sa < Sb)
          [] x.il = "u<"  -> BoolOf(Ua < Ub)
          [] x.il = "s<=" -> BoolOf(Sa <= Sb)
          [] x.il = "u<=" -> BoolOf(Ua <= Ub)
          [] x.il = "s>"  -> BoolOf(Sa > Sb)
          [] x.il = "u>"  -> BoolOf(Ua > Ub)
          [] x.il = "s>=" -> BoolOf(Sa >= Sb)
          [] x.il = "u>=" -> BoolOf(Ua >= Ub)

\* C++ scoping: the label of an instruction is that of the innermost block around it
\* that declares one of that name.
Count(prog, il, from, to) == Cardinality({k \in from .. to : prog[k].il = il})
Encloses(prog, o, i) ==
    /\ prog[o].il = "Open"
    /\ \A k \in o .. i - 1 : Count(prog, "Close", o, k) < Count(prog, "Open", o, k)
DeclaredAt(prog, i, label) ==
    LET Blocks == {o \in 1 .. i - 1 : /\ Encloses(prog, o, i)
                                      /\ \E k \in DOMAIN prog[o].args : prog[o].args[k] = label}
    IN  CHOOSE o \in Blocks : \A p \in Blocks : p <= o
Target(prog, i, label) ==
    CHOOSE k \in DOMAIN prog :
        /\ prog[k] = IlLabel(label)
        /\ DeclaredAt(prog, k, label) = DeclaredAt(prog, i, label)
=============================================================================
