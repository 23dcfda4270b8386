------------------------------ MODULE MCLifter ------------------------------
(* Packets for model checking Lifter. *)
EXTENDS Lifter

I(op, from, to) ==
    [op |-> op, from |-> from, to |-> to, guard |-> NoGuard, cof |-> "none",
     part1 |-> FALSE, at |-> 0]
B(op, from, to, cof) == [I(op, from, to) EXCEPT !.cof = cof]
If(insn, r)    == [insn EXCEPT !.guard = [r |-> r, sense |-> TRUE, new |-> FALSE]]
IfNot(insn, r) == [insn EXCEPT !.guard = [r |-> r, sense |-> FALSE, new |-> FALSE]]
New(insn)      == [insn EXCEPT !.guard.new = TRUE]

R(r)     == <<"reg", r>>
RR(r)    == <<"pair", r>>
RX(r)    == <<"rw", r>>
N(r)     == <<"new", r>>
Named(r) == <<"direct", r>>

Add01   == I("alu", <<R(1)>>, <<R(0)>>)                 \* R0 = add(R1,#)
Add10   == I("alu", <<R(0)>>, <<R(1)>>)                 \* R1 = add(R0,#)
Acc0    == I("alu", <<RX(0), R(1)>>, <<RX(0)>>)         \* R0 += add(R1,#)
Pair0   == I("alu", <<RR(2)>>, <<RR(0)>>)               \* R1:0 = asl(R3:2,#)
Pair2   == I("alu", <<RR(0)>>, <<RR(2)>>)               \* R3:2 = asl(R1:0,#)
AddLR   == I("alu", <<R(0)>>, <<R(LR)>>)                \* R31 = add(R0,#)
Cmp     == I("cmp", <<R(0)>>, <<R(P0)>>)                \* P0 = cmp.eq(R0,#)
Load    == I("load", <<R(0)>>, <<R(1)>>)                \* R1 = memw(R0+#)
PopLoad == I("load", <<RX(1)>>, <<R(0), RX(1)>>)        \* R0 = memw(R1++#)
Store   == I("store", <<R(0), R(1)>>, << >>)            \* memw(R0+#) = R1
Push    == I("store", <<RX(0), R(2)>>, <<RX(0)>>)       \* memw(R0++#) = R2
StoreSP == I("store", <<R(SP), R(0)>>, << >>)           \* memw(SP+#) = R0
Store2  == I("store", <<R(1), RR(2)>>, << >>)           \* memd(R1+#) = R3:2
Store0  == I("store", <<R(2), RR(0)>>, << >>)           \* memd(R2+#) = R1:0
StoreN  == I("newstore", <<R(1), N(0)>>, << >>)         \* memw(R1+#) = R0.new
JumpN   == [B("newjump", <<N(0), R(1)>>, << >>, "jump") \* if (cmp.eq(R0.new,R1)) jump
               EXCEPT !.guard = [r |-> 0, sense |-> TRUE, new |-> FALSE]]
CmpJump == New(If(B("cmpjump", <<R(1)>>, <<RX(P0)>>, "jump"), P0))
                                                  \* P0 = cmp.eq(R1,#); if (P0.new) jump
Jump    == B("jump", << >>, << >>, "jump")
JumpR1  == B("jumpr", <<R(1)>>, << >>, "jumpr")
JumpLR  == B("jumpr", <<R(LR)>>, << >>, "jumpr")
Call    == B("call", << >>, << >>, "call")
CallR1  == B("jumpr", <<R(1)>>, << >>, "callr")
Frame   == I("frame", <<R(SP), R(LR), R(FP)>>, <<Named(FP), Named(SP)>>)
                                                        \* allocframe(#)
FrameX  == I("frame", <<RX(SP), R(LR), R(FP)>>, <<Named(FP), RX(SP)>>)
                                                        \* allocframe(SP,#):raw
Unframe == I("load", <<R(FP)>>, <<RR(FP), Named(SP)>>)  \* deallocframe
Return  == B("return", <<R(FP)>>, <<RR(FP), Named(SP)>>, "return")
Loop0   == I("spNloop", <<R(0)>>, <<Named(LC0), Named(SA0), RX(P3)>>)
End0    == [B("endloop", <<R(SA0), R(LC0)>>, <<Named(LC0), <<"keep", P3>> >>, "loop")
               EXCEPT !.guard = [r |-> LC0, sense |-> TRUE, new |-> FALSE]]

\* Every form once, and the conditional ones.
Forms ==
    {Add01, Add10, Acc0, Pair0, Pair2, Cmp, Load, PopLoad, Store, Push, StoreSP,
     Store2, StoreN, JumpN, CmpJump, Jump, JumpR1, JumpLR, Call, CallR1, Frame,
     FrameX, Unframe, Return, Loop0,
     If(Add01, P0), IfNot(Add01, P0), New(If(Add01, P0)), New(IfNot(Add01, P0)),
     If(Acc0, P0), New(IfNot(Acc0, P0)), New(If(Pair0, P0)), New(IfNot(Pair0, P0)),
     New(If(Load, P0)), If(Store, P0), New(IfNot(StoreN, P0)), If(Jump, P0),
     New(IfNot(Jump, P0)), If(JumpR1, P0), New(If(JumpLR, P0)), If(Call, P0)}

\* Those that differ from another only in ways that a packet of two shows.
Simple ==
    {Add10, Store, Store2, StoreSP, Return, FrameX, CallR1, JumpLR,
     If(Add01, P0), IfNot(Add01, P0), If(Acc0, P0), If(Store, P0),
     If(JumpR1, P0), If(Call, P0)}

\* Those that the preparation of a packet of four moves about.
Core ==
    {Add01, Pair2, Cmp, Load, Push, StoreN, CmpJump, JumpR1, New(If(Add01, P0)),
     New(If(Jump, P0))}

Numbered(pkt) == [i \in 1 .. Len(pkt) |-> [pkt[i] EXCEPT !.at = i]]
Ended(pkt)    == Append(pkt, End0)

\* The packets of k instructions, with and without an endloop.
Made(forms, k) ==
    LET plain == [1 .. k -> forms]
    IN  {pkt \in {Numbered(p) : p \in plain \cup {Ended(p) : p \in plain}} :
            Legal(pkt) /\ Covered(pkt)}

MCPackets == Made(Forms, 1) \cup Made(Forms, 2) \cup Made(Forms \ Simple, 3)
                \cup Made(Core, 4)

\* Packets that the lifter does not cover.
MCConditional == {Numbered(<<If(Add01, P0)>>), Numbered(<<New(If(Add01, P0)), Cmp>>)}
MCStorePair   == {Numbered(<<Store0>>)}
=============================================================================
