----------------------------- MODULE MCPacketDb -----------------------------
(* Values of the constants for model checking PacketDb. *)
EXTENDS PacketDb, TLC

W(parse, op) == [parse |-> parse, op |-> op, ahead |-> 0]

\* A word that goes on, one that marks a loop, an end, a duplex, and one that
\* the decoder refuses.
MCWords ==
    {W(ParseMore, "alu"), W(ParseLoopEnd, "alu"), W(ParseEnd, "alu"),
     W(ParseDuplex, "sub"), W(ParseEnd, "bad")}

\* The words whose packets overlap.
MCFewWords == {W(ParseMore, "alu"), W(ParseEnd, "alu"), W(ParseEnd, "bad")}

MCSymmetry == Permutations(Thread)

MCNoInfo == [start |-> 0, pkt |-> Fail]
=============================================================================
