------------------------------ MODULE Branches ------------------------------
(***************************************************************************)
(* The branches that FillBnInstructionInfo (src/plugin/insn_util.cc) tells *)
(* Binary Ninja of, from which it makes the edges of a function's graph.   *)
(* They are derived from the decoded packet, apart from the code the       *)
(* packet is lifted to.  System calls do not occur.                        *)
(***************************************************************************)
EXTENDS Packets

\* The attributes of a branch.  A compare-jump, a new-value jump and an endloop
\* have A_BN_COND_J and a guard.
IsJump(insn)     == insn.cof \in {"jump", "jumpr", "return", "loop"}
IsCall(insn)     == insn.cof \in {"call", "callr"}
IsIndirect(insn) == insn.cof \in {"jumpr", "callr", "return", "loop"}
IsReturn(insn)   == insn.cof = "return"
IsDirectJump(insn) == IsJump(insn) /\ ~IsIndirect(insn)

HasCondJump(pkt) == \E i \in 1 .. Len(pkt) : IsDirectJump(pkt[i]) /\ Guarded(pkt[i])

\* Deliberately wrong variant: a conditional jump counts too.
HasUncondJumpAny(pkt) == \E i \in 1 .. Len(pkt) : IsDirectJump(pkt[i])

HasUncondJump(pkt) == \E i \in 1 .. Len(pkt) : IsDirectJump(pkt[i]) /\ ~Guarded(pkt[i])

NextPacket == Nowhere.to
Unknown    == Value("unknown", 0, 0, << >>)

Branch(type, to) == [type |-> type, to |-> to]

\* What one instruction adds.  Conditional returns, conditional indirect jumps
\* and indirect calls are not annotated.
AddBranch(pkt, insn) ==
    CASE IsReturn(insn) /\ ~Guarded(insn) -> {Branch("FunctionReturn", Unknown)}
      [] IsJump(insn) /\ IsIndirect(insn) /\ ~IsReturn(insn) /\ ~Guarded(insn) ->
            {Branch("IndirectBranch", Unknown)}
      [] IsDirectJump(insn) /\ Guarded(insn) ->
            {Branch("TrueBranch", Target(insn))}
            \cup IF HasUncondJump(pkt) THEN {} ELSE {Branch("FalseBranch", NextPacket)}
      [] IsDirectJump(insn) /\ ~Guarded(insn) ->
            {Branch(IF HasCondJump(pkt) THEN "FalseBranch" ELSE "UnconditionalBranch",
                    Target(insn))}
      [] IsCall(insn) /\ ~IsIndirect(insn) -> {Branch("CallDestination", Target(insn))}
      [] OTHER -> {}

Reported(pkt) == UNION {AddBranch(pkt, pkt[i]) : i \in 1 .. Len(pkt)}

\* Control that leaves a packet for a place it may not come back from ends a
\* basic block; without such a branch the block goes on to the next packet.
EndsBlock(pkt) == \E b \in Reported(pkt) : b.type # "CallDestination"

Successors(pkt) ==
    {b.to : b \in {c \in Reported(pkt) : c.type # "CallDestination"}}
    \cup IF EndsBlock(pkt) THEN {} ELSE {NextPacket}

\* The packet of the comment in FillBnInstructionLowLevelIL, a conditional call
\* and a jump: the call returns to the next packet, which is not reported.
CallsBesideJump(pkt) ==
    \E i, j \in 1 .. Len(pkt) :
        /\ IsCall(pkt[i])
        /\ IsJump(pkt[j]) /\ ~Guarded(pkt[j])
=============================================================================
