------------------------------ MODULE Parallel -------------------------------
(***************************************************************************)
(* What lifting a packet promises: the lifted code has, in one step, the   *)
(* effect of the packet's instructions run in parallel.                    *)
(***************************************************************************)
EXTENDS Packets

VARIABLES src,       \* the packet
          truthy,    \* the values, of those that conditions test, that are true
          outcome    \* the registers, the stores and the next packet

Untouched == [regs |-> [r \in Registers |-> Initially(r)],
              mem |-> << >>, next |-> Nowhere]

Init ==
    /\ Legal(src)
    /\ truthy \in SUBSET Deciders(src)
    /\ outcome = Untouched

Execute ==
    /\ outcome' = InParallel(src, truthy)
    /\ UNCHANGED <<src, truthy>>

Spec == Init /\ [][Execute]_<<src, truthy, outcome>>
=============================================================================
