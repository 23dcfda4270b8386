------------------------------ MODULE AddrMap -------------------------------
(***************************************************************************)
(* What an interval map promises its clients: a total map from keys to     *)
(* values, a range of which is assigned, or shifted, in one step.          *)
(***************************************************************************)
EXTENDS Integers

CONSTANTS MaxKey, Value, Default

VARIABLE contents

Init == contents = [k \in 0 .. MaxKey |-> Default]

\* The points of [from .. to) take the value op gives them; no other changes.
Assign(from, to, v) ==
    contents' = [k \in 0 .. MaxKey |->
                    IF from <= k /\ k < to THEN v ELSE contents[k]]

Shift(from, to, d) ==
    contents' = [k \in 0 .. MaxKey |->
                    IF from <= k /\ k < to THEN contents[k] + d ELSE contents[k]]

Clear == contents' = [k \in 0 .. MaxKey |-> Default]

Next ==
    \/ \E from, to \in 0 .. MaxKey :
          \/ \E v \in Value : Assign(from, to, v)
          \/ \E d \in {v - u : u, v \in Value} : Shift(from, to, d)
    \/ Clear

Spec == Init /\ [][Next]_contents
=============================================================================
