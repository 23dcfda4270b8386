----------------------------- MODULE Generation ------------------------------
(***************************************************************************)
(* What the text generator promises: one file with the function of every   *)
(* instruction and the table of them, in the order of the instructions, as *)
(* if they had been generated one after another; or no file at all, when   *)
(* an instruction has no behaviour string or the script raises.            *)
(***************************************************************************)
EXTENDS Sequences

CONSTANTS Body(_),     \* the text of an instruction's function
          NoFile

VARIABLES tags,        \* the instructions in the order of the semantics file
          empty, bad,  \* those without a behaviour string, those that cannot be generated
          status,      \* "busy", "done", or "raised" when the script stops with an exception
          file         \* what has been written

vars == <<tags, empty, bad, status, file>>

InOrder(list) == [j \in DOMAIN list |-> [tag |-> list[j], body |-> Body(list[j])]]

Init == status = "busy" /\ file = NoFile

Generate ==
    /\ status = "busy" /\ bad \subseteq empty
    /\ status' = "done"
    /\ file' = IF empty = {} THEN InOrder(tags) ELSE file
    /\ UNCHANGED <<tags, empty, bad>>

\* An instruction cannot be generated, or a process has died.
Raise ==
    /\ status = "busy" /\ status' = "raised"
    /\ UNCHANGED <<tags, empty, bad, file>>

Next == Generate \/ Raise

Spec == Init /\ [][Next]_vars
=============================================================================
