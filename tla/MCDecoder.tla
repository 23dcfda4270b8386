----------------------------- MODULE MCDecoder ------------------------------
(* Words for model checking: every class with the parse bits of a word that *)
(* goes on, marks a loop or ends, and every distance to a producer.         *)
EXTENDS Decoder

MCWords ==
    {w \in Word : w.op \in {"alu", "store", "ext", "new"}
                    /\ (w.op = "new" => w.ahead \in 1 .. 3)}
    \cup {[parse |-> ParseDuplex, op |-> "sub", ahead |-> 0],
          [parse |-> ParseMore, op |-> "bad", ahead |-> 0]}
=============================================================================
