--------------------------- MODULE PacketDbOrders ----------------------------
(***************************************************************************)
(* The packet database under the orders in which Binary Ninja may ask: in  *)
(* any order from all threads at once, in any order but one call at a      *)
(* time, or from all threads but only where control has been shown to go.  *)
(***************************************************************************)
EXTENDS PacketDb

VARIABLE order

\* Analysis of well-formed code: control reaches the first word of a packet
\* first, and goes on to words that the answer has covered.
Reached ==
    {i \in 1 .. MemWords : \/ i = 1
                           \/ IsPacketEnd(mem[i - 1])
                           \/ AddrOf(i) \in Covered(map)}

\* The bound: concurrent callers ask one query less than a single one.
AskOrdered(t) ==
    /\ order \in {"any", "reached"} => queries < MaxQueries - 1
    /\ CASE order = "any"     -> AskAny(t)
         [] order = "alone"   -> AskAny(t) /\ \A u \in Thread : pc[u] = "idle"
         [] order = "reached" ->
               \E i \in Reached, n \in 0 .. MaxWords : Ask(t, i, n, FALSE)

OrderedInit == Init /\ order \in {"any", "alone", "reached"}

OrderedNext == (\E t \in Thread : AskOrdered(t) \/ Step(t)) /\ UNCHANGED order

OrderedSpec == OrderedInit /\ [][OrderedNext]_<<vars, order>>

-----------------------------------------------------------------------------
(* Properties.                                                             *)

\* One call at a time, an address never moves to a packet that starts later:
\* of two queries the later one sees at least as much of the packet before it
\* (PacketDb::AddBytes overwrites, packet_db.cc:34-57).
StartNeverAdvances ==
    [][order = "alone" =>
         \A a \in Covered(map) : At(map', a).start <= At(map, a).start]_<<vars, order>>

\* In analysis order the packet of an address is settled by the first answer:
\* the text, the branches and the lifted code of an instruction agree
\* (packet_db.cc:60-67), whichever thread asks for which of them.
Stable ==
    [][order = "reached" =>
         \A a \in Covered(map) : At(map', a) = At(map, a)]_<<vars, order>>
=============================================================================
