---------------------------- MODULE IntervalMap -----------------------------
(***************************************************************************)
(* An interval map in use: any sequence of the public mutators of          *)
(* interval_map.h, with every pair of bounds.  The values are integers, as *)
(* in the example of the header's comment, so that IncrementInterval too   *)
(* has a meaning; the plugin's own map holds packets (module PacketDb).    *)
(***************************************************************************)
EXTENDS IntervalMaps

CONSTANT Value        \* the integers a point may hold: bounds the increments

ASSUME ValueAssumption == Value \subseteq Int /\ Default \in Value

\* The increments that take one value to another.
Delta == {v - u : u, v \in Value}

VARIABLE map

Init == map = EmptyMap

Set(from, to, v) == map' = SetInterval(map, from, to, v)

Increment(from, to, d) ==
    /\ \A k \in Key : from <= k /\ k < to => At(map, k) + d \in Value
    /\ map' = IncrementInterval(map, from, to, d)

Clear == map' = EmptyMap

Next ==
    \/ \E from, to \in Key : \E v \in Value : Set(from, to, v)
    \/ \E from, to \in Key : \E d \in Delta : Increment(from, to, d)
    \/ Clear

Spec == Init /\ [][Next]_map

-----------------------------------------------------------------------------
(* Properties.                                                             *)

\* The entry at the smallest key is never erased, keys stay in range and
\* values stay values: find() always has an entry to step back to.
TypeOK == IsStdMap(map, Value)

\* "Adjacent intervals which have the same value are automatically merged":
\* after every mutator, on either side of every boundary that was made,
\* reused, overwritten or erased, the values differ, so iterating goes
\* through maximal intervals.
Merged == Canonical(map)

\* empty() says that no point differs from another, which the size of the
\* std::map answers only because equal neighbours have been merged.
EmptyIsUniform ==
    IsEmpty(map) <=> \A j, k \in Key : At(map, j) = At(map, k)

\* The std::map with its reused, erased and merged entries behaves as the
\* total map whose range is assigned or shifted in one step.
Abstract == INSTANCE AddrMap WITH contents <- Contents(map)
Implements == Abstract!Spec
=============================================================================
