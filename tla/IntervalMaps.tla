---------------------------- MODULE IntervalMaps ----------------------------
(***************************************************************************)
(* media::IntervalMap of src/third_party/chromium/blink/interval_map.h as  *)
(* operators on a value.  The std::map inside it is a function m: its      *)
(* domain is the set of keys that have an entry, and the entry at key k    *)
(* gives the value of every point from k up to the next entry.             *)
(*                                                                         *)
(* Keys are the unsigned integers 0 .. MaxKey, so NumericLimits::min() is  *)
(* 0.  An iterator is the key it points at; end() is the absence of a key. *)
(***************************************************************************)
EXTENDS Integers

CONSTANTS MaxKey,      \* NumericLimits::max() of the key type
          Default      \* ValueType(), the value of a point never assigned

ASSUME MaxKeyAssumption == MaxKey \in Nat

Key == 0 .. MaxKey

-----------------------------------------------------------------------------
(* The map and its iterators.                                              *)

\* The constructor and clear(): one entry, at the smallest key.
EmptyMap == [k \in {0} |-> Default]

\* The part of the map that an erase leaves.
Keep(m, S) == [k \in DOMAIN m \cap S |-> m[k]]

Before(m, k) == {j \in DOMAIN m : j < k}
After(m, k)  == {j \in DOMAIN m : j > k}

\* The entry next to k on either side (--i and ++i), where there is one.
Prev(m, k) == CHOOSE j \in Before(m, k) : \A i \in Before(m, k) : i <= j
Succ(m, k) == CHOOSE j \in After(m, k) : \A i \in After(m, k) : j <= i

\* upper_bound(k) followed by --i: the entry whose interval holds k.
Entry(m, k) == IF k \in DOMAIN m THEN k ELSE Prev(m, k)

\* operator[] and find(k).value().
At(m, k) == m[Entry(m, k)]

\* empty(): only the default interval is left.
IsEmpty(m) == \A k \in DOMAIN m : DOMAIN m = {k}

-----------------------------------------------------------------------------
(* The private helpers.                                                    *)

\* Deliberately wrong variant: a new entry starts from the default value.
MakeEntryDefault(m, k) ==
    IF k \in DOMAIN m THEN m
    ELSE [j \in DOMAIN m \cup {k} |-> IF j # k THEN m[j] ELSE Default]

\* A new entry takes the value of the preceding one.
MakeEntry(m, k) ==
    IF k \in DOMAIN m THEN m
    ELSE [j \in DOMAIN m \cup {k} |->
             IF j # k THEN m[j]
             ELSE IF Before(m, k) # {} THEN m[Prev(m, k)] ELSE Default]

\* The entry that follows i goes when it repeats i's value.
DropNext(m, i) ==
    IF After(m, i) # {} /\ m[Succ(m, i)] = m[i]
    THEN Keep(m, Key \ {Succ(m, i)})
    ELSE m

\* Deliberately wrong variants of RemoveDuplicates: one erases the earlier of
\* two equal entries, one never looks at the entry before.
RemoveDuplicatesErasePrev(m, i) ==
    IF Before(m, i) # {} /\ m[Prev(m, i)] = m[i]
    THEN DropNext(Keep(m, Key \ {Prev(m, i)}), i)
    ELSE DropNext(m, i)

RemoveDuplicatesAfterOnly(m, i) == DropNext(m, i)

RemoveDuplicates(m, i) ==
    IF Before(m, i) # {} /\ m[Prev(m, i)] = m[i]
    THEN DropNext(Keep(m, Key \ {i}), Prev(m, i))
    ELSE DropNext(m, i)

\* RemoveDuplicates(map_.lower_bound(k)).
RemoveDuplicatesFrom(m, k) ==
    IF k \in DOMAIN m THEN RemoveDuplicates(m, k)
    ELSE IF After(m, k) # {} THEN RemoveDuplicates(m, Succ(m, k))
    ELSE m

-----------------------------------------------------------------------------
(* The two mutators, over [from .. to).                                    *)

\* A deliberately wrong variant of SetInterval: the entry at the right end
\* is made after the overwritten interval has been given its new value.
SetIntervalLateEntry(m, from, to, v) ==
    IF to <= from THEN m
    ELSE LET set    == [MakeEntry(m, from) EXCEPT ![from] = v]
             marked == Keep(MakeEntry(set, to), {k \in Key : k <= from \/ k >= to})
         IN  RemoveDuplicatesFrom(RemoveDuplicates(marked, from), to)

SetInterval(m, from, to, v) ==
    IF to <= from THEN m
    ELSE LET marked == MakeEntry(MakeEntry(m, from), to)
             set    == [Keep(marked, {k \in Key : k <= from \/ k >= to})
                           EXCEPT ![from] = v]
         IN  RemoveDuplicatesFrom(RemoveDuplicates(set, from), to)

\* A deliberately wrong variant of IncrementInterval: only the left end is
\* cleaned up.
IncrementIntervalNoRightCleanup(m, from, to, howMuch) ==
    IF to <= from \/ howMuch = 0 THEN m
    ELSE LET marked == MakeEntry(MakeEntry(m, from), to)
             added  == [k \in DOMAIN marked |->
                           IF from <= k /\ k < to THEN marked[k] + howMuch
                                                  ELSE marked[k]]
         IN  RemoveDuplicates(added, from)

IncrementInterval(m, from, to, howMuch) ==
    IF to <= from \/ howMuch = 0 THEN m
    ELSE LET marked == MakeEntry(MakeEntry(m, from), to)
             added  == [k \in DOMAIN marked |->
                           IF from <= k /\ k < to THEN marked[k] + howMuch
                                                  ELSE marked[k]]
         IN  RemoveDuplicatesFrom(RemoveDuplicates(added, from), to)

-----------------------------------------------------------------------------
(* What a well-formed map is.                                              *)

IsStdMap(m, Val) ==
    /\ 0 \in DOMAIN m
    /\ DOMAIN m \subseteq Key
    /\ m \in [DOMAIN m -> Val]

\* Two entries that follow one another differ.
Canonical(m) == \A k \in DOMAIN m \ {0} : m[k] # At(m, k - 1)

\* The total map a client sees.
Contents(m) == [k \in Key |-> At(m, k)]
=============================================================================
