------------------------- MODULE IntervalMap_proofs -------------------------
(***************************************************************************)
(* The interval map implements the total map, for every key width and any  *)
(* set of values.  The inductive invariant is the type of the std::map     *)
(* together with the absence of equal neighbours.                          *)
(***************************************************************************)
EXTENDS IntervalMap, PacketDbParts_proofs

LEMMA EmptyMapCorrect ==
    /\ IsStdMap(EmptyMap, Value)
    /\ Canonical(EmptyMap)
    /\ \A k \in Key : At(EmptyMap, k) = Default
<1>1. DOMAIN EmptyMap = {0} /\ EmptyMap[0] = Default
  BY DEF EmptyMap
<1>2. IsStdMap(EmptyMap, Value)
  BY <1>1, ValueAssumption, MaxKeyAssumption DEF IsStdMap, EmptyMap, Key
<1>3. ASSUME NEW k \in Key
      PROVE  At(EmptyMap, k) = Default
  <2>1. Entry(EmptyMap, k) \in DOMAIN EmptyMap
    BY <1>2, EntryHolds DEF IsStdMap, Key
  <2>2. QED
    BY <1>1, <2>1 DEF At
<1>4. QED
  BY <1>1, <1>2, <1>3 DEF Canonical

LEMMA DeltaIsInt == \A d \in Delta : d \in Int
<1> SUFFICES ASSUME NEW d \in Delta
             PROVE  d \in Int
  OBVIOUS
<1>1. PICK u \in Value, v \in Value : d = v - u
  BY DEF Delta
<1>2. u \in Int /\ v \in Int
  BY ValueAssumption
<1>3. QED
  BY <1>1, <1>2

(* The strengthening of the two invariants that every mutator preserves. *)
IInv == TypeOK /\ Merged

LEMMA MutatorsKeepIInv == IInv /\ [Next]_map => IInv'
<1> SUFFICES ASSUME IInv, [Next]_map
             PROVE  IInv'
  OBVIOUS
<1> USE DEF IInv, TypeOK, Merged
<1>1. ASSUME NEW from \in Key, NEW to \in Key, NEW v \in Value, Set(from, to, v)
      PROVE  IInv'
  BY <1>1, SetIntervalCorrect DEF Set
<1>2. ASSUME NEW from \in Key, NEW to \in Key, NEW d \in Delta,
             Increment(from, to, d)
      PROVE  IInv'
  <2>1. d \in Int /\ Value \subseteq Int
    BY DeltaIsInt, ValueAssumption
  <2>2. QED
    BY <1>2, <2>1, IncrementIntervalCorrect DEF Increment
<1>3. CASE Clear
  BY <1>3, EmptyMapCorrect DEF Clear
<1>4. CASE UNCHANGED map
  BY <1>4
<1>5. QED
  BY <1>1, <1>2, <1>3, <1>4 DEF Next

LEMMA IInvHolds == Spec => []IInv
<1>1. Init => IInv
  BY EmptyMapCorrect DEF Init, IInv, TypeOK, Merged
<1>2. QED
  BY <1>1, MutatorsKeepIInv, PTL DEF Spec

(* find() and operator[] always have an entry to step back to. *)
THEOREM TypeCorrect == Spec => []TypeOK
<1>1. IInv => TypeOK
  BY DEF IInv
<1>2. QED
  BY <1>1, IInvHolds, PTL

(* Equal neighbours are always merged. *)
THEOREM AlwaysMerged == Spec => []Merged
<1>1. IInv => Merged
  BY DEF IInv
<1>2. QED
  BY <1>1, IInvHolds, PTL

(* The size of the std::map tells whether any point differs from another. *)
THEOREM EmptyCorrect == Spec => []EmptyIsUniform
<1>1. IInv => EmptyIsUniform
  <2> SUFFICES ASSUME IInv
               PROVE  EmptyIsUniform
    OBVIOUS
  <2>1. DOMAIN map \subseteq Key /\ 0 \in DOMAIN map
    BY DEF IInv, TypeOK, IsStdMap
  <2>2. ASSUME IsEmpty(map), NEW j \in Key, NEW k \in Key
        PROVE  At(map, j) = At(map, k)
    <3>1. Entry(map, j) \in DOMAIN map /\ Entry(map, k) \in DOMAIN map
      BY <2>1, EntryHolds DEF Key
    <3>2. QED
      BY <2>2, <3>1 DEF IsEmpty, At
  <2>3. ASSUME \A j, k \in Key : At(map, j) = At(map, k)
        PROVE  IsEmpty(map)
    <3>1. ASSUME NEW k \in DOMAIN map, k # 0
          PROVE  FALSE
      <4>1. k \in Key /\ k - 1 \in Key
        BY <2>1, <3>1, MaxKeyAssumption DEF Key
      <4>2. map[k] # At(map, k - 1)
        BY <3>1 DEF IInv, Merged, Canonical
      <4>3. QED
        BY <2>3, <3>1, <4>1, <4>2, AtEntry
    <3>2. QED
      BY <2>1, <3>1 DEF IsEmpty
  <2>4. QED
    BY <2>2, <2>3 DEF EmptyIsUniform
<1>2. QED
  BY <1>1, IInvHolds, PTL

(* Every behaviour of the std::map is one of the total map. *)
THEOREM ImplementsAddrMap == Spec => Implements
<1>1. Init => Abstract!Init
  BY EmptyMapCorrect DEF Init, Abstract!Init, Contents, Key
<1>2. IInv /\ [Next]_map => [Abstract!Next]_(Contents(map))
  <2> SUFFICES ASSUME IInv, [Next]_map
               PROVE  [Abstract!Next]_(Contents(map))
    OBVIOUS
  <2>1. ASSUME NEW from \in Key, NEW to \in Key, NEW v \in Value,
               Set(from, to, v)
        PROVE  Abstract!Assign(from, to, v)
    <3>1. \A k \in Key : At(map', k) = IF from <= k /\ k < to
                                        THEN v ELSE At(map, k)
      BY <2>1, SetIntervalCorrect DEF Set, IInv, TypeOK
    <3>2. QED
      BY <3>1 DEF Abstract!Assign, Contents, Key
  <2>2. ASSUME NEW from \in Key, NEW to \in Key, NEW d \in Delta,
               Increment(from, to, d)
        PROVE  Abstract!Shift(from, to, d)
    <3>1. d \in Int /\ Value \subseteq Int
      BY DeltaIsInt, ValueAssumption
    <3>2. IsStdMap(map, Value)
      BY DEF IInv, TypeOK
    <3>3. \A k \in Key : from <= k /\ k < to => At(map, k) + d \in Value
      BY <2>2 DEF Increment
    <3>4. IsShifted(IncrementInterval(map, from, to, d), map, from, to, d)
      BY <3>1, <3>2, <3>3, IncrementIntervalCorrect
    <3>5. QED
      BY <2>2, <3>4 DEF Increment, IsShifted, Abstract!Shift, Contents, Key
  <2>3. CASE Clear
    BY <2>3, EmptyMapCorrect DEF Clear, Abstract!Next, Abstract!Clear, Contents, Key
  <2>4. CASE UNCHANGED map
    BY <2>4 DEF Contents, At, Entry, Prev, Before
  <2>5. QED
    BY <2>1, <2>2, <2>3, <2>4 DEF Next, Abstract!Next, Key, Delta
<1>3. QED
  BY <1>1, <1>2, IInvHolds, PTL DEF Spec, Implements, Abstract!Spec
=============================================================================
