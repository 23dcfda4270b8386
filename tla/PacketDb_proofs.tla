--------------------------- MODULE PacketDb_proofs --------------------------
(***************************************************************************)
(* The packet database for any number of threads and calls, any binary and *)
(* any patches to it.                                                      *)
(***************************************************************************)
EXTENDS PacketDbOrders, PacketDbParts_proofs, SequenceTheorems

Top == Base + 2 * MemWords

Windows == {ws \in Seq(Words) : Len(ws) <= MaxWords}
Packets == {Fail} \cup {DecodePacket(ws) : ws \in Windows}
Infos   == [start : Key, pkt : Packets]
Results == {NoInsn} \cup
           UNION {{FindInstructionInPacket(info, a) : info \in Infos} : a \in Key}
Calls   == [addr : Key, ragged : BOOLEAN, words : Windows, at : Key,
            pkt : Packets, added : Nat, result : Results]

-----------------------------------------------------------------------------
(* Sizes and addresses. *)

LEMMA Constants ==
    /\ Base \in Key /\ Top \in Key /\ Key \subseteq Nat /\ 0 \in Key
    /\ NoInfo \in Infos /\ Default \in Infos
    /\ \A i \in 1 .. MemWords : AddrOf(i) \in Key /\ AddrOf(i) + 2 <= Top
BY PacketDbAssumption, MaxKeyAssumption
   DEF Key, Top, Infos, Packets, NoInfo, AddrOf

LEMMA WindowIsWords ==
    ASSUME NEW ws \in Windows
    PROVE  ws \in Seq(Word)
BY PacketDbAssumption DEF Windows

LEMMA FailSize == Fail.size = 0
BY DEF Fail

LEMMA PacketSize ==
    ASSUME NEW p \in Packets
    PROVE  p.size \in Nat /\ (p.size = 0 <=> p = Fail)
<1>1. CASE p = Fail
  BY <1>1, FailSize
<1>2. ASSUME NEW ws \in Windows, p = DecodePacket(ws), p # Fail
      PROVE  p.size \in Nat /\ p.size # 0
  <2>1. ws \in Seq(Word)
    BY WindowIsWords
  <2>2. DecodePacket(ws).size \in 1 .. Len(ws)
    BY <1>2, <2>1, PacketInWindow
  <2>3. QED
    BY <1>2, <2>1, <2>2
<1>3. QED
  BY <1>1, <1>2, FailSize DEF Packets

LEMMA NoWrap ==
    ASSUME NEW a \in Key, NEW d \in Nat, a + d <= Top
    PROVE  Plus(a, d) = a + d /\ a + d \in Key
<1>1. a \in Nat /\ Top \in Nat /\ Top <= MaxKey /\ MaxKey \in Nat
  BY Constants, MaxKeyAssumption DEF Key
<1>2. QED
  BY <1>1 DEF Plus, Key

\* Adding a packet answers for exactly its own addresses.
LEMMA AddPacketCovers ==
    ASSUME NEW m, IsStdMap(m, Infos), NEW start \in Key,
           NEW p \in Packets, p # Fail, start + 2 * p.size <= Top
    PROVE  LET n == AddPacket(m, start, p)
           IN  /\ IsStdMap(n, Infos)
               /\ \A k \in Key : At(n, k) =
                     IF start <= k /\ k < start + 2 * p.size
                     THEN [start |-> start, pkt |-> p] ELSE At(m, k)
<1>1. p.size \in Nat /\ p.size # 0
  BY PacketSize
<1>2. Plus(start, 2 * p.size) = start + 2 * p.size /\ start + 2 * p.size \in Key
  BY <1>1, NoWrap
<1>3. [start |-> start, pkt |-> p] \in Infos
  BY DEF Infos
<1> DEFINE v == [start |-> start, pkt |-> p]
           to == start + 2 * p.size
<1>4. v \in Infos /\ to \in Key
  BY <1>2, <1>3
<1>5. AddPacket(m, start, p) = SetInterval(m, start, to, v)
  BY <1>2 DEF AddPacket
<1>6. /\ IsStdMap(SetInterval(m, start, to, v), Infos)
      /\ \A k \in Key : At(SetInterval(m, start, to, v), k) =
            IF start <= k /\ k < to THEN v ELSE At(m, k)
  <2> HIDE DEF v, to
  <2> QED BY <1>4, SetIntervalCorrect
<1>7. QED
  BY <1>5, <1>6

\* Each point of the map holds an Info.
LEMMA AtIsInfo ==
    ASSUME NEW m, IsStdMap(m, Infos), NEW a \in Key
    PROVE  At(m, a) \in Infos
<1>1. Entry(m, a) \in DOMAIN m
  BY EntryHolds, Constants DEF IsStdMap
<1>2. QED
  BY <1>1 DEF At, IsStdMap

LEMMA AddPacketGrows ==
    ASSUME NEW m, IsStdMap(m, Infos), NEW start \in Key,
           NEW p \in Packets, p # Fail, start + 2 * p.size <= Top
    PROVE  /\ Covered(m) \subseteq Covered(AddPacket(m, start, p))
           /\ start \in Covered(AddPacket(m, start, p))
<1>1. p.size \in Nat /\ p.size # 0
  BY PacketSize
<1>2. \A k \in Key : At(AddPacket(m, start, p), k) =
          IF start <= k /\ k < start + 2 * p.size
          THEN [start |-> start, pkt |-> p] ELSE At(m, k)
  BY AddPacketCovers
<1>3. start <= start /\ start < start + 2 * p.size
  BY <1>1, Constants
<1>4. QED
  BY <1>1, <1>2, <1>3 DEF Covered

-----------------------------------------------------------------------------
(* The inductive invariant.  NeverAborts needs that an added packet still   *)
(* covers the address asked about, whatever the other threads have inserted *)
(* since, and so that every insertion covers what it overwrites; and the    *)
(* first packet starts at this address only while none has been added.      *)

Running == {"idle", "lookup", "add", "decode", "insert", "relookup", "filled", "failed"}

Types ==
    /\ mem \in [1 .. MemWords -> Words]
    /\ IsStdMap(map, Infos)
    /\ mu \in Thread \cup {NoThread}
    /\ pc \in [Thread -> Running]
    /\ call \in [Thread -> Calls]
    /\ \A t \in Thread : mu = t => pc[t] \in {"lookup", "insert", "relookup"}
    /\ queries \in 0 .. MaxQueries /\ patches \in 0 .. MaxPatches

CallOK(t) ==
    /\ call[t].at + 2 * Len(call[t].words) <= Top
    /\ call[t].added + Len(call[t].words) <= MaxWords
    /\ call[t].added = 0 => call[t].at = call[t].addr
    /\ call[t].added # 0 => call[t].addr \in Covered(map)
    /\ pc[t] = "insert" => /\ call[t].pkt # Fail
                           /\ call[t].pkt = DecodePacket(call[t].words)
    /\ pc[t] = "relookup" => call[t].added # 0

IInv == Types /\ Spans /\ \A t \in Thread : CallOK(t)

\* A call that has an answer, or a packet in hand, is otherwise the same call.
LEMMA AnsweredCall ==
    ASSUME NEW c \in Calls, NEW r \in Results
    PROVE  LET d == [c EXCEPT !.result = r]
           IN  /\ d \in Calls /\ d.at = c.at /\ d.addr = c.addr
               /\ d.words = c.words /\ d.added = c.added
BY DEF Calls

LEMMA DecodedCall ==
    ASSUME NEW c \in Calls, NEW p \in Packets
    PROVE  LET d == [c EXCEPT !.pkt = p]
           IN  /\ d \in Calls /\ d.at = c.at /\ d.addr = c.addr
               /\ d.words = c.words /\ d.added = c.added /\ d.pkt = p
BY DEF Calls

LEMMA NoCallIsCall == NoCall \in Calls
<1>1. << >> \in Windows
  BY PacketDbAssumption DEF Windows
<1>2. QED
  BY <1>1, Constants DEF NoCall, Called, Calls, Packets, Results

LEMMA InitIInv == Init => IInv
<1> SUFFICES ASSUME Init
             PROVE  IInv
  OBVIOUS
<1>1. IsStdMap(map, Infos)
  BY Constants DEF Init, EmptyMap, IsStdMap
<1>2. Types
  BY <1>1, NoCallIsCall, PacketDbAssumption DEF Init, Types, Running
<1>3. Covered(map) = {}
  <2> SUFFICES ASSUME NEW a \in Key
               PROVE  At(map, a).pkt.size = 0
    BY DEF Covered
  <2>1. Entry(map, a) \in DOMAIN map
    BY <1>1, EntryHolds, Constants DEF IsStdMap
  <2>2. At(map, a) = NoInfo
    BY <2>1, PacketDbAssumption DEF Init, EmptyMap, At
  <2>3. QED
    BY <2>2 DEF NoInfo, Fail
<1>4. ASSUME NEW t \in Thread
      PROVE  CallOK(t)
  <2>1. call[t] = NoCall /\ pc[t] = "idle"
    BY DEF Init
  <2>2. QED
    BY <2>1, PacketDbAssumption DEF NoCall, Called, CallOK, Top
<1>5. QED
  BY <1>2, <1>3, <1>4 DEF IInv, Spans

LEMMA AskKeepsIInv ==
    ASSUME IInv, NEW t \in Thread, NEW i \in 1 .. MemWords, NEW n \in 0 .. MaxWords,
           NEW ragged \in BOOLEAN, Ask(t, i, n, ragged)
    PROVE  IInv'
<1> DEFINE ws == SubSeq(mem, i, i + n - 1)
           c  == Called(AddrOf(i), ws, ragged)
<1>1. MemWords \in Nat /\ MaxWords \in Nat /\ i \in Nat /\ n \in Nat /\ Base \in Nat
  BY PacketDbAssumption
<1>2. \A j \in i .. i + n - 1 : mem[j] \in Words
  BY <1>1 DEF IInv, Types, Ask
<1>3. i \in Int /\ i + n - 1 \in Int
  BY <1>1
<1>4. ws \in Seq(Words) /\ Len(ws) = n
  <2>1. /\ ws \in Seq(Words)
        /\ Len(ws) = IF i <= i + n - 1 THEN (i + n - 1) - i + 1 ELSE 0
    BY <1>2, <1>3, SubSeqProperties
  <2>2. QED
    BY <2>1, <1>1
<1> HIDE DEF ws
<1>5. c \in Calls /\ c.words = ws /\ c.at = AddrOf(i) /\ c.addr = AddrOf(i) /\ c.added = 0
  BY <1>4, <1>1, Constants DEF Called, Calls, Windows, Packets, Results
<1>6. call' = [call EXCEPT ![t] = c] /\ pc' = [pc EXCEPT ![t] = "lookup"]
  BY DEF Ask, ws
<1> HIDE DEF c
<1>7. Types'
  <2>1. queries' \in 0 .. MaxQueries
    BY <1>1, PacketDbAssumption DEF Ask, IInv, Types
  <2>2. QED
    BY <1>5, <1>6, <2>1 DEF Ask, IInv, Types, Running
<1>8. Spans'
  BY DEF Ask, IInv, Spans
<1>9. ASSUME NEW u \in Thread
      PROVE  CallOK(u)'
  <2>1. CASE u = t
    <3>1. call'[u] = c /\ pc'[u] = "lookup"
      BY <2>1, <1>6 DEF IInv, Types
    <3>2. AddrOf(i) + 2 * n <= Top /\ n <= MaxWords
      BY <1>1 DEF Ask, AddrOf, Top
    <3>3. QED
      BY <3>1, <3>2, <1>4, <1>5, <1>1 DEF CallOK
  <2>2. CASE u # t
    <3>1. call'[u] = call[u] /\ pc'[u] = pc[u] /\ map' = map
      BY <2>2, <1>6 DEF Ask, IInv, Types
    <3>2. QED
      BY <3>1 DEF CallOK, IInv
  <2>3. QED
    BY <2>1, <2>2
<1>10. QED
  BY <1>7, <1>8, <1>9 DEF IInv

LEMMA LockKeepsIInv ==
    ASSUME IInv, NEW t \in Thread, Lock(t)
    PROVE  IInv'
<1>1. Types'
  BY PacketDbAssumption DEF Lock, IInv, Types
<1>2. Spans' /\ \A u \in Thread : CallOK(u)'
  BY DEF Lock, IInv, Spans, CallOK
<1>3. QED
  BY <1>1, <1>2 DEF IInv

\* What a step leaves alone: the map, and the calls of the other threads.
LEMMA OtherCalls ==
    ASSUME IInv, map' = map, NEW t \in Thread,
           NEW u \in Thread \ {t}, call'[u] = call[u], pc'[u] = pc[u]
    PROVE  CallOK(u)'
BY DEF IInv, CallOK

LEMMA FirstLookupKeepsIInv ==
    ASSUME IInv, NEW t \in Thread, FirstLookup(t)
    PROVE  IInv'
<1> DEFINE info   == At(map, call[t].addr)
           result == FindInstructionInPacket(info, call[t].addr)
<1>1. call[t] \in Calls /\ call[t].addr \in Key
  BY DEF IInv, Types, Calls
<1>2. info \in Infos /\ result \in Results
  BY <1>1, AtIsInfo DEF IInv, Types, Results
<1>3. /\ map' = map /\ mem' = mem /\ mu = t /\ mu' = NoThread
      /\ queries' = queries /\ patches' = patches
  BY DEF FirstLookup, Lookup
<1>4. CASE info.pkt.size = 0
  <2>1. pc' = [pc EXCEPT ![t] = "add"] /\ call' = call
    BY <1>4 DEF FirstLookup, Lookup
  <2>2. Types'
    BY <1>3, <2>1, PacketDbAssumption DEF IInv, Types, Running
  <2>3. CallOK(t)'
    BY <1>3, <2>1 DEF IInv, Types, CallOK
  <2>4. \A u \in Thread \ {t} : CallOK(u)'
    BY <1>3, <2>1, OtherCalls DEF IInv, Types
  <2>5. QED
    BY <1>3, <2>2, <2>3, <2>4 DEF IInv, Spans
<1>5. CASE info.pkt.size # 0
  <2>1. /\ pc' = [pc EXCEPT ![t] = "filled"]
        /\ call' = [call EXCEPT ![t].result = result]
    BY <1>5 DEF FirstLookup, Lookup
  <2> HIDE DEF result, info
  <2>2. /\ call'[t].at = call[t].at /\ call'[t].addr = call[t].addr
        /\ call'[t].words = call[t].words /\ call'[t].added = call[t].added
        /\ call'[t] \in Calls
    <3>1. call'[t] = [call[t] EXCEPT !.result = result]
      BY <2>1 DEF IInv, Types
    <3>2. QED
      BY <1>1, <1>2, <3>1, AnsweredCall
  <2>3. \A u \in Thread \ {t} : call'[u] = call[u] /\ pc'[u] = pc[u]
    BY <2>1 DEF IInv, Types
  <2>4. call' \in [Thread -> Calls]
    BY <2>1, <2>2, <2>3 DEF IInv, Types
  <2>5. Types'
    BY <1>3, <2>1, <2>4, PacketDbAssumption DEF IInv, Types, Running
  <2>6. CallOK(t)'
    BY <1>3, <2>1, <2>2 DEF IInv, Types, CallOK
  <2>7. \A u \in Thread \ {t} : CallOK(u)'
    BY <1>3, <2>3, OtherCalls
  <2>8. QED
    BY <1>3, <2>5, <2>6, <2>7 DEF IInv, Spans
<1>6. QED
  BY <1>4, <1>5

\* The second Lookup finds the address: it was covered when the first packet
\* was added.
LEMMA SecondLookupFinds ==
    ASSUME IInv, NEW t \in Thread, pc[t] = "relookup"
    PROVE  At(map, call[t].addr).pkt.size # 0
BY DEF IInv, CallOK, Covered

LEMMA SecondLookupKeepsIInv ==
    ASSUME IInv, NEW t \in Thread, SecondLookup(t)
    PROVE  IInv'
<1> DEFINE info   == At(map, call[t].addr)
           result == FindInstructionInPacket(info, call[t].addr)
<1>1. call[t] \in Calls /\ call[t].addr \in Key
  BY DEF IInv, Types, Calls
<1>2. info \in Infos /\ result \in Results
  BY <1>1, AtIsInfo DEF IInv, Types, Results
<1>3. /\ map' = map /\ mem' = mem /\ mu = t /\ mu' = NoThread
      /\ queries' = queries /\ patches' = patches
  BY DEF SecondLookup, Lookup
<1>4. info.pkt.size # 0
  BY SecondLookupFinds DEF SecondLookup
<1>5. /\ pc' = [pc EXCEPT ![t] = "filled"]
      /\ call' = [call EXCEPT ![t].result = result]
  BY <1>4 DEF SecondLookup, Lookup
<1> HIDE DEF result, info
<1>6. /\ call'[t].at = call[t].at /\ call'[t].addr = call[t].addr
      /\ call'[t].words = call[t].words /\ call'[t].added = call[t].added
      /\ call'[t] \in Calls
  <2>1. call'[t] = [call[t] EXCEPT !.result = result]
    BY <1>5 DEF IInv, Types
  <2>2. QED
    BY <1>1, <1>2, <2>1, AnsweredCall
<1>7. \A u \in Thread \ {t} : call'[u] = call[u] /\ pc'[u] = pc[u]
  BY <1>5 DEF IInv, Types
<1>8. call' \in [Thread -> Calls]
  BY <1>5, <1>6, <1>7 DEF IInv, Types
<1>9. Types'
  BY <1>3, <1>5, <1>8, PacketDbAssumption DEF IInv, Types, Running
<1>10. CallOK(t)'
  BY <1>3, <1>5, <1>6 DEF IInv, Types, CallOK
<1>11. \A u \in Thread \ {t} : CallOK(u)'
  BY <1>3, <1>7, OtherCalls
<1>12. QED
  BY <1>3, <1>9, <1>10, <1>11 DEF IInv, Spans

LEMMA CheckSizeKeepsIInv ==
    ASSUME IInv, NEW t \in Thread, CheckSize(t)
    PROVE  IInv'
<1>1. pc'[t] \in {"failed", "decode"} /\ call' = call /\ map' = map
  BY DEF CheckSize, IInv, Types
<1>2. \A u \in Thread \ {t} : pc'[u] = pc[u]
  BY DEF CheckSize, IInv, Types
<1>3. Types'
  BY <1>1, <1>2 DEF CheckSize, IInv, Types, Running
<1>4. CallOK(t)'
  BY <1>1 DEF IInv, Types, CallOK
<1>5. \A u \in Thread \ {t} : CallOK(u)'
  BY <1>1, <1>2, OtherCalls
<1>6. QED
  BY <1>1, <1>3, <1>4, <1>5 DEF IInv, Spans

LEMMA DecodeNextKeepsIInv ==
    ASSUME IInv, NEW t \in Thread, DecodeNext(t)
    PROVE  IInv'
<1> DEFINE p == DecodePacket(call[t].words)
<1>1. call[t] \in Calls /\ call[t].words \in Windows
  BY DEF IInv, Types, Calls
<1>2. p \in Packets
  BY <1>1 DEF Packets
<1>3. /\ map' = map /\ mem' = mem /\ mu' = mu
      /\ queries' = queries /\ patches' = patches /\ pc[t] = "decode"
  BY DEF DecodeNext
<1>4. CASE p = Fail
  <2>1. /\ pc' = [pc EXCEPT ![t] = IF call[t].added = 0 THEN "failed" ELSE "relookup"]
        /\ call' = call
    BY <1>4 DEF DecodeNext
  <2>2. Types'
    BY <1>3, <2>1 DEF IInv, Types, Running
  <2>3. CallOK(t)'
    BY <1>3, <2>1 DEF IInv, Types, CallOK
  <2>4. \A u \in Thread \ {t} : CallOK(u)'
    BY <1>3, <2>1, OtherCalls DEF IInv, Types
  <2>5. QED
    BY <1>3, <2>2, <2>3, <2>4 DEF IInv, Spans
<1>5. CASE p # Fail
  <2>1. /\ pc' = [pc EXCEPT ![t] = "insert"]
        /\ call' = [call EXCEPT ![t].pkt = p]
    BY <1>5 DEF DecodeNext
  <2>2. /\ call'[t].at = call[t].at /\ call'[t].addr = call[t].addr
        /\ call'[t].words = call[t].words /\ call'[t].added = call[t].added
        /\ call'[t].pkt = p /\ call'[t] \in Calls
    <3> HIDE DEF p
    <3>1. call'[t] = [call[t] EXCEPT !.pkt = p]
      BY <2>1 DEF IInv, Types
    <3>2. QED
      BY <1>1, <1>2, <3>1, DecodedCall
  <2>3. \A u \in Thread \ {t} : call'[u] = call[u] /\ pc'[u] = pc[u]
    BY <2>1 DEF IInv, Types
  <2>4. call' \in [Thread -> Calls]
    <3> HIDE DEF p
    <3> QED BY <2>1, <2>2, <2>3 DEF IInv, Types
  <2>5. Types'
    BY <1>3, <2>1, <2>4 DEF IInv, Types, Running
  <2>6. CallOK(t)'
    BY <1>3, <1>5, <2>1, <2>2 DEF IInv, Types, CallOK
  <2>7. \A u \in Thread \ {t} : CallOK(u)'
    BY <1>3, <2>3, OtherCalls
  <2>8. QED
    BY <1>3, <2>5, <2>6, <2>7 DEF IInv, Spans
<1>6. QED
  BY <1>4, <1>5

LEMMA ReturnKeepsIInv ==
    ASSUME IInv, NEW t \in Thread, Return(t)
    PROVE  IInv'
<1>1. /\ map' = map /\ mem' = mem /\ mu' = mu
      /\ queries' = queries /\ patches' = patches
      /\ pc' = [pc EXCEPT ![t] = "idle"] /\ call' = [call EXCEPT ![t] = NoCall]
      /\ pc[t] \in {"filled", "failed"}
  BY DEF Return
<1>2. Types'
  BY <1>1, NoCallIsCall DEF IInv, Types, Running
<1>3. CallOK(t)'
  <2>1. call'[t] = NoCall /\ pc'[t] = "idle"
    BY <1>1 DEF IInv, Types
  <2>2. QED
    BY <2>1, PacketDbAssumption DEF NoCall, Called, CallOK, Top
<1>4. \A u \in Thread \ {t} : CallOK(u)'
  BY <1>1, OtherCalls DEF IInv, Types
<1>5. QED
  BY <1>1, <1>2, <1>3, <1>4 DEF IInv, Spans

LEMMA PatchKeepsIInv ==
    ASSUME IInv, NEW i \in 1 .. MemWords, NEW w \in Words, Patch(i, w)
    PROVE  IInv'
<1>1. patches' \in 0 .. MaxPatches
  BY PacketDbAssumption DEF Patch, IInv, Types
<1>2. Types'
  BY <1>1 DEF Patch, IInv, Types
<1>3. Spans' /\ \A u \in Thread : CallOK(u)'
  BY DEF Patch, IInv, Spans, CallOK
<1>4. QED
  BY <1>2, <1>3 DEF IInv

\* The packet about to be inserted lies in the rest of the window.
LEMMA PacketToInsert ==
    ASSUME IInv, NEW t \in Thread, Insert(t)
    PROVE  /\ call[t] \in Calls /\ call[t].pkt \in Packets /\ call[t].pkt # Fail
           /\ call[t].at \in Key
           /\ call[t].pkt.size \in 1 .. Len(call[t].words)
           /\ call[t].words \in Seq(Words) /\ Len(call[t].words) \in Nat
           /\ call[t].at + 2 * call[t].pkt.size <= Top
<1>1. call[t] \in Calls /\ pc[t] = "insert"
  BY DEF IInv, Types, Insert
<1>2. call[t].words \in Windows /\ call[t].pkt \in Packets /\ call[t].at \in Key
  BY <1>1 DEF Calls
<1>3. call[t].pkt # Fail /\ call[t].pkt = DecodePacket(call[t].words)
  BY <1>1 DEF IInv, CallOK
<1>4. call[t].words \in Seq(Word) /\ call[t].words \in Seq(Words)
  BY <1>2, WindowIsWords DEF Windows
<1>5. call[t].pkt.size \in 1 .. Len(call[t].words)
  BY <1>3, <1>4, PacketInWindow
<1>6. call[t].at + 2 * Len(call[t].words) <= Top
  BY DEF IInv, CallOK
<1>7. Len(call[t].words) \in Nat /\ call[t].at \in Nat /\ Top \in Nat
  <2>1. Len(call[t].words) \in Nat
    BY <1>4
  <2>2. call[t].at \in Nat /\ Top \in Nat
    BY <1>2, Constants
  <2>3. QED
    BY <2>1, <2>2
<1>8. call[t].at + 2 * call[t].pkt.size <= Top
  <2> DEFINE len == Len(call[t].words)
             s   == call[t].pkt.size
             at  == call[t].at
  <2>1. s \in 1 .. len /\ at + 2 * len <= Top /\ len \in Nat /\ at \in Nat /\ Top \in Nat
    BY <1>5, <1>6, <1>7
  <2> HIDE DEF len, s, at
  <2>2. at + 2 * s <= Top
    BY <2>1
  <2>3. QED
    BY <2>2 DEF s, at
<1>9. QED
  BY <1>1, <1>2, <1>3, <1>4, <1>5, <1>7, <1>8

LEMMA InsertKeepsIInv ==
    ASSUME IInv, NEW t \in Thread, Insert(t)
    PROVE  IInv'
<1> DEFINE c     == call[t]
           size  == c.pkt.size
           rest  == SubSeq(c.words, size + 1, Len(c.words))
<1>1. /\ c \in Calls /\ c.pkt \in Packets /\ c.pkt # Fail /\ c.at \in Key
      /\ size \in 1 .. Len(c.words) /\ c.words \in Seq(Words)
      /\ Len(c.words) \in Nat /\ c.at + 2 * size <= Top
  BY PacketToInsert
<1>2. /\ mem' = mem /\ queries' = queries /\ patches' = patches
      /\ mu = t /\ mu' = NoThread /\ pc' = [pc EXCEPT ![t] = "decode"]
      /\ map' = AddPacket(map, c.at, c.pkt)
      /\ call' = [call EXCEPT ![t] = Advanced(c)]
  BY DEF Insert
<1>3. IsStdMap(map, Infos)
  BY DEF IInv, Types
<1>4. /\ IsStdMap(map', Infos)
      /\ \A k \in Key : At(map', k) =
            IF c.at <= k /\ k < c.at + 2 * size
            THEN [start |-> c.at, pkt |-> c.pkt] ELSE At(map, k)
  BY <1>1, <1>2, <1>3, AddPacketCovers
<1>5. Covered(map) \subseteq Covered(map') /\ c.at \in Covered(map')
  BY <1>1, <1>2, <1>3, AddPacketGrows
<1>6. rest \in Seq(Words) /\ Len(rest) = Len(c.words) - size
  <2>1. size + 1 \in Int /\ Len(c.words) \in Int /\ size \in Int
    BY <1>1
  <2>2. \A j \in size + 1 .. Len(c.words) : c.words[j] \in Words
    BY <1>1
  <2>3. /\ SubSeq(c.words, size + 1, Len(c.words)) \in Seq(Words)
        /\ Len(SubSeq(c.words, size + 1, Len(c.words)))
             = IF size + 1 <= Len(c.words) THEN Len(c.words) - (size + 1) + 1 ELSE 0
    BY <2>1, <2>2, SubSeqProperties
  <2>4. QED
    BY <1>1, <2>3
<1>7. Plus(c.at, 2 * size) = c.at + 2 * size /\ c.at + 2 * size \in Key
  BY <1>1, NoWrap
<1>8. Advanced(c) = [addr |-> c.addr, ragged |-> c.ragged, words |-> rest,
                     at |-> c.at + 2 * size, pkt |-> Fail,
                     added |-> c.added + 1, result |-> c.result]
  BY <1>7 DEF Advanced
<1>9. /\ c.addr \in Key /\ c.ragged \in BOOLEAN /\ c.added \in Nat
      /\ c.result \in Results /\ c.words \in Windows
  BY <1>1 DEF Calls
<1>10. /\ c.at + 2 * Len(c.words) <= Top
       /\ c.added + Len(c.words) <= MaxWords
       /\ c.added = 0 => c.at = c.addr
       /\ c.added # 0 => c.addr \in Covered(map)
  BY DEF IInv, CallOK
<1>11. rest \in Windows
  <2> DEFINE l == Len(rest)
             m == Len(c.words)
  <2>1. m \in Nat /\ m <= MaxWords /\ size \in Nat /\ MaxWords \in Nat /\ l = m - size
    BY <1>1, <1>6, <1>9, PacketDbAssumption DEF Windows
  <2> HIDE DEF l, m
  <2>2. l <= MaxWords
    BY <2>1
  <2>3. QED
    BY <1>6, <2>2 DEF Windows, l
<1> HIDE DEF rest, size
<1>12. Advanced(c) \in Calls
  BY <1>7, <1>8, <1>9, <1>11 DEF Calls, Packets
<1>13. /\ call' \in [Thread -> Calls] /\ call'[t] = Advanced(c)
       /\ \A u \in Thread \ {t} : call'[u] = call[u]
  BY <1>2, <1>12 DEF IInv, Types
<1>14. /\ pc' \in [Thread -> Running] /\ pc'[t] = "decode"
       /\ \A u \in Thread \ {t} : pc'[u] = pc[u]
  BY <1>2 DEF IInv, Types, Running
<1>15. Types'
  BY <1>2, <1>4, <1>13, <1>14, PacketDbAssumption DEF IInv, Types
<1>16. Spans'
  <2> SUFFICES ASSUME NEW a \in Covered(map')
               PROVE  /\ At(map', a).start <= a
                      /\ a < At(map', a).start + 2 * At(map', a).pkt.size
    BY DEF Spans
  <2>1. a \in Key
    BY DEF Covered
  <2>2. CASE c.at <= a /\ a < c.at + 2 * size
    BY <1>4, <2>1, <2>2 DEF size
  <2>3. CASE ~(c.at <= a /\ a < c.at + 2 * size)
    <3>1. At(map', a) = At(map, a)
      BY <1>4, <2>1, <2>3
    <3>2. a \in Covered(map)
      BY <2>1, <3>1 DEF Covered
    <3>3. QED
      BY <3>1, <3>2 DEF IInv, Spans
  <2>4. QED
    BY <2>2, <2>3
<1>17. CallOK(t)'
  <2>1. /\ call'[t].at = c.at + 2 * size /\ call'[t].words = rest
        /\ call'[t].added = c.added + 1 /\ call'[t].addr = c.addr
    BY <1>8, <1>13
  <2>2. c.at \in Nat /\ Top \in Nat /\ size \in Nat /\ size >= 1 /\ MaxWords \in Nat
    <3>1. c.at \in Nat /\ Top \in Nat
      BY <1>1, Constants
    <3>2. size \in Nat /\ size >= 1
      BY <1>1 DEF size
    <3>3. QED
      BY <3>1, <3>2, PacketDbAssumption
  <2>3. c.addr \in Covered(map')
    BY <1>5, <1>10
  <2>4. c.at + 2 * size + 2 * Len(rest) <= Top /\ c.added + 1 + Len(rest) <= MaxWords
    <3> DEFINE len  == Len(c.words)
               left == Len(rest)
               at   == c.at
               n    == c.added
    <3>1. len \in Nat /\ left = len - size /\ n \in Nat /\ at \in Nat
      BY <1>1, <1>6, <1>9, <2>2
    <3>2. at + 2 * len <= Top /\ n + len <= MaxWords
      BY <1>10
    <3> HIDE DEF len, left, at, n
    <3>3. at + 2 * size + 2 * left <= Top /\ n + 1 + left <= MaxWords
      BY <2>2, <3>1, <3>2
    <3>4. QED
      BY <3>3 DEF left, at, n
  <2>5. c.added + 1 # 0
    BY <1>9
  <2>6. QED
    BY <1>14, <2>1, <2>3, <2>4, <2>5 DEF CallOK
<1>18. ASSUME NEW u \in Thread \ {t}
       PROVE  CallOK(u)'
  <2>1. call'[u] = call[u] /\ pc'[u] = pc[u] /\ CallOK(u)
    BY <1>13, <1>14 DEF IInv
  <2>2. QED
    BY <1>5, <2>1 DEF CallOK
<1>19. QED
  BY <1>15, <1>16, <1>17, <1>18 DEF IInv

-----------------------------------------------------------------------------
(* The theorems. *)

LEMMA NextKeepsIInv == IInv /\ [Next]_vars => IInv'
<1> SUFFICES ASSUME IInv, [Next]_vars
             PROVE  IInv'
  OBVIOUS
<1>1. ASSUME NEW t \in Thread, AskAny(t)
      PROVE  IInv'
  <2>1. PICK i \in 1 .. MemWords, n \in 0 .. MaxWords, ragged \in BOOLEAN :
              Ask(t, i, n, ragged)
    BY <1>1 DEF AskAny
  <2>2. QED
    BY <2>1, AskKeepsIInv
<1>2. ASSUME NEW t \in Thread, Step(t)
      PROVE  IInv'
  BY <1>2, LockKeepsIInv, FirstLookupKeepsIInv, CheckSizeKeepsIInv, DecodeNextKeepsIInv,
     InsertKeepsIInv, SecondLookupKeepsIInv, ReturnKeepsIInv DEF Step
<1>3. ASSUME NEW i \in 1 .. MemWords, NEW w \in Words, Patch(i, w)
      PROVE  IInv'
  BY <1>3, PatchKeepsIInv
<1>4. CASE UNCHANGED vars
  BY <1>4 DEF vars, IInv, Types, Spans, CallOK
<1>5. QED
  BY <1>1, <1>2, <1>3, <1>4 DEF Next

LEMMA IInvHolds == Spec => []IInv
BY InitIInv, NextKeepsIInv, PTL DEF Spec

\* The state of the callbacks stays within its types.
THEOREM TypeCorrect == Spec => []TypeOK
<1>1. IInv => TypeOK
  <2> SUFFICES ASSUME IInv
               PROVE  TypeOK
    OBVIOUS
  <2>1. ASSUME NEW t \in Thread
        PROVE  /\ pc[t] \in Running
               /\ call[t].addr \in Key /\ call[t].at \in Key
               /\ Len(call[t].words) <= MaxWords
               /\ call[t].added \in 0 .. MaxWords
    <3>1. call[t] \in Calls
      BY DEF IInv, Types
    <3>2. call[t].words \in Seq(Words) /\ call[t].added \in Nat
      BY <3>1 DEF Calls, Windows
    <3>3. Len(call[t].words) \in Nat /\ call[t].added + Len(call[t].words) <= MaxWords
      BY <3>2 DEF IInv, CallOK
    <3>4. QED
      BY <3>1, <3>2, <3>3, PacketDbAssumption DEF IInv, Types, Calls
  <2>2. QED
    BY <2>1 DEF IInv, Types, TypeOK, IsStdMap, Running
<1>2. QED
  BY <1>1, IInvHolds, PTL

\* The CHECK after AddBytes never fails, for any number of threads.
THEOREM NeverAbortsHolds == Spec => []NeverAborts
<1>1. IInv => NeverAborts
  BY DEF IInv, Types, Running, NeverAborts
<1>2. QED
  BY <1>1, IInvHolds, PTL

\* The packet at an address holds this address.
THEOREM SpansHolds == Spec => []Spans
BY IInvHolds, PTL DEF IInv

\* An address that has a packet keeps having one.
THEOREM CoverageGrowsHolds == Spec => CoverageGrows
<1>1. IInv /\ [Next]_vars => [Covered(map) \subseteq Covered(map')]_vars
  <2> SUFFICES ASSUME IInv, Next
               PROVE  Covered(map) \subseteq Covered(map')
    BY DEF vars
  <2>1. ASSUME NEW t \in Thread, Insert(t)
        PROVE  Covered(map) \subseteq Covered(map')
    <3>1. map' = AddPacket(map, call[t].at, call[t].pkt) /\ IsStdMap(map, Infos)
      BY <2>1 DEF Insert, IInv, Types
    <3>2. QED
      BY <2>1, <3>1, PacketToInsert, AddPacketGrows
  <2>2. (\E t \in Thread : Insert(t)) \/ map' = map
    BY DEF Next, AskAny, Ask, Step, Lock, FirstLookup, SecondLookup, Lookup,
           CheckSize, DecodeNext, Return, Patch
  <2>3. QED
    BY <2>1, <2>2
<1>2. QED
  BY <1>1, IInvHolds, PTL DEF Spec, CoverageGrows

-----------------------------------------------------------------------------
(* The map agrees with a binary that nobody patches: every window is a part *)
(* of the binary, so that a packet cut from it is the one that the decoder  *)
(* makes of the whole binary from the same word on.                         *)

WindowAt(a, words) ==
    \E j \in Nat :
        /\ a = Base + 2 * j
        /\ j + Len(words) <= MemWords
        /\ \A i \in 1 .. Len(words) : words[i] = mem[j + i]

MInv ==
    /\ patches = 0
    /\ FromMemory
    /\ \A t \in Thread : WindowAt(call[t].at, call[t].words)

LEMMA WindowDecodes ==
    ASSUME mem \in [1 .. MemWords -> Words], NEW a \in Key,
           NEW words \in Seq(Words), WindowAt(a, words), DecodePacket(words) # Fail
    PROVE  DecodePacket(From(a)) = DecodePacket(words)
<1>1. PICK j \in Nat : /\ a = Base + 2 * j
                       /\ j + Len(words) <= MemWords
                       /\ \A i \in 1 .. Len(words) : words[i] = mem[j + i]
  BY DEF WindowAt
<1>2. Base \in Nat /\ MemWords \in Nat /\ Len(words) \in Nat
  BY PacketDbAssumption
<1>3. words \in Seq(Word)
  BY PacketDbAssumption
<1>4. HasEnd(words)
  BY <1>3, PacketInWindow
<1>5. (a - Base) \div 2 + 1 = j + 1
  BY <1>1, <1>2
<1>6. From(a) = SubSeq(mem, j + 1, MemWords)
  BY <1>5 DEF From
<1>7. /\ SubSeq(mem, j + 1, MemWords) \in Seq(Words)
      /\ Len(SubSeq(mem, j + 1, MemWords))
           = IF j + 1 <= MemWords THEN MemWords - (j + 1) + 1 ELSE 0
      /\ \A i \in 1 .. MemWords - (j + 1) + 1 :
            SubSeq(mem, j + 1, MemWords)[i] = mem[j + 1 + i - 1]
  <2>1. j + 1 \in Int /\ MemWords \in Int
    BY <1>2
  <2>2. \A i \in j + 1 .. MemWords : mem[i] \in Words
    BY <1>2
  <2>3. QED
    BY <2>1, <2>2, SubSeqProperties
<1> DEFINE all == SubSeq(mem, j + 1, MemWords)
<1>8. all \in Seq(Word)
  BY <1>7, PacketDbAssumption
<1>9. Len(words) <= Len(all)
  BY <1>1, <1>2, <1>7
<1>10. \A i \in 1 .. Len(words) : all[i] = words[i]
  <2> SUFFICES ASSUME NEW i \in 1 .. Len(words)
               PROVE  all[i] = words[i]
    OBVIOUS
  <2>1. i \in 1 .. MemWords - (j + 1) + 1 /\ j + 1 + i - 1 = j + i
    BY <1>1, <1>2
  <2>2. QED
    BY <1>1, <1>7, <2>1
<1> HIDE DEF all
<1>11. DecodePacket(all) = DecodePacket(words)
  BY <1>3, <1>4, <1>8, <1>9, <1>10, WindowSuffices
<1>12. QED
  BY <1>6, <1>11 DEF all

LEMMA NoCallWindow == WindowAt(NoCall.at, NoCall.words)
<1>1. NoCall.at = Base /\ NoCall.words = << >>
  BY DEF NoCall, Called
<1>2. Base = Base + 2 * 0 /\ 0 \in Nat /\ 0 + Len(<< >>) <= MemWords
  BY PacketDbAssumption
<1>3. \A i \in 1 .. Len(<< >>) : << >>[i] = mem[0 + i]
  OBVIOUS
<1>4. WindowAt(Base, << >>)
  BY <1>2, <1>3 DEF WindowAt
<1>5. QED
  BY <1>1, <1>4

LEMMA AskWindow ==
    ASSUME IInv, NEW i \in 1 .. MemWords, NEW n \in 0 .. MaxWords, i + n - 1 <= MemWords
    PROVE  WindowAt(AddrOf(i), SubSeq(mem, i, i + n - 1))
<1>1. MemWords \in Nat /\ MaxWords \in Nat /\ i \in Nat /\ n \in Nat /\ i >= 1
  BY PacketDbAssumption
<1>2. i \in Int /\ i + n - 1 \in Int
  BY <1>1
<1>3. \A k \in i .. i + n - 1 : mem[k] \in Words
  BY <1>1 DEF IInv, Types
<1> DEFINE ws == SubSeq(mem, i, i + n - 1)
<1>4. /\ Len(ws) = IF i <= i + n - 1 THEN (i + n - 1) - i + 1 ELSE 0
      /\ \A k \in 1 .. (i + n - 1) - i + 1 : ws[k] = mem[i + k - 1]
  BY <1>2, <1>3, SubSeqProperties
<1> HIDE DEF ws
<1>5. Len(ws) = n
  BY <1>1, <1>4
<1>6. \A k \in 1 .. Len(ws) : ws[k] = mem[i - 1 + k]
  BY <1>1, <1>4, <1>5
<1>7. i - 1 \in Nat /\ AddrOf(i) = Base + 2 * (i - 1) /\ (i - 1) + Len(ws) <= MemWords
  BY <1>1, <1>5 DEF AddrOf
<1>8. WindowAt(AddrOf(i), ws)
  BY <1>6, <1>7 DEF WindowAt
<1>9. QED
  BY <1>8 DEF ws

LEMMA AdvancedWindow ==
    ASSUME IInv, NEW t \in Thread, Insert(t), WindowAt(call[t].at, call[t].words)
    PROVE  WindowAt(Advanced(call[t]).at, Advanced(call[t]).words)
<1> DEFINE c    == call[t]
           size == c.pkt.size
           len  == Len(c.words)
           rest == SubSeq(c.words, size + 1, len)
<1>1. /\ c.at \in Key /\ size \in 1 .. len /\ c.words \in Seq(Words)
      /\ len \in Nat /\ c.at + 2 * size <= Top
  BY PacketToInsert
<1>2. PICK j \in Nat : /\ c.at = Base + 2 * j
                       /\ j + len <= MemWords
                       /\ \A i \in 1 .. len : c.words[i] = mem[j + i]
  BY DEF WindowAt
<1>3. Plus(c.at, 2 * size) = c.at + 2 * size
  BY <1>1, NoWrap
<1>4. Advanced(c).at = c.at + 2 * size /\ Advanced(c).words = rest
  BY <1>3 DEF Advanced
<1>5. /\ Len(rest) = IF size + 1 <= len THEN len - (size + 1) + 1 ELSE 0
      /\ \A i \in 1 .. len - (size + 1) + 1 : rest[i] = c.words[size + 1 + i - 1]
  <2>1. size + 1 \in Int /\ len \in Int
    BY <1>1
  <2>2. \A i \in size + 1 .. len : c.words[i] \in Words
    BY <1>1
  <2> HIDE DEF size, len
  <2>3. QED
    BY <2>1, <2>2, SubSeqProperties
<1> HIDE DEF rest, size, len
<1>6. Len(rest) = len - size
  BY <1>1, <1>5
<1>7. \A i \in 1 .. Len(rest) : rest[i] = mem[j + size + i]
  <2> SUFFICES ASSUME NEW i \in 1 .. Len(rest)
               PROVE  rest[i] = mem[j + size + i]
    OBVIOUS
  <2>1. /\ i \in 1 .. len - (size + 1) + 1 /\ size + 1 + i - 1 = size + i
        /\ size + i \in 1 .. len /\ j + (size + i) = j + size + i
    BY <1>1, <1>6
  <2>2. rest[i] = c.words[size + i]
    BY <1>5, <2>1
  <2>3. c.words[size + i] = mem[j + (size + i)]
    BY <1>2, <2>1
  <2>4. QED
    BY <2>1, <2>2, <2>3
<1>8. /\ j + size \in Nat /\ Advanced(c).at = Base + 2 * (j + size)
      /\ (j + size) + Len(rest) <= MemWords
  <2>1. Base \in Nat /\ MemWords \in Nat /\ size \in Nat
    BY <1>1, PacketDbAssumption
  <2>2. QED
    BY <1>1, <1>2, <1>4, <1>6, <2>1
<1>9. WindowAt(Advanced(c).at, rest)
  BY <1>7, <1>8 DEF WindowAt
<1>10. QED
  BY <1>4, <1>9

\* A step that leaves the binary and the map alone.
LEMMA MInvUnchanged ==
    ASSUME MInv, mem' = mem, map' = map, patches' = patches,
           \A t \in Thread : WindowAt(call'[t].at, call'[t].words)
    PROVE  MInv'
BY DEF MInv, FromMemory, From, Covered, WindowAt

LEMMA InsertKeepsMInv ==
    ASSUME IInv, MInv, NEW t \in Thread, Insert(t)
    PROVE  MInv'
<1> DEFINE c == call[t]
<1>1. /\ c.pkt \in Packets /\ c.pkt # Fail /\ c.at \in Key
      /\ c.words \in Seq(Words) /\ c.at + 2 * c.pkt.size <= Top
  BY PacketToInsert
<1>2. /\ mem' = mem /\ patches' = patches /\ pc[t] = "insert"
      /\ map' = AddPacket(map, c.at, c.pkt)
      /\ call' = [call EXCEPT ![t] = Advanced(c)]
  BY DEF Insert
<1>3. IsStdMap(map, Infos) /\ mem \in [1 .. MemWords -> Words]
  BY DEF IInv, Types
<1>4. c.pkt = DecodePacket(c.words) /\ WindowAt(c.at, c.words)
  BY <1>2 DEF IInv, CallOK, MInv
<1>5. DecodePacket(From(c.at)) = c.pkt
  BY <1>1, <1>3, <1>4, WindowDecodes
<1>6. \A k \in Key : At(map', k) =
          IF c.at <= k /\ k < c.at + 2 * c.pkt.size
          THEN [start |-> c.at, pkt |-> c.pkt] ELSE At(map, k)
  BY <1>1, <1>2, <1>3, AddPacketCovers
<1>7. FromMemory'
  <2> SUFFICES ASSUME NEW a \in Covered(map')
               PROVE  At(map', a).pkt = DecodePacket(From(At(map', a).start))
    BY <1>2 DEF FromMemory, From
  <2>1. a \in Key
    BY DEF Covered
  <2>2. CASE At(map', a) = [start |-> c.at, pkt |-> c.pkt]
    BY <1>5, <2>2
  <2>3. CASE At(map', a) = At(map, a)
    <3>1. a \in Covered(map)
      BY <2>1, <2>3 DEF Covered
    <3>2. QED
      BY <2>3, <3>1 DEF MInv, FromMemory
  <2>4. QED
    BY <1>6, <2>1, <2>2, <2>3
<1>8. ASSUME NEW u \in Thread
      PROVE  WindowAt(call'[u].at, call'[u].words)
  <2>1. CASE u = t
    <3>1. call'[u] = Advanced(c)
      BY <1>2, <2>1 DEF IInv, Types
    <3>2. QED
      BY <1>4, <3>1, AdvancedWindow
  <2>2. CASE u # t
    <3>1. call'[u] = call[u]
      BY <1>2, <2>2 DEF IInv, Types
    <3>2. QED
      BY <3>1 DEF MInv
  <2>3. QED
    BY <2>1, <2>2
<1>9. QED
  BY <1>2, <1>7, <1>8 DEF MInv, WindowAt

LEMMA OtherStepsKeepMInv ==
    ASSUME IInv, MInv, NEW t \in Thread, Step(t), ~Insert(t)
    PROVE  MInv'
<1>1. /\ mem' = mem /\ map' = map /\ patches' = patches
      /\ \A u \in Thread \ {t} : call'[u] = call[u]
  BY DEF Step, Lock, FirstLookup, SecondLookup, Lookup, CheckSize, DecodeNext, Return,
         IInv, Types
<1>2. call[t] \in Calls
  BY DEF IInv, Types
<1>3. \/ call'[t].at = call[t].at /\ call'[t].words = call[t].words
      \/ call'[t] = NoCall
  <2>1. CASE FirstLookup(t) \/ SecondLookup(t)
    BY <1>2, <2>1 DEF FirstLookup, SecondLookup, Lookup, IInv, Types, Calls
  <2>2. CASE DecodeNext(t)
    BY <1>2, <2>2 DEF DecodeNext, IInv, Types, Calls
  <2>3. CASE Lock(t) \/ CheckSize(t)
    BY <2>3 DEF Lock, CheckSize
  <2>4. CASE Return(t)
    BY <2>4 DEF Return, IInv, Types
  <2>5. QED
    BY <2>1, <2>2, <2>3, <2>4 DEF Step
<1>4. WindowAt(call'[t].at, call'[t].words)
  BY <1>3, NoCallWindow DEF MInv
<1>5. \A u \in Thread \ {t} : WindowAt(call'[u].at, call'[u].words)
  BY <1>1 DEF MInv
<1>6. QED
  BY <1>1, <1>4, <1>5, MInvUnchanged

LEMMA AskKeepsMInv ==
    ASSUME IInv, MInv, NEW t \in Thread, AskAny(t)
    PROVE  MInv'
<1>1. PICK i \in 1 .. MemWords, n \in 0 .. MaxWords, ragged \in BOOLEAN :
            Ask(t, i, n, ragged)
  BY DEF AskAny
<1>2. /\ mem' = mem /\ map' = map /\ patches' = patches /\ i + n - 1 <= MemWords
      /\ call' = [call EXCEPT ![t] =
                     Called(AddrOf(i), SubSeq(mem, i, i + n - 1), ragged)]
  BY <1>1 DEF Ask
<1>3. /\ call'[t].at = AddrOf(i) /\ call'[t].words = SubSeq(mem, i, i + n - 1)
      /\ \A u \in Thread \ {t} : call'[u] = call[u]
  BY <1>2 DEF Called, IInv, Types
<1>4. WindowAt(call'[t].at, call'[t].words)
  BY <1>2, <1>3, AskWindow
<1>5. \A u \in Thread \ {t} : WindowAt(call'[u].at, call'[u].words)
  BY <1>3 DEF MInv
<1>6. QED
  BY <1>2, <1>4, <1>5, MInvUnchanged

LEMMA InitCoversNothing == Init => Covered(map) = {}
<1> SUFFICES ASSUME Init, NEW a \in Key
             PROVE  At(map, a).pkt.size = 0
  BY DEF Covered
<1>1. IsStdMap(map, Infos)
  BY InitIInv DEF IInv, Types
<1>2. Entry(map, a) \in DOMAIN map
  BY <1>1, EntryHolds, Constants DEF IsStdMap
<1>3. At(map, a) = NoInfo
  BY <1>2, PacketDbAssumption DEF Init, EmptyMap, At
<1>4. QED
  BY <1>3 DEF NoInfo, Fail

LEMMA InitMInv == Init => MInv
<1> SUFFICES ASSUME Init
             PROVE  MInv
  OBVIOUS
<1>1. Covered(map) = {}
  BY InitCoversNothing
<1>2. FromMemory
  BY <1>1 DEF FromMemory
<1>3. \A t \in Thread : WindowAt(call[t].at, call[t].words)
  BY NoCallWindow DEF Init
<1>4. QED
  BY <1>2, <1>3 DEF Init, MInv

LEMMA CallsKeepMInv ==
    ASSUME IInv, MInv, NEW t \in Thread, AskAny(t) \/ Step(t)
    PROVE  MInv'
BY AskKeepsMInv, InsertKeepsMInv, OtherStepsKeepMInv

\* Without patches, whatever windows the callbacks passed and however they
\* interleaved, the map holds only packets of the binary.
THEOREM FromMemoryHolds == MaxPatches = 0 => (Spec => []FromMemory)
<1> SUFFICES ASSUME MaxPatches = 0
             PROVE  Spec => []FromMemory
  OBVIOUS
<1>1. IInv /\ MInv /\ [Next]_vars => MInv'
  <2> SUFFICES ASSUME IInv, MInv, [Next]_vars
               PROVE  MInv'
    OBVIOUS
  <2>1. ASSUME NEW t \in Thread, AskAny(t) \/ Step(t)
        PROVE  MInv'
    BY <2>1, CallsKeepMInv
  <2>2. ASSUME NEW i \in 1 .. MemWords, NEW w \in Words, Patch(i, w)
        PROVE  MInv'
    BY <2>2 DEF Patch, MInv
  <2>3. CASE UNCHANGED vars
    BY <2>3, MInvUnchanged DEF vars, MInv
  <2>4. QED
    BY <2>1, <2>2, <2>3 DEF Next
<1>2. MInv => FromMemory
  BY DEF MInv
<1>3. QED
  BY <1>1, <1>2, InitMInv, IInvHolds, PTL DEF Spec

-----------------------------------------------------------------------------
(***************************************************************************)
(* The answers of the callbacks: a lookup that finds a packet finds the    *)
(* instruction of the address, and the words of a packet share it out.     *)
(***************************************************************************)
-----------------------------------------------------------------------------
(* Places in a packet. *)

\* A decoded packet of the database has its instructions where its words are.
LEMMA LayoutOf ==
    ASSUME NEW p \in Packets, p # Fail
    PROVE  LET n == p.size
           IN  /\ n \in Nat /\ n >= 1 /\ Len(p.insns) \in Nat
               /\ \A i \in 1 .. n - 1 : ~IsSubInsn(p.insns[i]) /\ ~IsEndloop(p.insns[i])
               /\ ~IsEndloop(p.insns[n])
               /\ IF IsSubInsn(p.insns[n])
                  THEN /\ Len(p.insns) \in {n + 1, n + 2} /\ IsSubInsn(p.insns[n + 1])
                       /\ Len(p.insns) = n + 2 => IsEndloop(p.insns[n + 2])
                  ELSE /\ Len(p.insns) \in {n, n + 1}
                       /\ Len(p.insns) = n + 1 => IsEndloop(p.insns[n + 1])
<1>1. PICK ws \in Windows : p = DecodePacket(ws)
  BY DEF Packets
<1>2. ws \in Seq(Word)
  BY WindowIsWords
<1>3. QED
  BY <1>1, <1>2, PacketLayout

\* Offsets of words, of the second half of a duplex, and of a pseudo-instruction.
LEMMA OffsetsOf ==
    ASSUME NEW p \in Packets, p # Fail
    PROVE  LET n == p.size
           IN  /\ \A i \in 1 .. n : Offset(p.insns, i) = 2 * (i - 1)
               /\ IsSubInsn(p.insns[n]) => /\ Offset(p.insns, n + 1) = 2 * n - 1
                                           /\ Offset(p.insns, n + 2) = 2 * n
               /\ ~IsSubInsn(p.insns[n]) => Offset(p.insns, n + 1) = 2 * n
<1> DEFINE n     == p.size
           insns == p.insns
           Subs(i) == {j \in 1 .. i - 1 : IsSubInsn(insns[j])}
<1>1. /\ n \in Nat /\ n >= 1
      /\ \A i \in 1 .. n - 1 : ~IsSubInsn(insns[i])
      /\ IsSubInsn(insns[n]) => IsSubInsn(insns[n + 1])
  BY LayoutOf
<1>2. \A i : Offset(insns, i) = 2 * (i - 1) - Cardinality(Subs(i))
  BY DEF Offset
<1> HIDE DEF n, insns
<1>3. ASSUME NEW i \in 1 .. n
      PROVE  Offset(insns, i) = 2 * (i - 1)
  <2>1. Subs(i) = {}
    BY <1>1
  <2>2. Cardinality(Subs(i)) = 0
    BY <2>1, FS_EmptySet
  <2>3. QED
    BY <1>1, <1>2, <2>2
<1>4. (n + 1) - 1 = n /\ (n + 2) - 1 = n + 1
  BY <1>1
<1>5. ASSUME ~IsSubInsn(insns[n])
      PROVE  Offset(insns, n + 1) = 2 * n
  <2>1. Subs(n + 1) = {}
    BY <1>1, <1>4, <1>5
  <2>2. Cardinality(Subs(n + 1)) = 0
    BY <2>1, FS_EmptySet
  <2>3. 2 * ((n + 1) - 1) - 0 = 2 * n
    BY <1>1
  <2>4. QED
    BY <1>2, <2>2, <2>3
<1>6. ASSUME IsSubInsn(insns[n])
      PROVE  Offset(insns, n + 1) = 2 * n - 1 /\ Offset(insns, n + 2) = 2 * n
  <2>1. Subs(n + 1) = {n}
    BY <1>1, <1>4, <1>6
  <2>2. Cardinality(Subs(n + 1)) = 1
    BY <2>1, FS_Singleton
  <2>3. Subs(n + 2) = {n} \cup {n + 1}
    BY <1>1, <1>4, <1>6
  <2>4. Cardinality({n} \cup {n + 1}) = 2
    <3>1. IsFiniteSet({n}) /\ Cardinality({n}) = 1
      BY FS_Singleton
    <3>2. n + 1 \notin {n}
      BY <1>1
    <3>3. QED
      BY <3>1, <3>2, FS_AddElement
  <2>5. 2 * ((n + 1) - 1) - 1 = 2 * n - 1 /\ 2 * ((n + 2) - 1) - 2 = 2 * n
    BY <1>1
  <2>6. QED
    BY <1>2, <2>2, <2>3, <2>4, <2>5
<1>7. QED
  BY <1>3, <1>5, <1>6 DEF n, insns

\* An instruction starts inside its packet; those after the words start past the last word.
LEMMA OffsetsWithin ==
    ASSUME NEW p \in Packets, p # Fail, NEW i \in 1 .. Len(p.insns)
    PROVE  /\ Offset(p.insns, i) \in 0 .. 2 * p.size
           /\ i > p.size => Offset(p.insns, i) >= 2 * p.size - 1
<1> DEFINE n   == p.size
           off == Offset(p.insns, i)
           l   == Len(p.insns)
<1>1. /\ n \in Nat /\ n >= 1 /\ l \in Nat
      /\ IF IsSubInsn(p.insns[n]) THEN l \in {n + 1, n + 2} ELSE l \in {n, n + 1}
  BY LayoutOf
<1>2. /\ i \in 1 .. n => off = 2 * (i - 1)
      /\ IsSubInsn(p.insns[n]) => /\ i = n + 1 => off = 2 * n - 1
                                  /\ i = n + 2 => off = 2 * n
      /\ ~IsSubInsn(p.insns[n]) => (i = n + 1 => off = 2 * n)
  BY OffsetsOf
<1>3. i \in 1 .. l
  OBVIOUS
<1> HIDE DEF n, off, l
<1>4. CASE i <= n
  BY <1>1, <1>2, <1>3, <1>4 DEF n, off
<1>5. CASE i > n
  <2>1. i = n + 1 \/ i = n + 2
    BY <1>1, <1>3, <1>5
  <2>2. i = n + 2 => IsSubInsn(p.insns[n])
    BY <1>1, <1>3
  <2>3. off = 2 * n - 1 \/ off = 2 * n
    BY <1>2, <2>1, <2>2
  <2>4. QED
    BY <1>1, <2>3 DEF n, off
<1>6. QED
  BY <1>1, <1>3, <1>4, <1>5

\* The search finds the instruction of each word at the word's address, and nothing else.
LEMMA FindsTheWord ==
    ASSUME NEW p \in Packets, p # Fail, NEW start \in Key, start + 2 * p.size <= Top,
           NEW k \in 1 .. p.size
    PROVE  LET a == start + 2 * (k - 1)
           IN  FindInstructionInPacket([start |-> start, pkt |-> p], a) =
                   [pc |-> start, pkt |-> p, insn_num |-> k, insn_addr |-> a]
<1> DEFINE n       == p.size
           insns   == p.insns
           a       == start + 2 * (k - 1)
           addr(i) == Plus(start, Offset(insns, i))
           here    == {i \in 1 .. Len(insns) :
                          addr(i) <= a /\ a < Plus(addr(i), InsnSize(insns[i]))}
<1>1. n \in Nat /\ start \in Nat /\ Top \in Nat /\ k \in Nat /\ k >= 1 /\ k <= n
  BY LayoutOf, Constants
<1>2. n <= Len(insns) /\ Len(insns) \in Nat
  BY LayoutOf
<1>3. \A i \in 1 .. Len(insns) :
          /\ Offset(insns, i) \in 0 .. 2 * n
          /\ i > n => Offset(insns, i) >= 2 * n - 1
          /\ i <= n => Offset(insns, i) = 2 * (i - 1)
  BY OffsetsWithin, OffsetsOf
<1>4. start + 2 * n <= Top
  OBVIOUS
<1> HIDE DEF n, insns, a
<1>5. a = start + 2 * (k - 1) /\ a \in Nat
  BY <1>1 DEF a
<1>6. ASSUME NEW i \in 1 .. Len(insns)
      PROVE  /\ addr(i) = start + Offset(insns, i) /\ addr(i) \in Nat
             /\ i <= n => /\ addr(i) = start + 2 * (i - 1)
                          /\ Plus(addr(i), InsnSize(insns[i])) = addr(i) + InsnSize(insns[i])
             /\ i > n => addr(i) > a
  <2> DEFINE off == Offset(insns, i)
  <2>1. off \in 0 .. 2 * n
    BY <1>3
  <2>2. off \in Nat /\ start + off <= Top
    BY <1>1, <1>4, <2>1
  <2>3. addr(i) = start + off /\ start + off \in Key
    BY <2>2, NoWrap
  <2>4. i <= n => off = 2 * (i - 1)
    BY <1>3
  <2>5. i > n => off >= 2 * n - 1
    BY <1>3
  <2>6. InsnSize(insns[i]) \in {1, 2}
    BY DEF InsnSize
  <2> HIDE DEF off
  <2>7. i \in Int /\ start + off \in Nat
    <3>1. i \in Int
      BY <1>2
    <3>2. start + off \in Nat
      BY <1>1, <2>2
    <3>3. QED
      BY <3>1, <3>2
  <2>8. i <= n => start + off + InsnSize(insns[i]) <= Top
    BY <1>1, <1>4, <2>2, <2>4, <2>6, <2>7
  <2>9. i <= n => Plus(start + off, InsnSize(insns[i])) = start + off + InsnSize(insns[i])
    BY <2>3, <2>6, <2>8, NoWrap
  <2>10. i > n => start + off > a
    BY <1>1, <1>5, <2>2, <2>5, <2>7
  <2>11. QED
    BY <2>3, <2>4, <2>7, <2>9, <2>10 DEF off
<1> HIDE DEF addr
<1>7. \A i : InsnSize(insns[i]) \in {1, 2}
  BY DEF InsnSize
<1>8. k \in here
  <2>1. k \in 1 .. Len(insns)
    BY <1>1, <1>2
  <2>2. addr(k) = a /\ Plus(addr(k), InsnSize(insns[k])) = a + InsnSize(insns[k])
    BY <1>1, <1>5, <1>6, <2>1
  <2>3. a <= a /\ a < a + InsnSize(insns[k])
    BY <1>5, <1>7
  <2>4. QED
    BY <2>1, <2>2, <2>3
<1>9. \A i \in here : i = k
  <2> SUFFICES ASSUME NEW i \in here
               PROVE  i = k
    OBVIOUS
  <2>1. /\ i \in 1 .. Len(insns) /\ i \in Int
        /\ addr(i) <= a /\ a < Plus(addr(i), InsnSize(insns[i]))
    OBVIOUS
  <2> HIDE DEF here
  <2>2. i <= n
    BY <1>1, <1>5, <1>6, <2>1
  <2>3. addr(i) = start + 2 * (i - 1) /\ a < addr(i) + InsnSize(insns[i])
    BY <1>6, <2>1, <2>2
  <2>4. i <= k /\ k < i + 1
    BY <1>1, <1>5, <1>7, <2>1, <2>3
  <2>5. QED
    BY <1>1, <2>1, <2>4
<1>10. here # {} /\ (CHOOSE i \in here : \A j \in here : i <= j) = k
  <2> HIDE DEF here
  <2>1. k <= k
    BY <1>1
  <2>2. QED
    BY <1>8, <1>9, <2>1
<1>11. addr(k) = a
  BY <1>1, <1>2, <1>5, <1>6
<1>12. QED
  BY <1>10, <1>11 DEF FindInstructionInPacket, addr, insns, a

-----------------------------------------------------------------------------
(* The invariant: windows, packets and questions keep in step with the      *)
(* words of the binary, so an address inside a packet is that of one of its *)
(* words.                                                                   *)

Aligned(a) == \E j \in Int : a = Base + 2 * j

Placed(info) == Aligned(info.start) /\ info.start + 2 * info.pkt.size <= Top

\* A result is one word of a packet, at the address that was asked for.
Answered(a, r) ==
    /\ r.pkt \in Packets /\ r.pkt # Fail
    /\ r.pc \in Key /\ r.pc + 2 * r.pkt.size <= Top
    /\ r.insn_num \in 1 .. r.pkt.size
    /\ r.insn_addr = a /\ a = r.pc + 2 * (r.insn_num - 1)

CallAligned(t) == Aligned(call[t].addr) /\ Aligned(call[t].at)
CallAnswered(t) == pc[t] = "filled" => Answered(call[t].addr, call[t].result)

AInv ==
    /\ \A a \in Covered(map) : Placed(At(map, a))
    /\ \A t \in Thread : CallAligned(t) /\ CallAnswered(t)

\* A lookup under the invariant answers with the word at its address.
LEMMA LookupAnswers ==
    ASSUME IInv, AInv, NEW a \in Covered(map), Aligned(a)
    PROVE  Answered(a, FindInstructionInPacket(At(map, a), a))
<1> DEFINE info  == At(map, a)
           start == info.start
           p     == info.pkt
<1>1. a \in Key /\ p.size # 0
  BY DEF Covered
<1>2. info \in Infos
  BY <1>1, AtIsInfo DEF IInv, Types
<1>3. info = [start |-> start, pkt |-> p] /\ start \in Key /\ p \in Packets
  BY <1>2 DEF Infos
<1>4. p # Fail /\ p.size \in Nat
  BY <1>1, <1>3, PacketSize
<1>5. start <= a /\ a < start + 2 * p.size
  BY DEF IInv, Spans
<1>6. Aligned(start) /\ start + 2 * p.size <= Top
  BY DEF AInv, Placed
<1> HIDE DEF info, start, p
<1>7. PICK i \in Int : start = Base + 2 * i
  BY <1>6 DEF Aligned
<1>8. PICK j \in Int : a = Base + 2 * j
  BY DEF Aligned
<1>9. Base \in Int
  BY PacketDbAssumption
<1> DEFINE k == j - i + 1
<1>10. k \in 1 .. p.size /\ a = start + 2 * (k - 1)
  BY <1>4, <1>5, <1>7, <1>8, <1>9
<1> HIDE DEF k
<1>11. FindInstructionInPacket(info, a) =
           [pc |-> start, pkt |-> p, insn_num |-> k, insn_addr |-> a]
  BY <1>3, <1>4, <1>6, <1>10, FindsTheWord
<1>12. Answered(a, [pc |-> start, pkt |-> p, insn_num |-> k, insn_addr |-> a])
  BY <1>3, <1>4, <1>6, <1>10 DEF Answered
<1>13. QED
  BY <1>11, <1>12 DEF info

LEMMA BaseAligned == Aligned(Base) /\ \A i \in 1 .. MemWords : Aligned(AddrOf(i))
<1>1. Base \in Nat
  BY PacketDbAssumption
<1>2. Aligned(Base)
  <2>1. Base = Base + 2 * 0
    BY <1>1
  <2>2. QED
    BY <2>1 DEF Aligned
<1>3. ASSUME NEW i \in 1 .. MemWords
      PROVE  Aligned(AddrOf(i))
  <2>1. i - 1 \in Int
    BY PacketDbAssumption
  <2>2. QED
    BY <2>1 DEF Aligned, AddrOf
<1>4. QED
  BY <1>2, <1>3

\* A thread whose call a step leaves alone keeps what is said of it.
LEMMA OtherAnswers ==
    ASSUME AInv, NEW u \in Thread, call'[u] = call[u], pc'[u] = pc[u]
    PROVE  CallAligned(u)' /\ CallAnswered(u)'
BY DEF AInv, CallAligned, CallAnswered

\* A thread whose address stays and which is not "filled" afterwards.
LEMMA SameCall ==
    ASSUME AInv, NEW t \in Thread, pc'[t] # "filled",
           call'[t].addr = call[t].addr, call'[t].at = call[t].at
    PROVE  CallAligned(t)' /\ CallAnswered(t)'
BY DEF AInv, CallAligned, CallAnswered

LEMMA InitAInv == Init => AInv
<1> SUFFICES ASSUME Init
             PROVE  AInv
  OBVIOUS
<1>1. \A a \in Key : At(map, a).pkt.size = 0
  <2> SUFFICES ASSUME NEW a \in Key
               PROVE  At(map, a).pkt.size = 0
    OBVIOUS
  <2>1. IsStdMap(map, Infos)
    BY InitIInv DEF IInv, Types
  <2>2. Entry(map, a) \in DOMAIN map
    BY <2>1, EntryHolds, Constants DEF IsStdMap
  <2>3. At(map, a) = NoInfo
    BY <2>2, PacketDbAssumption DEF Init, EmptyMap, At
  <2>4. QED
    BY <2>3 DEF NoInfo, Fail
<1>2. Covered(map) = {}
  BY <1>1 DEF Covered
<1>3. ASSUME NEW t \in Thread
      PROVE  CallAligned(t) /\ CallAnswered(t)
  <2>1. call[t].addr = Base /\ call[t].at = Base /\ pc[t] = "idle"
    BY DEF Init, NoCall, Called
  <2>2. QED
    BY <2>1, BaseAligned DEF CallAligned, CallAnswered
<1>4. QED
  BY <1>2, <1>3 DEF AInv

LEMMA AskKeepsAInv ==
    ASSUME IInv, AInv, NEW t \in Thread, NEW i \in 1 .. MemWords, NEW n \in 0 .. MaxWords,
           NEW ragged \in BOOLEAN, Ask(t, i, n, ragged)
    PROVE  AInv'
<1>1. /\ map' = map /\ pc' = [pc EXCEPT ![t] = "lookup"]
      /\ call' = [call EXCEPT ![t] = Called(AddrOf(i), SubSeq(mem, i, i + n - 1), ragged)]
  BY DEF Ask
<1>2. /\ pc'[t] = "lookup" /\ call'[t].addr = AddrOf(i) /\ call'[t].at = AddrOf(i)
      /\ \A u \in Thread \ {t} : call'[u] = call[u] /\ pc'[u] = pc[u]
  BY <1>1 DEF IInv, Types, Called
<1>3. CallAligned(t)' /\ CallAnswered(t)'
  BY <1>2, BaseAligned DEF CallAligned, CallAnswered
<1>4. \A u \in Thread \ {t} : CallAligned(u)' /\ CallAnswered(u)'
  BY <1>2, OtherAnswers
<1>5. QED
  BY <1>1, <1>3, <1>4 DEF AInv

\* Both lookups: a miss goes on elsewhere, a hit is answered.
LEMMA LookupKeepsAInv ==
    ASSUME IInv, AInv, NEW t \in Thread, NEW miss \in {"add", "aborted"}, Lookup(t, miss)
    PROVE  AInv'
<1> DEFINE a      == call[t].addr
           result == FindInstructionInPacket(At(map, a), a)
<1>1. map' = map /\ call[t] \in Calls /\ a \in Key
  BY DEF Lookup, IInv, Types, Calls
<1>2. CASE At(map, a).pkt.size = 0
  <2>1. pc' = [pc EXCEPT ![t] = miss] /\ call' = call
    BY <1>2 DEF Lookup
  <2>2. /\ pc'[t] # "filled" /\ call'[t] = call[t]
        /\ \A u \in Thread \ {t} : call'[u] = call[u] /\ pc'[u] = pc[u]
    BY <2>1 DEF IInv, Types
  <2>3. CallAligned(t)' /\ CallAnswered(t)'
    BY <2>2, SameCall
  <2>4. \A u \in Thread \ {t} : CallAligned(u)' /\ CallAnswered(u)'
    BY <2>2, OtherAnswers
  <2>5. QED
    BY <1>1, <2>3, <2>4 DEF AInv
<1>3. CASE At(map, a).pkt.size # 0
  <2>1. pc' = [pc EXCEPT ![t] = "filled"] /\ call' = [call EXCEPT ![t].result = result]
    BY <1>3 DEF Lookup
  <2>2. a \in Covered(map) /\ Aligned(a)
    BY <1>1, <1>3 DEF Covered, AInv, CallAligned
  <2>3. Answered(a, result)
    BY <2>2, LookupAnswers
  <2> HIDE DEF result
  <2>4. /\ call'[t].addr = a /\ call'[t].at = call[t].at /\ call'[t].result = result
        /\ \A u \in Thread \ {t} : call'[u] = call[u] /\ pc'[u] = pc[u]
    BY <1>1, <2>1 DEF IInv, Types, Calls
  <2>5. CallAligned(t)' /\ CallAnswered(t)'
    BY <2>3, <2>4 DEF AInv, CallAligned, CallAnswered
  <2>6. \A u \in Thread \ {t} : CallAligned(u)' /\ CallAnswered(u)'
    BY <2>4, OtherAnswers
  <2>7. QED
    BY <1>1, <2>5, <2>6 DEF AInv
<1>4. QED
  BY <1>2, <1>3

LEMMA DecodeNextKeepsAInv ==
    ASSUME IInv, AInv, NEW t \in Thread, DecodeNext(t)
    PROVE  AInv'
<1> DEFINE p == DecodePacket(call[t].words)
<1>1. /\ map' = map /\ call[t] \in Calls
      /\ pc' = [pc EXCEPT ![t] = IF p # Fail THEN "insert"
                                  ELSE IF call[t].added = 0 THEN "failed" ELSE "relookup"]
      /\ call' = call \/ call' = [call EXCEPT ![t].pkt = p]
  BY DEF DecodeNext, IInv, Types
<1> HIDE DEF p
<1>2. /\ pc'[t] # "filled" /\ call'[t].addr = call[t].addr /\ call'[t].at = call[t].at
      /\ \A u \in Thread \ {t} : call'[u] = call[u] /\ pc'[u] = pc[u]
  BY <1>1 DEF IInv, Types, Calls
<1>3. CallAligned(t)' /\ CallAnswered(t)'
  BY <1>2, SameCall
<1>4. \A u \in Thread \ {t} : CallAligned(u)' /\ CallAnswered(u)'
  BY <1>2, OtherAnswers
<1>5. QED
  BY <1>1, <1>3, <1>4 DEF AInv

LEMMA InsertKeepsAInv ==
    ASSUME IInv, AInv, NEW t \in Thread, Insert(t)
    PROVE  AInv'
<1> DEFINE c    == call[t]
           size == c.pkt.size
<1>1. /\ c \in Calls /\ c.pkt \in Packets /\ c.pkt # Fail /\ c.at \in Key
      /\ size \in 1 .. Len(c.words) /\ Len(c.words) \in Nat /\ c.at + 2 * size <= Top
  BY PacketToInsert
<1>2. /\ pc' = [pc EXCEPT ![t] = "decode"] /\ map' = AddPacket(map, c.at, c.pkt)
      /\ call' = [call EXCEPT ![t] = Advanced(c)]
  BY DEF Insert
<1>3. \A k \in Key : At(map', k) = IF c.at <= k /\ k < c.at + 2 * size
                                   THEN [start |-> c.at, pkt |-> c.pkt] ELSE At(map, k)
  BY <1>1, <1>2, AddPacketCovers DEF IInv, Types
<1>4. size \in Nat /\ Plus(c.at, 2 * size) = c.at + 2 * size
  BY <1>1, NoWrap
<1>5. Aligned(c.addr) /\ Aligned(c.at)
  BY DEF AInv, CallAligned
<1>6. Aligned(c.at + 2 * size)
  <2>1. PICK j \in Int : c.at = Base + 2 * j
    BY <1>5 DEF Aligned
  <2>2. c.at + 2 * size = Base + 2 * (j + size) /\ j + size \in Int
    BY <1>4, <2>1, PacketDbAssumption
  <2>3. QED
    BY <2>2 DEF Aligned
<1>7. /\ call'[t].addr = c.addr /\ call'[t].at = c.at + 2 * size /\ pc'[t] = "decode"
      /\ \A u \in Thread \ {t} : call'[u] = call[u] /\ pc'[u] = pc[u]
  BY <1>2, <1>4 DEF IInv, Types, Advanced
<1>8. \A a \in Covered(map') : Placed(At(map', a))
  <2> SUFFICES ASSUME NEW a \in Covered(map')
               PROVE  Placed(At(map', a))
    OBVIOUS
  <2>1. a \in Key
    BY DEF Covered
  <2>2. CASE c.at <= a /\ a < c.at + 2 * size
    BY <1>1, <1>3, <1>5, <2>1, <2>2 DEF Placed
  <2>3. CASE ~(c.at <= a /\ a < c.at + 2 * size)
    BY <1>3, <2>1, <2>3 DEF Covered, AInv
  <2>4. QED
    BY <2>2, <2>3
<1>9. CallAligned(t)' /\ CallAnswered(t)'
  BY <1>5, <1>6, <1>7 DEF CallAligned, CallAnswered
<1>10. \A u \in Thread \ {t} : CallAligned(u)' /\ CallAnswered(u)'
  BY <1>7, OtherAnswers
<1>11. AInv' = ((\A a \in Covered(map') : Placed(At(map', a)))
                /\ \A u \in Thread : CallAligned(u)' /\ CallAnswered(u)')
  BY DEF AInv, Placed, Aligned, Top
<1>12. QED
  BY <1>8, <1>9, <1>10, <1>11

LEMMA ReturnKeepsAInv ==
    ASSUME IInv, AInv, NEW t \in Thread, Return(t)
    PROVE  AInv'
<1>1. /\ map' = map /\ pc' = [pc EXCEPT ![t] = "idle"] /\ call' = [call EXCEPT ![t] = NoCall]
  BY DEF Return
<1>2. /\ pc'[t] = "idle" /\ call'[t].addr = Base /\ call'[t].at = Base
      /\ \A u \in Thread \ {t} : call'[u] = call[u] /\ pc'[u] = pc[u]
  BY <1>1 DEF IInv, Types, NoCall, Called
<1>3. CallAligned(t)' /\ CallAnswered(t)'
  BY <1>2, BaseAligned DEF CallAligned, CallAnswered
<1>4. \A u \in Thread \ {t} : CallAligned(u)' /\ CallAnswered(u)'
  BY <1>2, OtherAnswers
<1>5. QED
  BY <1>1, <1>3, <1>4 DEF AInv

\* Steps that move no address: waiting for the mutex, the check of the size, a patch.
LEMMA QuietStepsKeepAInv ==
    ASSUME IInv, AInv,
           \/ \E t \in Thread : Lock(t) \/ CheckSize(t)
           \/ \E i \in 1 .. MemWords, w \in Words : Patch(i, w)
           \/ UNCHANGED vars
    PROVE  AInv'
<1>1. /\ map' = map /\ call' = call
      /\ \A u \in Thread : pc'[u] = pc[u] \/ pc'[u] # "filled"
  BY DEF Lock, CheckSize, Patch, vars, IInv, Types
<1>2. \A u \in Thread : CallAligned(u)' /\ CallAnswered(u)'
  BY <1>1, OtherAnswers, SameCall
<1>3. QED
  BY <1>1, <1>2 DEF AInv

LEMMA NextKeepsAInv == IInv /\ AInv /\ [Next]_vars => AInv'
<1> SUFFICES ASSUME IInv, AInv, [Next]_vars
             PROVE  AInv'
  OBVIOUS
<1>1. ASSUME NEW t \in Thread, AskAny(t)
      PROVE  AInv'
  <2>1. PICK i \in 1 .. MemWords, n \in 0 .. MaxWords, ragged \in BOOLEAN :
              Ask(t, i, n, ragged)
    BY <1>1 DEF AskAny
  <2>2. QED
    BY <2>1, AskKeepsAInv
<1>2. ASSUME NEW t \in Thread, Step(t)
      PROVE  AInv'
  <2>1. CASE Lock(t)
    BY <2>1, QuietStepsKeepAInv
  <2>2. CASE FirstLookup(t)
    BY <2>2, LookupKeepsAInv DEF FirstLookup
  <2>3. CASE CheckSize(t)
    BY <2>3, QuietStepsKeepAInv
  <2>4. CASE DecodeNext(t)
    BY <2>4, DecodeNextKeepsAInv
  <2>5. CASE Insert(t)
    BY <2>5, InsertKeepsAInv
  <2>6. CASE SecondLookup(t)
    BY <2>6, LookupKeepsAInv DEF SecondLookup
  <2>7. CASE Return(t)
    BY <2>7, ReturnKeepsAInv
  <2>8. QED
    BY <1>2, <2>1, <2>2, <2>3, <2>4, <2>5, <2>6, <2>7 DEF Step
<1>3. ASSUME NEW i \in 1 .. MemWords, NEW w \in Words, Patch(i, w)
      PROVE  AInv'
  BY <1>3, QuietStepsKeepAInv
<1>4. CASE UNCHANGED vars
  BY <1>4, QuietStepsKeepAInv
<1>5. QED
  BY <1>1, <1>2, <1>3, <1>4 DEF Next

LEMMA AInvHolds == Spec => []AInv
<1>1. IInv /\ IInv' /\ AInv /\ [Next]_vars => AInv'
  BY NextKeepsAInv
<1>2. QED
  BY <1>1, InitAInv, IInvHolds, PTL DEF Spec

-----------------------------------------------------------------------------
(* The theorems. *)

\* A callback that gets a packet gets one of its words' instructions at the address it asked
\* about: FillBnInstructionInfo, FillBnInstructionTextTokens and the lifter never see
\* insn_num == num_insns, an unaligned insn_addr or an endloop (insn_util.cc:75,144, il_util.cc:71).
THEOREM AnswerSoundHolds == Spec => []AnswerSound
<1>1. AInv => AnswerSound
  <2> SUFFICES ASSUME AInv, NEW t \in Thread, pc[t] = "filled"
               PROVE  LET r == call[t].result
                      IN  /\ r.insn_addr = call[t].addr
                          /\ r.insn_num \in 1 .. Len(r.pkt.insns)
                          /\ ~IsEndloop(r.pkt.insns[r.insn_num])
    BY DEF AnswerSound
  <2> DEFINE r == call[t].result
             n == r.pkt.size
             k == r.insn_num
  <2>1. /\ r.pkt \in Packets /\ r.pkt # Fail
        /\ k \in 1 .. n /\ r.insn_addr = call[t].addr
    BY DEF AInv, CallAnswered, Answered
  <2> HIDE DEF r
  <2>2. /\ n \in Nat /\ n <= Len(r.pkt.insns) /\ Len(r.pkt.insns) \in Nat
        /\ \A i \in 1 .. n - 1 : ~IsEndloop(r.pkt.insns[i])
        /\ ~IsEndloop(r.pkt.insns[n])
    BY <2>1, LayoutOf
  <2>3. k \in 1 .. Len(r.pkt.insns) /\ (k = n \/ k \in 1 .. n - 1)
    BY <2>1, <2>2
  <2>4. QED
    BY <2>1, <2>2, <2>3 DEF r
<1>2. QED
  BY <1>1, AInvHolds, PTL

LEMMA SameWord ==
    \A a \in Nat, n \in Nat : \A k \in 1 .. n :
        /\ k = 1 <=> a + 2 * (k - 1) = a
        /\ k = n <=> a + 2 * (k - 1) = a + 2 * (n - 1)
OBVIOUS

\* What a word of a packet shows: itself, and in a duplex at the end both halves.
LEMMA WordShows ==
    ASSUME NEW p \in Packets, p # Fail, NEW start \in Nat, NEW k \in 1 .. p.size
    PROVE  LET n     == p.size
               a     == start + 2 * (k - 1)
               at(i) == start + Offset(p.insns, i)
               shown == IF IsSubInsn(p.insns[k]) THEN k .. k + 1 ELSE {k}
           IN  /\ shown = {i \in 1 .. LastInsn(p.insns) : at(i) \in a .. a + 1}
               /\ k = n <=> \/ k = LastInsn(p.insns)
                            \/ IsSubInsn(p.insns[k]) /\ k + 1 = LastInsn(p.insns)
<1> DEFINE n     == p.size
           insns == p.insns
           last  == LastInsn(insns)
           a     == start + 2 * (k - 1)
           at(i) == start + Offset(insns, i)
           shown == IF IsSubInsn(insns[k]) THEN k .. k + 1 ELSE {k}
<1>1. /\ n \in Nat /\ n >= 1 /\ Len(insns) \in Nat
      /\ \A i \in 1 .. n - 1 : ~IsSubInsn(insns[i])
      /\ ~IsEndloop(insns[n])
      /\ IF IsSubInsn(insns[n])
         THEN /\ Len(insns) \in {n + 1, n + 2} /\ IsSubInsn(insns[n + 1])
              /\ Len(insns) = n + 2 => IsEndloop(insns[n + 2])
         ELSE /\ Len(insns) \in {n, n + 1}
              /\ Len(insns) = n + 1 => IsEndloop(insns[n + 1])
  BY LayoutOf
<1>2. /\ \A i \in 1 .. n : Offset(insns, i) = 2 * (i - 1)
      /\ IsSubInsn(insns[n]) => Offset(insns, n + 1) = 2 * n - 1
  BY OffsetsOf
<1>3. k \in Int /\ 1 <= k /\ k <= n
  BY <1>1
<1> HIDE DEF n, insns
<1>4. k = n \/ k < n
  BY <1>1, <1>3
<1>5. k < n => ~IsSubInsn(insns[k])
  <2>1. k < n => k \in 1 .. n - 1
    BY <1>1, <1>3
  <2>2. QED
    BY <1>1, <2>1
<1>6. CASE IsSubInsn(insns[n])
  <2>1. last = n + 1
    <3>1. ~IsEndloop(insns[n + 1])
      BY <1>1, <1>6 DEF IsSubInsn, IsEndloop
    <3>2. CASE Len(insns) = n + 1
      BY <3>1, <3>2 DEF LastInsn
    <3>3. CASE Len(insns) = n + 2
      <4>1. IsEndloop(insns[n + 2]) /\ (n + 2) - 1 = n + 1
        BY <1>1, <1>6, <3>3
      <4>2. QED
        BY <3>3, <4>1 DEF LastInsn
    <3>4. QED
      BY <1>1, <1>6, <3>2, <3>3
  <2> HIDE DEF last
  <2>2. IsSubInsn(insns[k]) <=> k = n
    BY <1>5, <1>6, <1>4
  <2>3. k = n <=> k = last \/ (IsSubInsn(insns[k]) /\ k + 1 = last)
    BY <1>1, <1>3, <2>1, <2>2
  <2>4. \A i \in 1 .. last : at(i) \in a .. a + 1 <=> i = k \/ (k = n /\ i = n + 1)
    <3> SUFFICES ASSUME NEW i \in 1 .. last
                 PROVE  at(i) \in a .. a + 1 <=> i = k \/ (k = n /\ i = n + 1)
      OBVIOUS
    <3>1. i \in Int /\ 1 <= i /\ i <= n + 1
      BY <1>1, <2>1
    <3>2. CASE i <= n
      <4>1. at(i) = start + 2 * (i - 1)
        BY <1>1, <1>2, <3>1, <3>2
      <4> HIDE DEF at
      <4>2. QED
        BY <1>1, <1>3, <3>1, <3>2, <4>1
    <3>3. CASE i = n + 1
      <4>1. at(i) = start + (2 * n - 1)
        BY <1>2, <1>6, <3>3
      <4> HIDE DEF at
      <4>2. QED
        BY <1>1, <1>3, <3>3, <4>1
    <3>4. QED
      BY <1>1, <3>1, <3>2, <3>3
  <2> HIDE DEF at
  <2>5. CASE k = n
    <3>1. shown = n .. n + 1
      BY <1>6, <2>5
    <3>2. {i \in 1 .. last : at(i) \in a .. a + 1} = n .. n + 1
      BY <1>1, <2>1, <2>4, <2>5
    <3>3. QED
      BY <2>3, <3>1, <3>2 DEF last, at, n, insns
  <2>6. CASE k # n
    <3>1. shown = {k}
      BY <2>2, <2>6
    <3>2. {i \in 1 .. last : at(i) \in a .. a + 1} = {k}
      BY <1>1, <1>3, <2>1, <2>4, <2>6
    <3>3. QED
      BY <2>3, <3>1, <3>2 DEF last, at, n, insns
  <2>7. QED
    BY <2>5, <2>6
<1>7. CASE ~IsSubInsn(insns[n])
  <2>1. last = n
    <3>1. CASE Len(insns) = n
      BY <1>1, <3>1 DEF LastInsn
    <3>2. CASE Len(insns) = n + 1
      <4>1. IsEndloop(insns[n + 1]) /\ (n + 1) - 1 = n
        BY <1>1, <1>7, <3>2
      <4>2. QED
        BY <3>2, <4>1 DEF LastInsn
    <3>3. QED
      BY <1>1, <1>7, <3>1, <3>2
  <2> HIDE DEF last
  <2>2. ~IsSubInsn(insns[k])
    BY <1>5, <1>7, <1>4
  <2>3. k = n <=> k = last \/ (IsSubInsn(insns[k]) /\ k + 1 = last)
    BY <2>1, <2>2
  <2>4. \A i \in 1 .. last : at(i) \in a .. a + 1 <=> i = k
    <3> SUFFICES ASSUME NEW i \in 1 .. last
                 PROVE  at(i) \in a .. a + 1 <=> i = k
      OBVIOUS
    <3>1. i \in Int /\ i \in 1 .. n
      BY <1>1, <2>1
    <3>2. at(i) = start + 2 * (i - 1)
      BY <1>2, <3>1
    <3> HIDE DEF at
    <3>3. QED
      BY <1>1, <1>3, <3>1, <3>2
  <2> HIDE DEF at
  <2>5. shown = {k}
    BY <2>2
  <2>6. {i \in 1 .. last : at(i) \in a .. a + 1} = {k}
    BY <1>1, <1>3, <2>1, <2>4
  <2>7. QED
    BY <2>3, <2>5, <2>6 DEF last, at, n, insns
<1>8. QED
  BY <1>6, <1>7

\* The three callbacks divide every packet among its words alike: code at the first word,
\* branches at the last, every instruction but the endloop shown once.
THEOREM WordsShareOutHolds == Spec => []WordsShareOut
<1>1. AInv => WordsShareOut
  <2> SUFFICES ASSUME AInv, NEW t \in Thread, pc[t] = "filled"
               PROVE  LET r     == call[t].result
                          last  == r.pc + 2 * (r.pkt.size - 1)
                          at(i) == r.pc + Offset(r.pkt.insns, i)
                      IN  /\ HasCode(r) <=> r.insn_addr = r.pc
                          /\ HasBranches(r) <=> r.insn_addr = last
                          /\ HasText(r) = {i \in 1 .. LastInsn(r.pkt.insns) :
                                               at(i) \in r.insn_addr .. r.insn_addr + 1}
    BY DEF WordsShareOut
  <2> DEFINE r == call[t].result
             n == r.pkt.size
             k == r.insn_num
  <2>1. /\ r.pkt \in Packets /\ r.pkt # Fail /\ r.pc \in Key
        /\ k \in 1 .. n /\ r.insn_addr = r.pc + 2 * (k - 1)
    BY DEF AInv, CallAnswered, Answered
  <2> HIDE DEF r
  <2>2. r.pc \in Nat /\ n \in Nat
    BY <2>1, Constants, PacketSize
  <2>3. /\ k = 1 <=> r.pc + 2 * (k - 1) = r.pc
        /\ k = n <=> r.pc + 2 * (k - 1) = r.pc + 2 * (n - 1)
    <3> DEFINE a == r.pc
    <3>1. a \in Nat /\ n \in Nat /\ k \in 1 .. n
      BY <2>1, <2>2
    <3> HIDE DEF a, n, k
    <3>2. (k = 1 <=> a + 2 * (k - 1) = a) /\ (k = n <=> a + 2 * (k - 1) = a + 2 * (n - 1))
      BY <3>1, SameWord
    <3>3. QED
      BY <3>2 DEF a
  <2>4. HasCode(r) <=> r.insn_addr = r.pc
    BY <2>1, <2>3 DEF HasCode
  <2>5. /\ HasText(r) = {i \in 1 .. LastInsn(r.pkt.insns) :
                             r.pc + Offset(r.pkt.insns, i) \in r.insn_addr .. r.insn_addr + 1}
        /\ k = n <=> HasBranches(r)
    BY <2>1, <2>2, WordShows DEF HasText, HasBranches
  <2>6. HasBranches(r) <=> r.insn_addr = r.pc + 2 * (n - 1)
    BY <2>1, <2>3, <2>5
  <2>7. QED
    BY <2>4, <2>5, <2>6 DEF r
<1>2. QED
  BY <1>1, AInvHolds, PTL

-----------------------------------------------------------------------------
(***************************************************************************)
(* The orders in which Binary Ninja asks.                                  *)
(***************************************************************************)

\* info is the packet that begins behind the j-th word.
PacketAt(info, j) ==
    /\ info.start = Base + 2 * j
    /\ info.pkt.size \in 1 .. MemWords - j
    /\ IsPacketEnd(mem[j + info.pkt.size])
    /\ \A i \in j + 1 .. j + info.pkt.size - 1 : ~IsPacketEnd(mem[i])

Within(a, info) == info.start <= a /\ a < info.start + 2 * info.pkt.size

\* A packet begins behind the j-th word, if one begins at the first word.
Boundary(j) == j = 0 \/ IsPacketEnd(mem[j])

\* Of two packets of the binary, the one that begins inside the other ends
\* where it ends, or before.
LEMMA EndsTogether ==
    ASSUME NEW x, NEW j \in 0 .. MemWords, PacketAt(x, j),
           NEW y, NEW k \in 0 .. MemWords, PacketAt(y, k),
           j <= k, k < j + x.pkt.size
    PROVE  k + y.pkt.size <= j + x.pkt.size
<1> DEFINE m == x.pkt.size
           n == y.pkt.size
<1>1. MemWords \in Nat /\ j \in Nat /\ k \in Nat /\ m \in Nat /\ n \in Nat
  BY PacketDbAssumption DEF PacketAt
<1>2. IsPacketEnd(mem[j + m]) /\ \A i \in k + 1 .. k + n - 1 : ~IsPacketEnd(mem[i])
  BY DEF PacketAt
<1>3. j + m \notin k + 1 .. k + n - 1
  BY <1>2
<1> HIDE DEF m, n
<1>4. k + n <= j + m
  BY <1>1, <1>3 DEF m
<1>5. QED
  BY <1>4 DEF m, n

\* Packets that begin where the one before ends do not overlap.
LEMMA BeginsOnce ==
    ASSUME NEW x, NEW j \in 0 .. MemWords, PacketAt(x, j),
           NEW k \in 0 .. MemWords, Boundary(k),
           j <= k, k < j + x.pkt.size
    PROVE  j = k
<1> DEFINE m == x.pkt.size
<1>1. MemWords \in Nat /\ j \in Nat /\ k \in Nat /\ m \in Nat
  BY PacketDbAssumption DEF PacketAt
<1>2. \A i \in j + 1 .. j + m - 1 : ~IsPacketEnd(mem[i])
  BY DEF PacketAt
<1>3. k = 0 \/ k \notin j + 1 .. j + m - 1
  BY <1>2 DEF Boundary
<1>4. k < j + m
  OBVIOUS
<1> HIDE DEF m
<1>5. QED
  BY <1>1, <1>3, <1>4

LEMMA SameStart ==
    ASSUME NEW x, NEW j \in 0 .. MemWords, PacketAt(x, j), Boundary(j),
           NEW y, NEW k \in 0 .. MemWords, PacketAt(y, k), Boundary(k),
           NEW a \in Key, Within(a, x), Within(a, y)
    PROVE  j = k
<1> DEFINE m == x.pkt.size
           n == y.pkt.size
<1>1. MemWords \in Nat /\ j \in Nat /\ k \in Nat /\ m \in Nat /\ n \in Nat
  BY PacketDbAssumption DEF PacketAt
<1>2. Base \in Nat /\ a \in Nat
  BY PacketDbAssumption, Constants
<1>3. /\ Base + 2 * j <= a /\ a < Base + 2 * j + 2 * m
      /\ Base + 2 * k <= a /\ a < Base + 2 * k + 2 * n
  BY DEF PacketAt, Within
<1>4. j < k + n /\ k < j + m
  <2> HIDE DEF m, n
  <2>1. QED
    BY <1>1, <1>2, <1>3
<1>5. j <= k \/ k <= j
  BY <1>1
<1>6. CASE j <= k
  BY <1>4, <1>6, BeginsOnce
<1>7. CASE k <= j
  BY <1>4, <1>7, BeginsOnce
<1>8. QED
  BY <1>5, <1>6, <1>7

\* What an insertion puts in the map, and where the call goes on.
LEMMA InsertPutsPacket ==
    ASSUME IInv, MInv, NEW t \in Thread, Insert(t)
    PROVE  LET c   == call[t]
               new == [start |-> c.at, pkt |-> c.pkt]
               end == c.at + 2 * c.pkt.size
           IN  /\ c.at \in Key /\ c.pkt.size \in Nat /\ c.pkt.size # 0
               /\ \A a \in Key : At(map', a) = IF Within(a, new) THEN new ELSE At(map, a)
               /\ Covered(map) \subseteq Covered(map')
               /\ \A a \in Key : Within(a, new) => a \in Covered(map')
               /\ \A a \in Covered(map') : a \in Key /\ (~Within(a, new) => a \in Covered(map))
               /\ call'[t] = Advanced(c) /\ call'[t].at = end
<1> DEFINE c   == call[t]
           new == [start |-> c.at, pkt |-> c.pkt]
           end == c.at + 2 * c.pkt.size
<1>1. /\ c.at \in Key /\ c.pkt \in Packets /\ c.pkt # Fail /\ end <= Top
      /\ map' = AddPacket(map, c.at, c.pkt) /\ IsStdMap(map, Infos)
  BY PacketToInsert DEF Insert, IInv, Types
<1>2. c.pkt.size \in Nat /\ c.pkt.size # 0
  BY <1>1, PacketSize
<1>3. \A a \in Key : At(map', a) = IF Within(a, new) THEN new ELSE At(map, a)
  BY <1>1, AddPacketCovers DEF Within
<1>4. Covered(map) \subseteq Covered(map')
  BY <1>1, AddPacketGrows
<1>5. \A a \in Key : Within(a, new) => a \in Covered(map')
  BY <1>2, <1>3 DEF Covered
<1>6. \A a \in Covered(map') : a \in Key /\ (~Within(a, new) => a \in Covered(map))
  BY <1>3 DEF Covered
<1>7. call'[t] = Advanced(c)
  BY DEF Insert, IInv, Types
<1>8. Advanced(c).at = end
  BY <1>1, <1>2, NoWrap DEF Advanced
<1>9. QED
  BY <1>1, <1>2, <1>3, <1>4, <1>5, <1>6, <1>7, <1>8

LEMMA InsertsPacketAt ==
    ASSUME IInv, MInv, NEW t \in Thread, Insert(t)
    PROVE  LET new == [start |-> call[t].at, pkt |-> call[t].pkt]
           IN  \E j \in 0 .. MemWords : PacketAt(new, j)
<1> DEFINE c    == call[t]
           size == c.pkt.size
<1>1. /\ c.words \in Seq(Words) /\ c.words \in Seq(Word) /\ c.pkt # Fail
      /\ c.pkt = DecodePacket(c.words) /\ WindowAt(c.at, c.words)
  <2>1. c.words \in Seq(Words) /\ c.pkt # Fail
    BY PacketToInsert
  <2>2. c.words \in Seq(Word)
    BY <2>1, PacketDbAssumption
  <2>3. pc[t] = "insert"
    BY DEF Insert
  <2>4. c.pkt = DecodePacket(c.words)
    BY <2>3 DEF IInv, CallOK
  <2>5. WindowAt(c.at, c.words)
    BY DEF MInv
  <2>6. QED
    BY <2>1, <2>2, <2>4, <2>5
<1>2. PICK j \in Nat : /\ c.at = Base + 2 * j
                       /\ j + Len(c.words) <= MemWords
                       /\ \A i \in 1 .. Len(c.words) : c.words[i] = mem[j + i]
  BY <1>1 DEF WindowAt
<1>3. size \in 1 .. Len(c.words) /\ size = WordsRead(c.words) /\ HasEnd(c.words)
  BY <1>1, PacketInWindow
<1>4. /\ IsPacketEnd(c.words[size])
      /\ \A i \in 1 .. size - 1 : ~IsPacketEnd(c.words[i])
  BY <1>1, <1>3, FirstEnd
<1>5. Len(c.words) \in Nat /\ MemWords \in Nat
  BY <1>1, PacketDbAssumption
<1> DEFINE len == Len(c.words)
<1>6. IsPacketEnd(mem[j + size])
  BY <1>2, <1>3, <1>4
<1>7. ASSUME NEW i \in j + 1 .. j + size - 1
      PROVE  ~IsPacketEnd(mem[i])
  <2>1. i - j \in 1 .. size - 1 /\ i - j \in 1 .. len /\ j + (i - j) = i
    <3>1. size \in 1 .. len /\ len \in Nat
      BY <1>3, <1>5
    <3> HIDE DEF size, len
    <3>2. QED
      BY <3>1
  <2>2. c.words[i - j] = mem[i]
    BY <1>2, <2>1
  <2>3. QED
    BY <1>4, <2>1, <2>2
<1>8. size \in 1 .. MemWords - j /\ j \in 0 .. MemWords
  <2>1. size \in 1 .. len /\ len \in Nat /\ j + len <= MemWords
    BY <1>2, <1>3, <1>5
  <2> HIDE DEF size, len
  <2>2. QED
    BY <1>5, <2>1
<1>9. PacketAt([start |-> c.at, pkt |-> c.pkt], j)
  BY <1>2, <1>6, <1>7, <1>8 DEF PacketAt
<1>10. QED
  BY <1>8, <1>9

\* The steps of a call that change neither the map nor, but for the end of the
\* call, what it adds and where.
LEMMA OtherSteps ==
    ASSUME IInv, NEW t \in Thread, Step(t), ~Insert(t)
    PROVE  /\ mem' = mem /\ map' = map
           /\ \A u \in Thread \ {t} : pc'[u] = pc[u] /\ call'[u] = call[u]
           /\ pc[t] # "idle"
           /\ \/ call'[t].at = call[t].at /\ call'[t].addr = call[t].addr
                 /\ call'[t].added = call[t].added
              \/ pc'[t] = "idle"
           /\ \/ pc'[t] = pc[t]
              \/ pc'[t] \in {"relookup", "filled", "failed", "aborted", "idle"}
              \/ pc[t] \in {"add", "decode", "insert"} /\ pc'[t] \in {"add", "decode", "insert"}
              \/ /\ pc[t] = "lookup" /\ pc'[t] = "add"
                 /\ call[t].addr \notin Covered(map)
<1>1. call[t] \in Calls /\ pc \in [Thread -> Running] /\ call \in [Thread -> Calls]
  BY DEF IInv, Types
<1>2. CASE Lock(t)
  BY <1>1, <1>2 DEF Lock
<1>3. CASE FirstLookup(t)
  BY <1>1, <1>3 DEF FirstLookup, Lookup, Covered, Calls
<1>4. CASE SecondLookup(t)
  BY <1>1, <1>4 DEF SecondLookup, Lookup, Calls
<1>5. CASE CheckSize(t)
  BY <1>1, <1>5 DEF CheckSize
<1>6. CASE DecodeNext(t)
  BY <1>1, <1>6 DEF DecodeNext, Calls
<1>7. CASE Return(t)
  BY <1>1, <1>7 DEF Return
<1>8. QED
  BY <1>2, <1>3, <1>4, <1>5, <1>6, <1>7 DEF Step

-----------------------------------------------------------------------------
(* The inductive invariant of the orders. *)

Adding == {"add", "decode", "insert"}

\* Every entry is a packet of the binary, and one that begins where the one
\* before ends when calls follow control.
Entries ==
    \A a \in Covered(map) : \E j \in 0 .. MemWords :
        PacketAt(At(map, a), j) /\ (order = "reached" => Boundary(j))

\* What is between an address and the start of its packet is in the map too.
Contiguous ==
    \A a \in Covered(map), b \in Key :
        At(map, a).start <= b /\ b <= a => b \in Covered(map)

NoneAdded == \A t \in Thread : pc[t] = "lookup" => call[t].added = 0

OneCall ==
    order = "alone" => \A t, u \in Thread : pc[t] # "idle" /\ pc[u] # "idle" => t = u

\* No packet of the map reaches from before what is added into it.
Fresh ==
    order = "alone" =>
        \A t \in Thread, a \in Covered(map) :
            pc[t] \in Adding /\ call[t].at <= a => call[t].at <= At(map, a).start

\* A call that may add packets does so from the first word of one.
Begins(t) ==
    \/ pc[t] = "lookup" /\ call[t].addr \in Covered(map)
    \/ \E j \in 0 .. MemWords : call[t].at = Base + 2 * j /\ Boundary(j)

FromStarts ==
    order = "reached" =>
        \A t \in Thread : pc[t] \in {"lookup"} \cup Adding => Begins(t)

OInv ==
    /\ order \in {"any", "alone", "reached"}
    /\ Entries /\ Contiguous /\ NoneAdded /\ OneCall /\ Fresh /\ FromStarts

LEMMA InitOInv == OrderedInit => OInv
<1> SUFFICES ASSUME OrderedInit
             PROVE  OInv
  OBVIOUS
<1>1. Covered(map) = {} /\ \A t \in Thread : pc[t] = "idle"
  BY InitCoversNothing DEF OrderedInit, Init
<1>2. QED
  BY <1>1 DEF OrderedInit, OInv, Entries, Contiguous, NoneAdded, OneCall, Fresh,
              FromStarts, Adding

LEMMA AskIs ==
    ASSUME NEW t \in Thread, AskOrdered(t), order \in {"any", "alone", "reached"}
    PROVE  \E i \in 1 .. MemWords, n \in 0 .. MaxWords, ragged \in BOOLEAN :
               /\ Ask(t, i, n, ragged)
               /\ order = "alone" => \A u \in Thread : pc[u] = "idle"
               /\ order = "reached" => i \in Reached
<1>1. CASE order = "reached"
  <2>1. PICK i \in Reached, n \in 0 .. MaxWords : Ask(t, i, n, FALSE)
    BY <1>1 DEF AskOrdered
  <2>2. i \in 1 .. MemWords /\ FALSE \in BOOLEAN
    BY DEF Reached
  <2>3. QED
    BY <1>1, <2>1, <2>2
<1>2. CASE order = "alone"
  BY <1>2 DEF AskOrdered, AskAny
<1>3. CASE order = "any"
  BY <1>3 DEF AskOrdered, AskAny
<1>4. QED
  BY <1>1, <1>2, <1>3

LEMMA AskKeepsOInv ==
    ASSUME IInv, OInv, NEW t \in Thread, AskOrdered(t), order' = order
    PROVE  OInv'
<1>1. PICK i \in 1 .. MemWords, n \in 0 .. MaxWords, ragged \in BOOLEAN :
               /\ Ask(t, i, n, ragged)
               /\ order = "alone" => \A u \in Thread : pc[u] = "idle"
               /\ order = "reached" => i \in Reached
  BY AskIs DEF OInv
<1>2. /\ map' = map /\ mem' = mem
      /\ pc'[t] = "lookup" /\ call'[t].at = AddrOf(i) /\ call'[t].addr = AddrOf(i)
      /\ call'[t].added = 0
      /\ \A u \in Thread \ {t} : pc'[u] = pc[u] /\ call'[u] = call[u]
  BY <1>1 DEF Ask, Called, IInv, Types
<1>3. Entries' /\ Contiguous'
  BY <1>2 DEF OInv, Entries, Contiguous, Covered, PacketAt, Boundary
<1>4. NoneAdded'
  BY <1>2 DEF OInv, NoneAdded
<1>5. OneCall'
  BY <1>1, <1>2 DEF OneCall
<1>6. Fresh'
  BY <1>2 DEF OInv, Fresh, Adding, Covered
<1>7. FromStarts'
  <2> SUFFICES ASSUME order = "reached", NEW u \in Thread, pc'[u] \in {"lookup"} \cup Adding
               PROVE  Begins(u)'
    BY DEF FromStarts
  <2>1. CASE u # t
    BY <1>2, <2>1 DEF OInv, FromStarts, Begins, Covered, Boundary
  <2>2. CASE u = t
    <3>1. CASE AddrOf(i) \in Covered(map)
      BY <1>2, <2>2, <3>1 DEF Begins, Covered
    <3>2. CASE i = 1 \/ IsPacketEnd(mem[i - 1])
      <4>1. /\ i - 1 \in 0 .. MemWords /\ AddrOf(i) = Base + 2 * (i - 1)
            /\ i = 1 => i - 1 = 0
        BY PacketDbAssumption DEF AddrOf
      <4>2. Boundary(i - 1)
        BY <3>2, <4>1 DEF Boundary
      <4>3. QED
        BY <1>2, <2>2, <4>1, <4>2 DEF Begins, Boundary
    <3>3. QED
      BY <1>1, <3>1, <3>2 DEF Reached
  <2>3. QED
    BY <2>1, <2>2
<1>8. QED
  BY <1>3, <1>4, <1>5, <1>6, <1>7 DEF OInv

LEMMA StepKeepsOInv ==
    ASSUME IInv, OInv, NEW t \in Thread, Step(t), ~Insert(t), order' = order
    PROVE  OInv'
<1>1. /\ mem' = mem /\ map' = map
      /\ \A u \in Thread \ {t} : pc'[u] = pc[u] /\ call'[u] = call[u]
      /\ pc[t] # "idle"
      /\ \/ call'[t].at = call[t].at /\ call'[t].addr = call[t].addr
            /\ call'[t].added = call[t].added
         \/ pc'[t] = "idle"
      /\ \/ pc'[t] = pc[t]
         \/ pc'[t] \in {"relookup", "filled", "failed", "aborted", "idle"}
         \/ pc[t] \in {"add", "decode", "insert"} /\ pc'[t] \in {"add", "decode", "insert"}
         \/ /\ pc[t] = "lookup" /\ pc'[t] = "add"
            /\ call[t].addr \notin Covered(map)
  BY OtherSteps
<1>2. Covered(map') = Covered(map)
  BY <1>1 DEF Covered
<1>3. Entries' /\ Contiguous'
  BY <1>1, <1>2 DEF OInv, Entries, Contiguous, PacketAt, Boundary
<1>4. NoneAdded'
  BY <1>1 DEF OInv, NoneAdded
<1>5. OneCall'
  BY <1>1 DEF OInv, OneCall
<1>6. Fresh'
  <2> SUFFICES ASSUME order = "alone", NEW u \in Thread, NEW a \in Covered(map),
                      pc'[u] \in Adding, call'[u].at <= a
               PROVE  call'[u].at <= At(map, a).start
    BY <1>1, <1>2 DEF Fresh
  <2>1. CASE u # t
    BY <1>1, <2>1 DEF OInv, Fresh
  <2>2. CASE u = t /\ pc[t] \in Adding
    BY <1>1, <2>2 DEF OInv, Fresh, Adding
  <2>3. CASE u = t /\ pc[t] = "lookup" /\ call[t].addr \notin Covered(map)
    <3>1. call'[t].at = call[t].at /\ call[t].at = call[t].addr
      BY <1>1, <2>3 DEF OInv, NoneAdded, IInv, CallOK, Adding
    <3>2. call[t].at \in Key /\ call[t].at \in Nat
      BY Constants DEF IInv, Types, Calls
    <3>3. At(map, a).start \in Nat
      BY Constants, AtIsInfo DEF IInv, Types, Infos, Covered
    <3>4. ~(At(map, a).start <= call[t].at /\ call[t].at <= a)
      BY <2>3, <3>1, <3>2 DEF OInv, Contiguous
    <3>5. QED
      BY <2>3, <3>1, <3>2, <3>3, <3>4
  <2>4. QED
    BY <1>1, <2>1, <2>2, <2>3 DEF Adding
<1>7. FromStarts'
  <2> SUFFICES ASSUME order = "reached", NEW u \in Thread, pc'[u] \in {"lookup"} \cup Adding
               PROVE  Begins(u)'
    BY <1>1 DEF FromStarts
  <2>1. CASE u # t
    BY <1>1, <1>2, <2>1 DEF OInv, FromStarts, Begins, Boundary
  <2>2. CASE u = t
    <3>1. /\ call'[t].at = call[t].at /\ call'[t].addr = call[t].addr
          /\ pc[t] \in {"lookup"} \cup Adding
      BY <1>1, <2>2 DEF Adding
    <3>2. Begins(t)
      BY <3>1 DEF OInv, FromStarts
    <3>3. pc'[t] = pc[t] \/ pc[t] # "lookup" \/ call[t].addr \notin Covered(map)
      BY <1>1, <2>2 DEF Adding
    <3>4. CASE \E j \in 0 .. MemWords : call[t].at = Base + 2 * j /\ Boundary(j)
      BY <1>1, <2>2, <3>1, <3>4 DEF Begins, Boundary
    <3>5. CASE pc'[t] = "lookup" /\ call[t].addr \in Covered(map)
      BY <1>2, <2>2, <3>1, <3>5 DEF Begins
    <3>6. QED
      BY <3>2, <3>3, <3>4, <3>5 DEF Begins
  <2>3. QED
    BY <2>1, <2>2
<1>8. QED
  BY <1>3, <1>4, <1>5, <1>6, <1>7 DEF OInv

\* The packet that is inserted, and where it begins when calls follow control.
LEMMA InsertsEntry ==
    ASSUME IInv, MInv, OInv, NEW t \in Thread, Insert(t)
    PROVE  LET new == [start |-> call[t].at, pkt |-> call[t].pkt]
           IN  \E j \in 0 .. MemWords : /\ PacketAt(new, j)
                                        /\ order = "reached" => Boundary(j)
<1> DEFINE new == [start |-> call[t].at, pkt |-> call[t].pkt]
<1>1. PICK j \in 0 .. MemWords : PacketAt(new, j)
  BY InsertsPacketAt
<1>2. ASSUME order = "reached"
      PROVE  Boundary(j)
  <2>1. pc[t] = "insert"
    BY DEF Insert
  <2>2. PICK k \in 0 .. MemWords : call[t].at = Base + 2 * k /\ Boundary(k)
    BY <1>2, <2>1 DEF OInv, FromStarts, Begins, Adding
  <2>3. call[t].at = Base + 2 * j
    BY <1>1 DEF PacketAt
  <2>4. j = k
    BY <2>2, <2>3, PacketDbAssumption
  <2>5. QED
    BY <2>2, <2>4
<1>3. QED
  BY <1>1, <1>2

\* Nothing in the map reaches from inside an inserted packet to behind it.
LEMMA FreshBehind ==
    ASSUME IInv, MInv, OInv, NEW t \in Thread, Insert(t), order = "alone",
           NEW a \in Covered(map), call[t].at + 2 * call[t].pkt.size <= a
    PROVE  call[t].at + 2 * call[t].pkt.size <= At(map, a).start
<1> DEFINE new  == [start |-> call[t].at, pkt |-> call[t].pkt]
           old  == At(map, a)
           at   == call[t].at
           m    == call[t].pkt.size
           n    == old.pkt.size
<1>1. PICK j \in 0 .. MemWords : PacketAt(new, j)
  BY InsertsPacketAt
<1>2. PICK k \in 0 .. MemWords : PacketAt(old, k)
  BY DEF OInv, Entries
<1>3. /\ at = Base + 2 * j /\ old.start = Base + 2 * k
      /\ m \in 1 .. MemWords - j /\ n \in 1 .. MemWords - k
  BY <1>1, <1>2 DEF PacketAt
<1>4. /\ a \in Nat /\ Base \in Nat /\ MemWords \in Nat /\ j \in Nat /\ k \in Nat
      /\ m \in Nat /\ n \in Nat
  <2>1. a \in Nat
    BY Constants DEF Covered
  <2>2. Base \in Nat /\ MemWords \in Nat
    BY PacketDbAssumption
  <2>3. j \in Nat /\ k \in Nat
    OBVIOUS
  <2>4. m \in Nat /\ n \in Nat
    <3> HIDE DEF m, n
    <3>1. QED
      BY <1>3, <2>2, <2>3
  <2>5. QED
    BY <2>1, <2>2, <2>3, <2>4
<1>5. a < old.start + 2 * n
  BY DEF IInv, Spans
<1>6. at <= a
  <2> HIDE DEF at, m, n, old
  <2>1. QED
    BY <1>3, <1>4 DEF at, m
<1>7. at <= old.start
  BY <1>6 DEF OInv, Fresh, Adding, Insert
<1>8. ASSUME k < j + m
      PROVE  FALSE
  <2>1. j <= k
    <3> HIDE DEF at, m, n, old
    <3>1. QED
      BY <1>3, <1>4, <1>7
  <2>2. k + n <= j + m
    BY <1>1, <1>2, <1>8, <2>1, EndsTogether
  <2>3. at + 2 * m <= a
    OBVIOUS
  <2> HIDE DEF at, m, n, old
  <2>4. QED
    BY <1>3, <1>4, <1>5, <2>2, <2>3
<1>9. at + 2 * m <= old.start
  <2> HIDE DEF at, m, n, old
  <2>1. QED
    BY <1>3, <1>4, <1>8
<1>10. QED
  BY <1>9

LEMMA InsertKeepsOInv ==
    ASSUME IInv, MInv, OInv, NEW t \in Thread, Insert(t), order' = order
    PROVE  OInv'
<1> DEFINE new  == [start |-> call[t].at, pkt |-> call[t].pkt]
           size == call[t].pkt.size
           end  == call[t].at + 2 * size
<1>1. /\ call[t].at \in Key /\ size \in Nat /\ size # 0
      /\ \A a \in Key : At(map', a) = IF Within(a, new) THEN new ELSE At(map, a)
      /\ Covered(map) \subseteq Covered(map')
      /\ \A a \in Key : Within(a, new) => a \in Covered(map')
      /\ \A a \in Covered(map') : a \in Key /\ (~Within(a, new) => a \in Covered(map))
      /\ call'[t].at = end
  BY InsertPutsPacket
<1>2. PICK j \in 0 .. MemWords : PacketAt(new, j) /\ (order = "reached" => Boundary(j))
  BY InsertsEntry
<1>3. /\ mem' = mem /\ pc[t] = "insert" /\ pc'[t] = "decode"
      /\ \A u \in Thread \ {t} : pc'[u] = pc[u] /\ call'[u] = call[u]
  BY DEF Insert, IInv, Types
<1> HIDE DEF new
<1>4. Entries'
  <2> SUFFICES ASSUME NEW a \in Covered(map')
               PROVE  \E k \in 0 .. MemWords :
                          PacketAt(At(map', a), k) /\ (order = "reached" => Boundary(k))
    BY <1>3 DEF Entries, PacketAt, Boundary
  <2>1. CASE Within(a, new)
    BY <1>1, <1>2, <2>1
  <2>2. CASE ~Within(a, new)
    BY <1>1, <2>2 DEF OInv, Entries
  <2>3. QED
    BY <2>1, <2>2
<1>5. Contiguous'
  <2> SUFFICES ASSUME NEW a \in Covered(map'), NEW b \in Key,
                      At(map', a).start <= b, b <= a
               PROVE  b \in Covered(map')
    BY DEF Contiguous
  <2>1. CASE Within(a, new)
    <3>1. At(map', a) = new
      BY <1>1, <2>1
    <3>2. new.start \in Nat /\ new.pkt.size \in Nat /\ a \in Nat /\ b \in Nat
      BY <1>1, Constants DEF new
    <3>3. Within(b, new)
      BY <2>1, <3>1, <3>2 DEF Within
    <3>4. QED
      BY <1>1, <3>3
  <2>2. CASE ~Within(a, new)
    BY <1>1, <2>2 DEF OInv, Contiguous
  <2>3. QED
    BY <2>1, <2>2
<1>6. NoneAdded'
  BY <1>3 DEF OInv, NoneAdded
<1>7. OneCall'
  BY <1>3 DEF OInv, OneCall
<1>8. Fresh'
  <2> SUFFICES ASSUME order = "alone", NEW u \in Thread, NEW a \in Covered(map'),
                      pc'[u] \in Adding, call'[u].at <= a
               PROVE  call'[u].at <= At(map', a).start
    BY DEF Fresh
  <2>1. u = t
    <3>1. pc[u] # "idle" /\ pc[t] # "idle"
      BY <1>3 DEF Adding
    <3>2. QED
      BY <3>1 DEF OInv, OneCall
  <2>2. end <= a
    BY <1>1, <2>1
  <2>3. ~Within(a, new)
    <3>1. end \in Nat /\ a \in Nat
      <4>1. a \in Key /\ Key \subseteq Nat
        BY <1>1, Constants
      <4>2. call[t].at \in Nat /\ size \in Nat
        BY <1>1, Constants
      <4> HIDE DEF size
      <4>3. end \in Nat
        BY <4>2
      <4>4. QED
        BY <4>1, <4>3
    <3>2. ~(a < end)
      <4> HIDE DEF end
      <4>1. QED
        BY <2>2, <3>1
    <3>3. QED
      BY <3>2 DEF Within, new
  <2>4. a \in Covered(map) /\ At(map', a) = At(map, a)
    BY <1>1, <2>3
  <2>5. end <= At(map, a).start
    BY <2>2, <2>4, FreshBehind
  <2>6. QED
    BY <1>1, <2>1, <2>4, <2>5
<1>9. FromStarts'
  <2> SUFFICES ASSUME order = "reached", NEW u \in Thread, pc'[u] \in {"lookup"} \cup Adding
               PROVE  Begins(u)'
    BY DEF FromStarts
  <2>1. CASE u # t
    BY <1>1, <1>3, <2>1 DEF OInv, FromStarts, Begins, Boundary
  <2>2. CASE u = t
    <3>1. /\ call[t].at = Base + 2 * j /\ size \in 1 .. MemWords - j
          /\ IsPacketEnd(mem[j + size])
      BY <1>2 DEF PacketAt, new
    <3>2. j + size \in 0 .. MemWords /\ end = Base + 2 * (j + size)
      <4>1. Base \in Nat /\ MemWords \in Nat
        BY PacketDbAssumption
      <4> HIDE DEF size
      <4>2. QED
        BY <3>1, <4>1
    <3>3. Boundary(j + size)
      BY <3>1 DEF Boundary
    <3>4. QED
      BY <1>1, <1>3, <2>2, <3>2, <3>3 DEF Begins, Boundary
  <2>3. QED
    BY <2>1, <2>2
<1>10. QED
  BY <1>4, <1>5, <1>6, <1>7, <1>8, <1>9 DEF OInv

LEMMA OrderedInvariants == OrderedSpec => [](IInv /\ MInv /\ OInv)
<1>1. OrderedInit => IInv /\ MInv /\ OInv
  BY InitIInv, InitMInv, InitOInv DEF OrderedInit
<1>2. IInv /\ MInv /\ OInv /\ [OrderedNext]_<<vars, order>> => (IInv /\ MInv /\ OInv)'
  <2> SUFFICES ASSUME IInv, MInv, OInv, [OrderedNext]_<<vars, order>>
               PROVE  IInv' /\ MInv' /\ OInv'
    OBVIOUS
  <2>1. ASSUME NEW t \in Thread, AskOrdered(t), order' = order
        PROVE  IInv' /\ MInv' /\ OInv'
    <3>1. AskAny(t)
      BY <2>1, AskIs DEF OInv, AskAny
    <3>2. IInv' /\ MInv'
      BY <3>1, NextKeepsIInv, AskKeepsMInv DEF Next
    <3>3. QED
      BY <2>1, <3>2, AskKeepsOInv
  <2>2. ASSUME NEW t \in Thread, Step(t), order' = order
        PROVE  IInv' /\ MInv' /\ OInv'
    <3>1. IInv' /\ MInv'
      BY <2>2, NextKeepsIInv, CallsKeepMInv DEF Next
    <3>2. QED
      BY <2>2, <3>1, StepKeepsOInv, InsertKeepsOInv
  <2>3. CASE UNCHANGED <<vars, order>>
    <3>1. IInv'
      BY <2>3, NextKeepsIInv
    <3>2. MInv'
      BY <2>3, MInvUnchanged DEF vars, MInv
    <3>3. OInv'
      BY <2>3 DEF vars, OInv, Entries, Contiguous, NoneAdded, OneCall, Fresh, FromStarts,
                  Begins, Boundary, PacketAt, Covered
    <3>4. QED
      BY <3>1, <3>2, <3>3
  <2>4. QED
    BY <2>1, <2>2, <2>3 DEF OrderedNext
<1>3. QED
  BY <1>1, <1>2, PTL DEF OrderedSpec

\* Whatever the order, the database is that of PacketDb: what holds there,
\* whoever asks about what, holds here.
THEOREM OrdersImplement == OrderedSpec => Spec
<1>1. OrderedInit => Init
  BY DEF OrderedInit
<1>2. OInv /\ [OrderedNext]_<<vars, order>> => [Next]_vars
  <2> SUFFICES ASSUME OInv, OrderedNext
               PROVE  Next
    BY DEF vars
  <2>1. PICK t \in Thread : AskOrdered(t) \/ Step(t)
    BY DEF OrderedNext
  <2>2. AskOrdered(t) => AskAny(t)
    BY AskIs DEF OInv, AskAny
  <2>3. QED
    BY <2>1, <2>2 DEF Next
<1>3. QED
  BY <1>1, <1>2, OrderedInvariants, PTL DEF OrderedSpec, Spec

\* One call at a time, what AddBytes overwrites moves to a packet that starts
\* earlier or at the same word: a later query sees at least as much of the
\* packet in front of its address.
THEOREM StartNeverAdvancesHolds == OrderedSpec => StartNeverAdvances
<1>1. IInv /\ MInv /\ OInv /\ [OrderedNext]_<<vars, order>> =>
        [order = "alone" =>
           \A a \in Covered(map) : At(map', a).start <= At(map, a).start]_<<vars, order>>
  <2> SUFFICES ASSUME IInv, MInv, OInv, OrderedNext, order = "alone", NEW a \in Covered(map)
               PROVE  At(map', a).start <= At(map, a).start
    OBVIOUS
  <2>1. At(map, a).start \in Nat /\ a \in Nat /\ a \in Key
    BY AtIsInfo, Constants DEF IInv, Types, Infos, Covered
  <2>2. PICK t \in Thread : AskOrdered(t) \/ Step(t)
    BY DEF OrderedNext
  <2>3. CASE ~Insert(t)
    <3>1. map' = map
      BY <2>2, <2>3, AskIs, OtherSteps DEF OInv, Ask
    <3>2. QED
      BY <2>1, <3>1
  <2>4. CASE Insert(t)
    <3> DEFINE new == [start |-> call[t].at, pkt |-> call[t].pkt]
    <3>1. At(map', a) = IF Within(a, new) THEN new ELSE At(map, a)
      BY <2>1, <2>4, InsertPutsPacket
    <3>2. CASE Within(a, new)
      <4>1. call[t].at <= a /\ pc[t] = "insert"
        BY <2>4, <3>2 DEF Within, Insert
      <4>2. QED
        BY <3>1, <3>2, <4>1 DEF OInv, Fresh, Adding
    <3>3. CASE ~Within(a, new)
      BY <2>1, <3>1, <3>3
    <3>4. QED
      BY <3>2, <3>3
  <2>5. QED
    BY <2>3, <2>4
<1>2. QED
  BY <1>1, OrderedInvariants, PTL DEF OrderedSpec, StartNeverAdvances

\* Where calls follow control, what the database once says of an address it
\* says for ever: every packet begins where the one before it ends, so that an
\* insertion over an address of the map puts in the packet that is there.
THEOREM StableHolds == OrderedSpec => Stable
<1>1. IInv /\ MInv /\ OInv /\ [OrderedNext]_<<vars, order>> =>
        [order = "reached" =>
           \A a \in Covered(map) : At(map', a) = At(map, a)]_<<vars, order>>
  <2> SUFFICES ASSUME IInv, MInv, OInv, OrderedNext, order = "reached", NEW a \in Covered(map)
               PROVE  At(map', a) = At(map, a)
    OBVIOUS
  <2>1. At(map, a) \in Infos /\ a \in Key
    BY AtIsInfo DEF IInv, Types, Covered
  <2>2. PICK t \in Thread : AskOrdered(t) \/ Step(t)
    BY DEF OrderedNext
  <2>3. CASE ~Insert(t)
    BY <2>2, <2>3, AskIs, OtherSteps DEF OInv, Ask
  <2>4. CASE Insert(t)
    <3> DEFINE new == [start |-> call[t].at, pkt |-> call[t].pkt]
               old == At(map, a)
    <3>1. At(map', a) = IF Within(a, new) THEN new ELSE old
      BY <2>1, <2>4, InsertPutsPacket
    <3>2. CASE Within(a, new)
      <4>1. PICK j \in 0 .. MemWords : PacketAt(new, j) /\ Boundary(j)
        BY <2>4, InsertsEntry
      <4>2. PICK k \in 0 .. MemWords : PacketAt(old, k) /\ Boundary(k)
        BY DEF OInv, Entries
      <4>3. Within(a, old)
        BY DEF IInv, Spans, Within
      <4>4. j = k
        BY <2>1, <3>2, <4>1, <4>2, <4>3, SameStart
      <4>5. new.start = old.start
        BY <4>1, <4>2, <4>4 DEF PacketAt
      <4>6. old.pkt = DecodePacket(From(old.start))
        BY DEF MInv, FromMemory
      <4>7. new.pkt = DecodePacket(From(new.start))
        <5>1. a \in Covered(map') /\ At(map', a) = new
          BY <2>1, <2>4, <3>1, <3>2, InsertPutsPacket
        <5>2. FromMemory' /\ mem' = mem
          BY <2>4, InsertKeepsMInv DEF MInv, Insert
        <5>3. QED
          BY <5>1, <5>2 DEF FromMemory, From
      <4>8. old = [start |-> old.start, pkt |-> old.pkt]
        BY <2>1 DEF Infos
      <4>9. QED
        BY <3>1, <3>2, <4>5, <4>6, <4>7, <4>8
    <3>3. CASE ~Within(a, new)
      BY <3>1, <3>3
    <3>4. QED
      BY <3>2, <3>3
  <2>5. QED
    BY <2>3, <2>4
<1>2. QED
  BY <1>1, OrderedInvariants, PTL DEF OrderedSpec, Stable
=============================================================================
