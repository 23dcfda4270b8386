------------------------------ MODULE PacketDb ------------------------------
(***************************************************************************)
(* The packet database (src/plugin/packet_db.cc) and the architecture      *)
(* callbacks that share it (src/plugin/arch_hexagon.cc).  Binary Ninja     *)
(* calls GetInstructionInfo, GetInstructionText and                        *)
(* GetInstructionLowLevelIL from its analysis threads with an address and  *)
(* a window of bytes; all three look the address up, add the packets of    *)
(* the window when it is missing, and look it up again.                    *)
(*                                                                         *)
(* Addresses count halfwords, the size of a sub-instruction.  The binary   *)
(* is a sequence of words from address Base on.                            *)
(***************************************************************************)
EXTENDS IntervalMaps, Decode, FiniteSets

CONSTANTS Thread,       \* the threads that call the architecture
          NoThread,
          Words,        \* the words that occur in the binary
          Base,         \* the address of its first word
          MemWords,     \* its length
          MaxWords,     \* GetMaxInstructionLength() / 4
          MaxQueries,   \* bounds the calls
          MaxPatches    \* bounds the changes to the binary

NoInfo == [start |-> 0, pkt |-> Fail]

ASSUME PacketDbAssumption ==
    /\ Default = NoInfo
    /\ NoThread \notin Thread
    /\ Words \subseteq Word
    /\ Base \in Nat /\ MemWords \in Nat
    /\ MaxWords \in 1 .. 4
    /\ MaxQueries \in Nat /\ MaxPatches \in Nat
    \* GetAddressSize() is 4 and the keys of the map are 64 bits wide.
    /\ Base + 2 * MemWords <= MaxKey

VARIABLES mem,        \* the binary
          map,       \* the interval map, ABSL_GUARDED_BY(mu_)
          mu,        \* the thread that holds the mutex
          pc,         \* where each thread is in its callback
          call,       \* the arguments and the local variables of the callback
          queries, patches

vars == <<mem, map, mu, pc, call, queries, patches>>

-----------------------------------------------------------------------------
(* Addresses and the instructions at them.                                 *)

AddrOf(i) == Base + 2 * (i - 1)

\* uint64_t addition.
Plus(a, d) == IF a + d > MaxKey THEN a + d - (MaxKey + 1) ELSE a + d

\* The words from address a to the end of the binary.
From(a) == SubSeq(mem, (a - Base) \div 2 + 1, MemWords)

\* The map has a packet at address a.
Covered(m) == {a \in Key : At(m, a).pkt.size # 0}

InsnSize(insn) == IF IsSubInsn(insn) THEN 1 ELSE 2

\* The distance of the i-th instruction from the start of its packet.
Offset(insns, i) ==
    2 * (i - 1) - Cardinality({j \in 1 .. i - 1 : IsSubInsn(insns[j])})

\* Deliberately wrong variant: the end of an instruction is taken for its own.
FindInstructionInPacketInclusive(info, a) ==
    LET insns   == info.pkt.insns
        addr(i) == Plus(info.start, Offset(insns, i))
        here    == {i \in 1 .. Len(insns) :
                       addr(i) <= a /\ a <= Plus(addr(i), InsnSize(insns[i]))}
        num     == IF here = {} THEN Len(insns) + 1
                   ELSE CHOOSE i \in here : \A j \in here : i <= j
    IN  [pc |-> info.start, pkt |-> info.pkt, insn_num |-> num, insn_addr |-> addr(num)]

\* Positions count from 1: one more than the number of instructions is the
\* insn_num == num_insns of a search that finds nothing.
FindInstructionInPacket(info, a) ==
    LET insns   == info.pkt.insns
        addr(i) == Plus(info.start, Offset(insns, i))
        here    == {i \in 1 .. Len(insns) :
                       addr(i) <= a /\ a < Plus(addr(i), InsnSize(insns[i]))}
        num     == IF here = {} THEN Len(insns) + 1
                   ELSE CHOOSE i \in here : \A j \in here : i <= j
    IN  [pc |-> info.start, pkt |-> info.pkt, insn_num |-> num, insn_addr |-> addr(num)]

\* Deliberately wrong variant: an endloop is taken for the last instruction.
LastInsnOfAll(insns) == Len(insns)

\* GetLastInsn: the last instruction that is not an endloop.
LastInsn(insns) ==
    IF IsEndloop(insns[Len(insns)]) THEN Len(insns) - 1 ELSE Len(insns)

\* Which instruction of a packet carries the branches, and which the code.
HasBranches(r) ==
    \/ r.insn_num = LastInsn(r.pkt.insns)
    \/ IsSubInsn(r.pkt.insns[r.insn_num]) /\ r.insn_num + 1 = LastInsn(r.pkt.insns)

HasCode(r) == r.insn_num = 1

\* The instructions whose text is shown: both halves of a duplex.
HasText(r) ==
    IF IsSubInsn(r.pkt.insns[r.insn_num]) THEN r.insn_num .. r.insn_num + 1
                                           ELSE {r.insn_num}

NoInsn == [pc |-> 0, pkt |-> Fail, insn_num |-> 0, insn_addr |-> 0]

-----------------------------------------------------------------------------
(* The callbacks.                                                          *)

Called(a, words, ragged) ==
    [addr |-> a, ragged |-> ragged, words |-> words, at |-> a,
     pkt |-> Fail, added |-> 0, result |-> NoInsn]

NoCall == Called(Base, << >>, FALSE)

Init ==
    /\ mem \in [1 .. MemWords -> Words]
    /\ map = EmptyMap
    /\ mu = NoThread
    /\ pc = [t \in Thread |-> "idle"]
    /\ call = [t \in Thread |-> NoCall]
    /\ queries = 0 /\ patches = 0

\* Binary Ninja asks about the word at index i (GetInstructionAlignment() is 4)
\* with a copy of n words of the binary, or of a byte more or less (ragged).
Ask(t, i, n, ragged) ==
    /\ pc[t] = "idle" /\ queries < MaxQueries
    /\ n <= MaxWords /\ i + n - 1 <= MemWords
    /\ pc' = [pc EXCEPT ![t] = "lookup"]
    /\ call' = [call EXCEPT ![t] =
                   Called(AddrOf(i), SubSeq(mem, i, i + n - 1), ragged)]
    /\ queries' = queries + 1
    /\ UNCHANGED <<mem, map, mu, patches>>

\* absl::MutexLock lock(&mu_).
Lock(t) ==
    /\ pc[t] \in {"lookup", "insert", "relookup"}
    /\ mu = NoThread
    /\ mu' = t
    /\ UNCHANGED <<mem, map, pc, call, queries, patches>>

\* Lookup(addr) under the mutex: `miss` says where the callback goes on when
\* the map has no packet there.
Lookup(t, miss) ==
    LET info == At(map, call[t].addr) IN
    /\ mu = t
    /\ mu' = NoThread
    /\ IF info.pkt.size = 0
       THEN pc' = [pc EXCEPT ![t] = miss] /\ UNCHANGED call
       ELSE /\ pc' = [pc EXCEPT ![t] = "filled"]
            /\ call' = [call EXCEPT ![t].result =
                           FindInstructionInPacket(info, call[t].addr)]
    /\ UNCHANGED <<mem, map, queries, patches>>

\* Deliberately wrong variant: the window is added without looking first.
FirstLookupSkipped(t) ==
    /\ pc[t] = "lookup" /\ mu = t
    /\ mu' = NoThread
    /\ pc' = [pc EXCEPT ![t] = "add"]
    /\ UNCHANGED <<mem, map, call, queries, patches>>

FirstLookup(t)  == pc[t] = "lookup"   /\ Lookup(t, "add")

\* CHECK(match_or.ok()) ends the process.
SecondLookup(t) == pc[t] = "relookup" /\ Lookup(t, "aborted")

\* AddBytes: the check of the window's size, once.
CheckSize(t) ==
    /\ pc[t] = "add"
    /\ pc' = [pc EXCEPT ![t] =
                 IF call[t].ragged \/ call[t].words = << >> THEN "failed" ELSE "decode"]
    /\ UNCHANGED <<mem, map, mu, call, queries, patches>>

\* Deliberately wrong variants: AddBytes is Ok even when no packet was added;
\* the callback tries again until one is.
DecodeNextAlwaysOk(t) ==
    LET pkt == DecodePacket(call[t].words) IN
    /\ pc[t] = "decode"
    /\ pc' = [pc EXCEPT ![t] = IF pkt = Fail THEN "relookup" ELSE "insert"]
    /\ call' = [call EXCEPT ![t].pkt = pkt]
    /\ UNCHANGED <<mem, map, mu, queries, patches>>

DecodeNextRetry(t) ==
    LET pkt == DecodePacket(call[t].words) IN
    /\ pc[t] = "decode"
    /\ pc' = [pc EXCEPT ![t] = IF pkt # Fail THEN "insert"
                                ELSE IF call[t].added = 0 THEN "add" ELSE "relookup"]
    /\ call' = [call EXCEPT ![t].pkt = pkt]
    /\ UNCHANGED <<mem, map, mu, queries, patches>>

\* The head of AddBytes' loop, without the mutex: decode_jmp_buf is one per
\* thread.  The loop ends when no word is left or the rest does not decode.
DecodeNext(t) ==
    LET pkt == DecodePacket(call[t].words) IN
    /\ pc[t] = "decode"
    /\ IF pkt = Fail
       THEN /\ pc' = [pc EXCEPT ![t] =
                         IF call[t].added = 0 THEN "failed" ELSE "relookup"]
            /\ UNCHANGED call
       ELSE /\ pc' = [pc EXCEPT ![t] = "insert"]
            /\ call' = [call EXCEPT ![t].pkt = pkt]
    /\ UNCHANGED <<mem, map, mu, queries, patches>>

\* Deliberately wrong variant: the interval is one word too long.
AddPacketTooLong(m, start, pkt) ==
    SetInterval(m, start, Plus(start, 2 * pkt.size + 2), [start |-> start, pkt |-> pkt])

\* The interval a packet takes in the map.
AddPacket(m, start, pkt) ==
    SetInterval(m, start, Plus(start, 2 * pkt.size), [start |-> start, pkt |-> pkt])

\* Deliberately wrong variant: the address stays where it was when the words
\* move on.
AdvancedSameAddr(c) ==
    [addr |-> c.addr, ragged |-> c.ragged,
     words |-> SubSeq(c.words, c.pkt.size + 1, Len(c.words)),
     at |-> c.at, pkt |-> Fail, added |-> c.added + 1, result |-> c.result]

\* The locals after a packet has been added: addr, words, packets_added.
Advanced(c) ==
    [addr |-> c.addr, ragged |-> c.ragged,
     words |-> SubSeq(c.words, c.pkt.size + 1, Len(c.words)),
     at |-> Plus(c.at, 2 * c.pkt.size),
     pkt |-> Fail, added |-> c.added + 1, result |-> c.result]

\* Deliberately wrong variant: the mutex is never released.
InsertLocked(t) ==
    /\ pc[t] = "insert" /\ mu = t
    /\ map' = AddPacket(map, call[t].at, call[t].pkt)
    /\ call' = [call EXCEPT ![t] = Advanced(call[t])]
    /\ pc' = [pc EXCEPT ![t] = "decode"]
    /\ UNCHANGED <<mem, mu, queries, patches>>

\* The rest of the loop's body, under the mutex.
Insert(t) ==
    /\ pc[t] = "insert" /\ mu = t
    /\ map' = AddPacket(map, call[t].at, call[t].pkt)
    /\ call' = [call EXCEPT ![t] = Advanced(call[t])]
    /\ pc' = [pc EXCEPT ![t] = "decode"]
    /\ mu' = NoThread
    /\ UNCHANGED <<mem, queries, patches>>

\* The callback fills its result in from call[t].result, or returns false.
Return(t) ==
    /\ pc[t] \in {"filled", "failed"}
    /\ pc' = [pc EXCEPT ![t] = "idle"]
    /\ call' = [call EXCEPT ![t] = NoCall]
    /\ UNCHANGED <<mem, map, mu, queries, patches>>

\* The analyst patches a word; nothing tells the database.
Patch(i, w) ==
    /\ patches < MaxPatches
    /\ mem[i] # w
    /\ mem' = [mem EXCEPT ![i] = w]
    /\ patches' = patches + 1
    /\ UNCHANGED <<map, mu, pc, call, queries>>

Step(t) ==
    \/ Lock(t)
    \/ FirstLookup(t)
    \/ CheckSize(t)
    \/ DecodeNext(t)
    \/ Insert(t)
    \/ SecondLookup(t)
    \/ Return(t)

AskAny(t) ==
    \E i \in 1 .. MemWords, n \in 0 .. MaxWords, ragged \in BOOLEAN : Ask(t, i, n, ragged)

Next ==
    \/ \E t \in Thread : AskAny(t) \/ Step(t)
    \/ \E i \in 1 .. MemWords, w \in Words : Patch(i, w)

Spec == Init /\ [][Next]_vars

\* An analysis thread keeps running, and gets the mutex once it stays free.
FairSpec == Spec /\ \A t \in Thread : WF_vars(Step(t))

-----------------------------------------------------------------------------
(* Properties.                                                             *)

TypeOK ==
    /\ mem \in [1 .. MemWords -> Words]
    /\ 0 \in DOMAIN map /\ DOMAIN map \subseteq Key
    /\ mu \in Thread \cup {NoThread}
    /\ \A t \in Thread :
          /\ pc[t] \in {"idle", "lookup", "add", "decode", "insert", "relookup",
                        "filled", "failed", "aborted"}
          /\ mu = t => pc[t] \in {"lookup", "insert", "relookup"}
          /\ call[t].addr \in Key /\ call[t].at \in Key
          /\ Len(call[t].words) <= MaxWords
          /\ call[t].added \in 0 .. MaxWords
    /\ queries \in 0 .. MaxQueries /\ patches \in 0 .. MaxPatches

\* The CHECK "Lookup() failed after AddBytes()" never fails, although the
\* mutex is free between AddBytes and the second Lookup, and other threads
\* overwrite parts of what this one has just added.
NeverAborts == \A t \in Thread : pc[t] # "aborted"

\* Whatever packets have overwritten one another, the entry at an address is
\* a packet that holds this address.
Spans ==
    \A a \in Covered(map) :
        LET info == At(map, a) IN info.start <= a /\ a < info.start + 2 * info.pkt.size

\* Every packet in the map is what the decoder makes of the binary from the
\* packet's first word on, whatever window it was cut from.
FromMemory ==
    \A a \in Covered(map) : At(map, a).pkt = DecodePacket(From(At(map, a).start))

\* A callback that finds a packet finds the instruction at its address: the
\* FillBn functions never get an unaligned insn_addr, which they refuse, nor
\* insn_num == num_insns or the pseudo-instruction of an endloop.
AnswerSound ==
    \A t \in Thread : pc[t] = "filled" =>
        LET r == call[t].result IN
        /\ r.insn_addr = call[t].addr
        /\ r.insn_num \in 1 .. Len(r.pkt.insns)
        /\ ~IsEndloop(r.pkt.insns[r.insn_num])

\* The three callbacks divide a packet among its words in the same way, though
\* each finds its place in it by a rule of its own: the first word has the
\* code, the last one the branches, and the words show every instruction but
\* the endloop once, none past the end of pkt->insn[] (CHECK_LT).
WordsShareOut ==
    \A t \in Thread : pc[t] = "filled" =>
        LET r     == call[t].result
            last  == r.pc + 2 * (r.pkt.size - 1)
            at(i)   == r.pc + Offset(r.pkt.insns, i)
        IN  /\ HasCode(r) <=> r.insn_addr = r.pc
            /\ HasBranches(r) <=> r.insn_addr = last
            /\ HasText(r) = {i \in 1 .. LastInsn(r.pkt.insns) :
                                 at(i) \in r.insn_addr .. r.insn_addr + 1}

\* No step of any thread takes a packet away from an address that had one.
CoverageGrows == [][Covered(map) \subseteq Covered(map')]_vars

\* Every callback returns, although it decodes, waits for the mutex and looks
\* up again between the steps of the others.
EveryQueryReturns == \A t \in Thread : pc[t] # "idle" ~> pc[t] = "idle"
=============================================================================
