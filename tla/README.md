# The Hexagon architecture plugin: a verification project

TLA+ models of the Binary Ninja plugin for the Hexagon processor, the TLC runs
that check them on small instances, and theorems about them that TLAPS checks
for every value of their constants. The sources are the plugin itself
(`src/plugin/`), its fork of QEMU's Hexagon decoder
(`src/third_party/qemu-hexagon/`) and one container taken from Chromium
(`src/third_party/chromium/blink/interval_map.h`).

## 1. The system

Binary Ninja calls an architecture plugin through callbacks, from any of its
analysis threads, with an address and a copy of the bytes there; it takes one
instruction at a time. Hexagon groups instructions in packets of one to four
words that execute in parallel, and nothing in a word says where its packet
started. The plugin therefore decodes whole packets, keeps them in a database
keyed by address, and answers questions about one instruction from the packet
around it.

| Part | State | Operations | What is hard | What makes it right |
|---|---|---|---|---|
| Architecture callbacks, `plugin/arch_hexagon.cc` | none of their own; all share one `PacketDb` | `GetInstructionInfo`, `GetInstructionText`, `GetInstructionLowLevelIL`: look up, else add the window's bytes, look up again (`CHECK`), fill in | the three steps are three critical sections; calls of several threads interleave between them | the `CHECK` never fails; every call returns; the three callbacks agree on the packet |
| Packet database, `plugin/packet_db.{h,cc}` | the interval map, the mutex `mu_` | `AddBytes`, `Lookup`, `FindInstructionInPacket` | decoding happens outside the mutex; packets that start in the middle of others; a map that is never invalidated; windows cut anywhere | what the map says of an address is a packet that holds it and that the binary has; nothing learnt is forgotten |
| Interval map, `interval_map.h` | a sorted map from the first key of an interval to its value | `SetInterval`, `IncrementInterval`, `find`, `empty` | reusing, overwriting, erasing and merging entries at both ends, in order | it is a total function from keys to values; equal neighbours are one entry |
| Decoder, `plugin/decoder.cc`, `decode.c`, `q6v_decode.c` | a packet under construction, `decode_jmp_buf` | `decode_packet`: words up to the end, endloop mark, constant extenders, new-value operands, slots, branches; `decode_packet_safe` turns an abort into a status | positions that count or do not count extenders, duplex halves and pseudo-instructions; an array of seven with no bound check | a packet depends on its own words only; what an instruction is told about another is about the right one |
| HVX checks, `decode_ext_mmvec.c` | records of vector resources | slot and resource assignment of vector instructions | two alternatives that must record what they checked | no two instructions of a packet share a resource |
| Packet preparation, `decode_remove_extenders`, `decode_shuffle_for_execution`, `decode_split_cmpjump` | the packet, in place | make a packet fit to be lifted in order | loops over an array they rotate; a flag per pass | nothing is lost; producers run before consumers |
| Packet context, `plugin/packet_context.{h,cc}` | temporaries of source and destination registers | `AddSourceReg`, `AddDestReg`, `WriteClobberedRegs` | the numbering of temporaries; conditional writes | instructions read the registers as they were before the packet |
| IL utilities, `plugin/il_util.cc` | the IL being built | `PreparePacketForLifting`, `FillBnInstructionLowLevelIL` | order of write-back and branches, several branches in a packet | sequential IL does what the parallel packet does |
| Instruction utilities, `plugin/insn_util.cc` | none | `FillBnInstructionInfo`: the branches of a packet | two places say where a packet goes, IL is the other | both name the same successors |
| Instruction IL generator, `plugin/gen_il_funcs.py` (run at build time) | the registers and expressions collected while a tree is visited | expand macros, split compare-and-jumps, parse the C-like semantics of an instruction, turn the tree into IL, print a C++ function | operators without precedence; widths and signs that casts, constants and macros leave on an operand; labels of nested conditions; ids that a regular expression lists once more | the generated IL computes what the semantics mean as C |
| Text tokens generator, `plugin/gen_insn_text_funcs.py` (run at build time) | flags of the transformer; futures of a pool of processes | parse a behaviour string, turn the tree into calls that append tokens, generate all instructions in parallel, write one file | flags set while the tree is visited; results in any order; a function that cannot be generated, a process that dies | the text reads like the behaviour string; the file does not depend on the pool |
| Operand type checks, `plugin/type_util.py` | none | a decorator that asserts argument types | | |
| Instruction data, decision tree, `gen_il_funcs_data.py`, `dectree.py`, `hex_common.py`, ... | none (run at build time) | tables | | |
| Registers, calling convention, relocations | none | tables | | |

Interaction: a callback calls `Lookup` and `AddBytes`; `AddBytes` calls the
decoder and then the map under the mutex; the result goes to
`FillBnInstructionInfo`, to the text generator, or, through packet preparation
and the packet context, to the generated IL functions.

The hazards of this code, each at its line and with the properties that would
see it go wrong, are listed in `PROJECT.json`.

## 2. The modules

| Module | Models | Correspondence |
|---|---|---|
| `AddrMap` | what an interval map promises | a total function from keys to values; assigning or shifting a range is one step |
| `IntervalMaps` | `media::IntervalMap<Key, Value>` as operators | a `std::map` is a function whose domain is its keys; `MakeEntry`, `RemoveDuplicates`, `SetInterval`, `IncrementInterval`, `At` (`operator[]`) keep the order of the code's insertions and erasures |
| `IntervalMap` | an interval map in use | one action per public mutator; refines `AddrMap` through `Contents` |
| `Decode` | `Decoder::DecodePacket` as operators | a word keeps its parse bits, its class of opcode and, in a new-value consumer, the encoded distance; every `ASSERT_AND_ABORT` is `Fail` |
| `Decoder` | the decoder over growing windows | `Decode(w)` decodes the window again, one word longer |
| `PacketDb` | `PacketDb` and the three callbacks of `HexagonArchitecture` | per thread: `Ask`, `Lock`, `FirstLookup`, `CheckSize`, `DecodeNext`, `Insert`, `SecondLookup`, `Return`; `Patch` changes the binary. `DecodeNext` is the part of `AddBytes`' loop before the mutex is taken, `Insert` the part under it |
| `Prepare` | the passes of `PreparePacketForLifting` as operators | an instruction keeps the attributes the passes read and its place in the decoded packet |
| `Preparation` | a packet from its first word on, through its preparation | `Decode`, `DecodeDuplex` and `Copy` put together what the decoder makes; then one action per pass. `Stores` and `Compares` alternate as the `do`-`while` loop does, `Overrun` is the split that writes behind `pkt->insn[]` |
| `Packets` | instructions with operands, what a packet of them does in parallel, which packets there are | the reference: nothing in the code says it in one place. `Legal` are the rules of the instruction set, `Covered` the packets for which the lifter's technique is right |
| `Branches` | the branches that `FillBnInstructionInfo` reports | one operator per step of its second loop; `Successors` is where the reported branches let a basic block go on |
| `Parallel` | what lifting promises | one step from before the packet to after it |
| `Lifter` | `FillBnInstructionLowLevelIL`, `PacketContext` and the functions that `gen_il_funcs.py` generates, together with the code they emit | `Prepare` up to the cleared flags, `Lift` one generated function and its code, `WriteBack(r)` one turn of `WriteClobberedRegs`, `Leave` the chain of branches. Refines `Parallel` |
| `PacketDbOrders` | the orders in which Binary Ninja may ask | `AskOrdered` replaces `Ask`: in any order, one call at a time, or only where control has been shown to go |
| `Il` | the classes of IL expressions and what Binary Ninja computes for them | an expression is a record of operator, size, sign, arguments; `Eval` computes it |
| `Idef` | the language of the `.idef` files | `Parse` groups as `semantics_grammar` does, `ParseC` as C does; `CMeaning` is what statements mean as C, macros included |
| `IlGenerator` | `preprocess_semantics`, `SemanticsTreeTransformer`, the declarations and the two parts of a compare-and-jump | one operator per method of the transformer, with the method's name |
| `LiftedCode` | a generated function at work | one action per kind of IL instruction; `Finished` is compared with `CMeaning` |
| `TextTokens` | `InsnTreeTransformer`, the generated function, the tokens it makes of a decoded instruction | the rules of the grammar are `insn_grammar`, the methods for inner nodes the layouts of `Transformer`; `Leaves` replaces the nodes of a tree by what they stand for, level by level, and `Tokens` has one operator per method for a leaf |
| `Generation` | what the text generator promises | one file, as if generated in order, or none |
| `TagPool` | `process_all_tags` and `main` with their pool of processes | `Submit`, `Take`, `Write`, ... are the script's steps, `Start` and `Finish` the pool's, `Crash` a process that dies. Refines `Generation` |
| `TextGenerator` | the two together | a body in the pool is named by its instruction; the functions in the file that is written are run on decoded instructions |
| `MC*` | values of constants for TLC | |
| `*_proofs` | theorems and their proofs | |

`PacketDb` composes `IntervalMaps` (its map) and `Decode` (what `AddBytes`
decodes). `Lifter` composes `Prepare` (the packet it lifts) and `Packets`, whose
parallel packet is its specification, and `Branches`, against which its
way out is checked. `LiftedCode` composes `IlGenerator`, `Idef` and `Il`;
`TextGenerator` composes `TextTokens` and `TagPool`; `PacketDbOrders` extends
`PacketDb`. `Decoder` and `IntervalMap` exercise the same operators alone, on
larger data. The bodies of definitions called *deliberately wrong variant* are
not part of the models: each is a plausible slip in the code that one of the
properties detects.

What is abstracted, where:

* `IntervalMaps`: keys are `0 .. MaxKey`, `numeric_limits` of the key type;
  values are any set. An assignment is never made to the default map entry
  outside the map: the entry at key 0 always exists.
* `Decode`: an instruction is its class; fields, immediates and register
  numbers are left out except the new-value distance, and the register a
  consumer is patched with is represented by its producer's position. Slot
  numbers are left out because the plugin never reads them. HVX packets take a
  further pass that is not modelled.
* `PacketDb`: addresses count halfwords, the size of a sub-instruction. Keys
  wrap around at `MaxKey` as `uint64_t` does; `PacketDbAssumption` says that
  the binary ends before, which holds because `GetAddressSize()` is 4 and keys
  have 64 bits. A window of a size that is not a multiple of four is one flag,
  `ragged`: `AddBytes` refuses it before anything else. Binary Ninja asks about
  words, since `GetInstructionAlignment()` is 4.
* `Prepare`: `decode_send_insn_to` is its net effect, a rotation. The splitting
  of compare-jumps is written in closed form: the appended halves are sent to
  the front one by one and so end up reversed.
* `Packets`, `Lifter`: what an instruction computes is left open. A value says
  which instruction computed it from which values, so two executions agree
  when every register, stored value and branch target has the same history.
  Emitting code and running it are one step, since lifting is straight-line
  and a skipped conditional body only skips results. An endloop is modelled
  with `USR.LPCFG` at 0: it declares P3 and does not write it. What an
  instruction computes is the subject of `LiftedCode`.
* `Il`, `Idef`, `IlGenerator`: a byte has `ByteBits` bits, so with two bits a
  word has eight and a pair sixteen; constants of the semantics that speak of bits
  are scaled likewise. Control registers are words. Predicates are bytes: a true one
  is all ones in C; in the lifted code comparisons leave 1, other instructions all
  ones, and `StandsFor` relates the two. The semantics are sequences of items, as
  the parser's lexer leaves them. The macros' meaning is that of QEMU's `macros.def`
  in `third_party/qemu-hexagon/imported`, with a frame key of 0; that a call writes LR
  is left to Binary Ninja's call, which the packet ends with. IL operators
  and registers narrower than their container behave as Binary Ninja documents
  them (external): what is above the four bytes written to the temporary of a
  pair is zero. `fSTORE_LOCKED` always succeeds.
* `TextTokens`: a behaviour string is given as its parse tree, by the grammar's
  rules, of at most `Depth` levels; blanks are dropped before texts are compared. An
  operand's number and an immediate's value are distinct numbers. `sys_reg` takes the words
  of its rule that instructions use (`SysWords`: `pc`, `sgp0`, `sgp1`, `sgp1:0`, `r29`, `r31`),
  and `upper()` is tabulated for them. The reader of `ReadsLikeBehaviour` names these
  registers by a table of its own (`NameOf`), not by the code's steps.
* `TagPool`: an exception that a process raises is membership of `bad`. After a
  process has died, all futures that are not finished fail, as those of
  `concurrent.futures` do.

## 3. The runs

| Run | Instance | What it shows |
|---|---|---|
| `interval_map` | keys 0..5, values 0..2, all pairs of bounds, empty and reversed ones included | `Implements`: each mutator is one assignment or shift of a total map. `Merged`: no two equal neighbours are left, from which section 4 derives that `empty()`, which counts entries, is right. Six keys leave room for an interval with entries before, at, inside and after both ends |
| `decoder` | all windows of up to 4 words over 20 kinds of word | `ProducerIsAhead`: the walk to a producer counts what the encoding counts. `ExtendersPair`, `EndloopIsLast`, `WindowIndependent`: what follows a packet in its window plays no part. `TypeOK` has the room left in `pkt->insn[]`. Packets have at most four words, the length the plugin reports to Binary Ninja |
| `packet_db_orders` | 2 threads, every binary of 3 words over 5 kinds, every window; 2 calls, or 3 when they come one at a time | `FromMemory`: the map holds only packets of the binary. `AnswerSound`: the instruction a callback fills in is the one at the address. `WordsShareOut`: the first word of a packet has its code, the last its branches, and the words show each instruction once. `StartNeverAdvances`: one call at a time, the packet of an address only ever grows towards the front. `Stable`: in the order of recursive analysis the first answer about an address is the last |
| `packet_db_patched` | 2 threads, 2 calls, 1 patch, every binary of 2 words | `NeverAborts`: the `CHECK` after `AddBytes`. `Spans`: an entry is a packet that holds its address. `CoverageGrows`: no step takes an address' packet away. All three also while packets of the old and the new bytes overwrite one another; longer binaries are covered by the theorems of section 4. `EveryQueryReturns`: every call comes back, a liveness property under `FairSpec` |
| `preparation` | every packet of up to four words of 12 kinds, the last of them a duplex or not, with and without an endloop, in slots or not and with up to four branches | `NothingLost`, `ProducersFirst`, `MemoryInOrder`, `BranchesInOrder`, `EndloopStaysLast`; `SameInOneStep`: the passes and the operator that `Lifter` uses agree; `AssembledFits`: with four slots, two branches and an endloop the split fills `pkt->insn[]` to the last entry and no further. `RoundsBringOrder`: the loop of the shuffle ends, because every pass that asks for another round leaves fewer pairs to put in order. `TypeOK` |
| `preparation_overrun` | as `preparation` | *violation* of `InsnArraySuffices`, see section 6 |
| `lifter` | packets of 1 and 2 instructions of 41 forms, of 3 of 27 forms and of 4 of ten forms, with and without an endloop | `Implements`: the emitted code does what the packet does in parallel, in every order of write-back. `TypeOK`: what is written back are registers. `SuccessorsReported`: the code goes nowhere that the reported branches do not lead to |
| `lifter_conditional`, `lifter_store_pair` | one or two packets each | *violations* of `Equivalent`, see section 6 |
| `lifted_code` | 84 instructions that between them use every operator, macro and kind of statement that is lifted, bytes of two bits, starts from corner values per operand | `Equivalent`: IL and C agree on destinations, named registers, memory, exceptions, branches, except for the six forms that `Deviates` names, which differ in exactly the states it gives. `Declared`: code reads and writes only operands it declares and registers with fixed names. `TypeOK`: temporaries keep to their widths. `Ends`: jumps find their labels |
| `lifted_code_negated` | one instruction | *violation* of `AlwaysEquivalent`, see section 6 |
| `text_generator` | twelve lists of two or three instructions, most forms of the grammar among them, two processes, any of them without a string or impossible to generate, one process dead at any time; trees of up to six levels | `Implements`: the file is the one of the serial script, or none. `Ends`: the script ends whatever happens. `ReadsLikeBehaviour`, `AddressesAreTargets`, `ExtensionsMarked`: what the functions in the file show of decoded instructions, extended or not. `TypeOK`: no more processes than allowed, no future in two places |

Three words of binary are the smallest in which packets overlap in every way:
one that starts inside another, one that ends inside another's successor, and
one cut by the end of the window. Two threads suffice to have one insert
between another's lookup, decoding, insertion and second lookup; a third thread
can only do what one of the two does in another order.

`CHECK_DEADLOCK FALSE` is set where the model's bound makes it stop: no call is
left, the window has its longest size, the packet is prepared. `IntervalMap`
never stops and is checked for deadlock.

`lifter` takes every packet of up to two of its 41 forms, which have every
kind of operand, predicate and branch that the generator handles except those
listed in section 7, and every packet of three of 27 of them: two branches, or a
producer, a consumer and something between them, need no more, and the other 14
differ from one of the 27 only in an operand or a predicate. The packets in which all four
slots are used are made from the forms that the preparation moves. The values that
conditions test are true or false in every combination. LLIL temporaries hold
foreign values before the packet, branch flags the value 1.

Symmetry over threads is used where the properties are invariants or action
properties; not for liveness.

When calls overlap (`order` is not `"alone"`) `StartNeverAdvances` fails: a query
that starts in the middle of a packet and races with one that starts at its
first word may insert its tail last. Without the order of recursive analysis
(`order` is not `"reached"`) `Stable` fails with one call at a time already.
Neither loses an address (`CoverageGrows`) nor puts anything in the map that is
not in the binary (`FromMemory`).

`Preparation` has every packet that the decoder makes. The decoder refuses an
extender with nothing to extend behind it and looks at neither slots nor branches.
Where a property needs the order that slots impose (`MemoryInOrder`,
`BranchesInOrder`: the passes count on it, and without it a store does overtake
a load) it says so itself, with `FitsSlots`; `AssembledFits` says that of slots and of the two branches
(`FewBranches`) that the comment in `il_util.cc` speaks of. `InsnArraySuffices`
is the same without the condition, and fails. One rule is assumed of the
instructions: nothing that writes a predicate is conditional on a new one
(`PreparationAssumption`); the instruction set has no such instruction, and no
order of two compares would do for it.

Two bits to a byte are enough for `lifted_code`, and one would not be. The
generator knows sizes in bytes only: every cut, extension, sign and shift it emits is
between sizes 1, 2, 4 and 8, which stay distinct. An expression whose IL and C differ
for some operands of real width by a lost half, a sign or a grouping differs for
some here. A predicate is a byte that stands for a boolean, and with one bit the
bitwise not would be the boolean one: it takes a second bit to see that the not of 1 is
not 0. What could hide is a number that has no counterpart at this width, such as a
mask written out in hexadecimal; of those the run has masks of a byte only, 0xff, 0x55 and 0xAA.
A number may also fit a byte of eight bits and not one of two: `S2_valignrb` computes
`(PuV&7)*8` in a byte and starts with predicates 0 and 1 only.

Up to three instructions to a list let a result overtake two others and let two be in
work while one waits, with two processes; `TextGenerator_proofs` covers the rest. No
behaviour in the run has a tree of more than `Depth` levels: `InsnsAssumption` says that
nothing is left to expand.

### Fairness

* `PacketDb!FairSpec`: weak fairness of each thread's steps. A thread that runs
  in a callback keeps running, and `absl::Mutex` is granted to a waiting thread
  once it stays free; with the calls of the instance bounded it does. `Ask` and
  `Patch` are not fair: nobody has to call.
* `LiftedCode!FairSpec`: IL that is being executed goes on; it waits for nothing.
* `TagPool!FairSpec`: weak fairness of the pool and of the script. The processes
  work on their own, and the script runs unless it waits for a future or for the
  pool to shut down. No process has to die.

`Preparation` needs no fairness: that the shuffle ends is a matter of what its passes
do, not of when, and `RoundsBringOrder` says so of every packet that decodes.

## 4. The theorems

| Theorem | States |
|---|---|
| `PacketDbParts_proofs!SetIntervalCorrect`, `IncrementIntervalCorrect` | exactly `[from, to)` is assigned or shifted, for every key width, value set and pair of bounds |
| `IntervalMap_proofs!TypeCorrect`, `AlwaysMerged`, `EmptyCorrect`, `ImplementsAddrMap` | the three properties of `interval_map`, the last a refinement, and what follows from `Merged`: `empty()` is true exactly of the maps that give one value to every key |
| `PacketDbParts_proofs!PacketInWindow`, `WindowSuffices`, `PacketLayout`, `PacketProducers` | a packet lies in its window; windows that agree up to a packet end decode alike, whatever their length; a packet has one instruction for each word, a second one only for a duplex in the last, and then at most an endloop; a new-value consumer is patched with the producer that its distance counts to |
| `Decoder_proofs!TypeCorrect`, `PacketIsFinal`, `ExtendersPairHolds`, `EndloopIsLastHolds`, `ProducerIsAheadHolds` | the five properties of `decoder` for any words and any window the plugin asks for |
| `PacketDb_proofs!TypeCorrect`, `NeverAbortsHolds`, `SpansHolds`, `CoverageGrowsHolds`, `FromMemoryHolds` | the database's properties for any number of threads, calls and patches, any binary and base address (`FromMemory` without patches) |
| `PacketDb_proofs!AnswerSoundHolds`, `WordsShareOutHolds` | `AnswerSound` and `WordsShareOut`, with any number of threads, any binary and any patches |
| `PacketDb_proofs!OrdersImplement`, `StartNeverAdvancesHolds`, `StableHolds` | ordered calls refine calls in any order; `StartNeverAdvances` and `Stable` with any number of threads and calls, any binary and base address |
| `Preparation_proofs!TypeCorrect`, `LosesNothing`, `PutsProducersFirst`, `LeavesEndloop` | `TypeOK`, `NothingLost`, `ProducersFirst` and `EndloopStaysLast` for every packet that the decoder makes of any classes of words, in slots or not, with any number of branches |
| `Preparation_proofs!KeepsMemoryOrder`, `KeepsBranchOrder`, `AssembledPacketsFit` | `MemoryInOrder`, `BranchesInOrder` and `AssembledFits` as the run checks them: for packets that fit the slots, the last one with at most two branches |
| `Preparation_proofs!PreparesInOneStep` | `SameInOneStep` for packets that fit the slots; for the others there is only the run |
| `Lifter_proofs!TypeCorrect`, `StaysWithinReported` | `TypeOK` and `SuccessorsReported` of the lifter for any legal packets, covered by the lifter's technique or not, whatever conditions test and whatever registers and temporaries held before |
| `Lifter_proofs!ImplementsParallel` | `Implements`: the lifted code of any packets, of any instructions, has the effect of the packet run in parallel. Its hypothesis is that the packets are `Covered`, the one under which `lifter` checks it |
| `TextGenerator_proofs!TypeCorrect`, `ImplementsGeneration` | the pool's type invariant and the refinement of `Generation` for any instructions, any number of processes, and whatever fails |
| `TextGenerator_proofs!TextsReadLikeBehaviour`, `AddressesAreTargetsHolds`, `ExtensionsMarkedHolds` | the three properties of the texts in every file that the script writes, for behaviours of any depth, any operands and immediates, any lists of instructions and decodings, and whatever the pool does |

Assumptions: `MaxKeyAssumption` (`IntervalMaps`), `ValueAssumption` (the default is
one of the integer values, `IntervalMap`), `WordsAssumption` and
`MaxWordsAssumption` (`Decoder`), `PacketDbAssumption`, `PreparationAssumption`
(the rule on predicates above), `LifterAssumption` (a packet is a sequence, not
empty, of instructions that occur, and keeps the rules of the instruction set
that are `Legal`; `Instruction` says which occur: `OperandsFit`, what a memory
access, a branch or a new-value instruction reads and writes, and `PredicatesFit`,
which instructions write predicates and wait for them), and
`TagListsAssumption`, `WorkersAssumption` (`TagPool`: instructions come in a list
without repetitions, `max_workers` is positive), and `DepthAssumption`,
`BodyAssumption`, `InsnsAssumption` (`TextGenerator`: a body in the pool is named by its
instruction, and every instruction is `Regular`). `Regular` is what the texts rest on and
no code checks: a tree comes from the grammar and is not deeper than `Depth`; a
register in it is the only operand with its id, because the transformer finds operands
by id alone; a system register is one of `SysWords`; of two immediates one is upper-case; and the attributes by which `imm` tells
addresses say the same as the letters of the immediates. What it says of operands and
immediates holds of all 2228 instructions of the plugin's `.idef` files, listed with the
project's own `gen_semantics.c` and `hex_common.py`; TLC evaluates it on the instructions
of the run.
`PreparationAssumption` bounds a packet by four words: the plugin asks the decoder for
no more, and `Decoder_proofs!PacketInWindow` says that a packet stays in its window.

`PacketDbParts_proofs` and `Prepare_proofs` hold the lemmas about operators that
several modules share: of the interval map and the decoder, and of the passes of the
preparation. Both begin with three facts on sets of natural numbers. A least and a greatest
element exist: the interval map's predecessor and successor and the end of a
packet get their properties from them. And a set that has 0 and with each number up
to `n` the next one has all of them: induction for a property that is given as a
set, which takes no operator as a parameter. With it the loops of the passes, which
are recursive functions over the places of a packet, are proved to keep what each of
their steps keeps.

*Interval map.* The inductive invariant is that the map is a well-formed
`std::map` (key 0 is present) with no equal neighbours. Both parts are needed:
`RemoveDuplicates` looks at two neighbours only, so a mutator leaves the map
merged only when it found it merged. The lemmas go operator by operator: making
an entry does not change contents, removing a duplicate does not either,
overwriting changes `[from, to)`.

*Decoder.* The inductive invariant says only that the packet is the one
`DecodePacket` makes of the window; the rest are lemmas about `DecodePacket` over
every window. `RawShape` gives the instructions before the passes: those of the
words, one more for a duplex, and last the pseudo-instruction, which no word
decodes to. `PacketShape` adds that the passes leave the instructions where they
are and extend exactly those behind an extender. An extender and what it extends
are then a bijection (`PacketExtenders`), and the parse bits of the first words
decide the last instruction (`PacketLoop`). At most four words make at most six
instructions (`PacketLength`), which is where `MaxWordsAssumption` is used. The walk
to a producer (`ProducerIsCounted`) has at each of its steps as much of the encoded
distance left as the consumer's distance less the instructions, extenders not
counted, that lie between; when it stops inside the packet nothing is left.

*Packet database.* Whether the second lookup finds a packet is a matter of what
other threads did since `AddBytes`. The inductive invariant `IInv` is `Types /\
Spans` and `CallOK` of every thread. `CallOK` relates a thread's local variables to the shared map:
the window left to decode starts at `at`, the packet in hand is what it decodes
to, and once a packet was added the asked address has a packet in the map.
That a step of another thread keeps this last fact is `CoverageGrows`: an
insertion never clears an address, it can only replace its packet. `Spans` is
kept because `SetInterval` changes nothing outside the inserted packet. The
address arithmetic never wraps, from the assumption on addresses. For
`FromMemory` a second invariant says that windows are parts of the binary;
`WindowSuffices` then makes the packet decoded from the window the packet of the
binary.

*Answers.* That a lookup finds an instruction at its address needs two things of
the packet it finds. The address lies inside the packet (`Spans`), and it is the
address of one of its words: the invariant `AInv` says that windows, the starts
of stored packets and the addresses asked about are all whole words away from
`Base`, and that a stored packet does not reach past the binary. An overwritten
packet keeps its start and its size, so neither changes for the addresses it is
left with. `PacketLayout` then places the instructions: those of the words at
even offsets, the second half of a duplex in the middle of the last word, the
endloop at the end of the packet, where no address asked about can be. The
search of `Lookup` therefore stops at the word itself (`FindsTheWord`), and what
the three callbacks make of its position agrees (`WordShows`).

*Orders.* `StartNeverAdvances` and `Stable` speak of an insertion over an address
of the map. The inductive invariant `OInv` says what is known of the packet that is
inserted and of those it meets. Every entry is a packet of the binary, from some word
up to the first packet end behind it (`Entries`), so two packets that share a word
end together (`EndsTogether`). *One call at a time*: while a call adds packets, no
entry reaches from before the place it has come to into what lies behind
(`Fresh`). This needs `Contiguous`, what is between an address and the start of its
packet is in the map too: the call began because its address was not, so no
packet of an address behind it starts before it. What the call overwrites therefore
starts where the new packet does or later. *Where control has been shown to go*: every
entry begins at a word that follows a packet end or is the first (`Entries` and
`FromStarts`), and of two such packets that share a word neither begins inside
the other (`SameStart`); by `FromMemory` they are the same packet.
`OrdersImplement` brings in what was proved of calls in any order.

*Preparation.* The inductive invariant goes with the stage. While the packet comes
together its entries are `Entries`: places in order, an endloop last, extenders apart.
From the extenders' pass on the copy is `Arranges`: exactly the
instructions of the decoded packet but the extenders, each once and unchanged, the
endloop last; `MoveArranges` is the one lemma that says that sending an instruction
about keeps this. The shuffle's loop keeps `Shuffled`: branches are in order, no producer has
fallen behind a new-value consumer encoded after it (`Behind`: what overtakes is a
store or a compare, and neither writes a register), and, in a packet that fits the slots,
memory accesses are a `MemoryTail`: one, or two in order behind
everything else. That they are no more than two, and nothing but the endloop behind the
second, follows from the slots (`SlotsDecrease`, `MemoryPair`): the slots of the instructions decrease
along the packet, and memory accesses have only the slots 1 and 0. The walk of the
stores then never passes a store over a load: when it moves one, something other than a
memory access is behind it, so it is the only one. That both passes report no change
is what makes the loop end, and what it tells is `ComparesFirst`. The last moves keep
this, in a packet that fits the slots the orders as well, because only an
instruction in slot 0 moves to the end, and it was the last one (`Settled`). The split puts the
compares of the compare-jumps in front of that (`Prepared`). Four slots hold four
instructions, with an endloop five entries, and two branches split into two more
(`PreparedFits`): so a packet that overruns the array does not keep these rules, which is
what `IInv` says of it.

*The shuffle's loop.* `SameInOneStep` compares the loop, which stops when a round has
changed nothing, with as many rounds as the packet has instructions. One walk of the
stores puts them last (`ShuffleStoresIs`) and one walk of the compares puts those first
(`ShuffleComparesIs`); a walk over what is already so changes nothing (`StoresStay`,
`ComparesStay`). Storing keeps the compares first, so that after the first round only
stores can move, and after the second nothing can (`AtRest`). The inductive
invariant `Rounds` says which of these the copy is at.

*Lifter, its branches.* Two things make the way out of a packet right. The first is that the
prepared packet (`PreparedPacket`) has each instruction of the packet once and
otherwise only compares, which leave nowhere; it follows from what the
preparation's proof says of the passes, and since `SameInOneStep` is proved it speaks of
the same passes. So each branch of the packet is lifted, with a flag of its own, and
nothing else is. The second is the inductive invariant `IInv`: the register file, the
temporaries hold data, never a direct target and never the address of the next
packet (`Tables`), what is declared as a destination is a register or a pair with its
size (`Sizes`), and control, once it has left, is at the goal of an instruction that goes,
or at none if none goes (`Gone`). Only with `Tables` does an indirect jump go where an indirect branch was reported and not, by way of a
register, where a direct one would. What remains is a case for each kind of branch
(`JumpReported`, `CallReported`, `IndirectReported`) and one for the packet whose
conditions are all false (`FallsThrough`).

*Lifter, in parallel.* The lifter goes through the packet in an order of its own.
What the proof needs of it is `Arranged` (`PreparedOrder`): memory accesses and branches
in the order of the packet, compares in front of all else, those of compare-jumps
included, and what reads a new register value behind everything but an endloop. The
parallel packet is recursive: an argument may be the result of another instruction.
`ArgumentsAre` unfolds it for one instruction, by way of the fact that `.new` values
come from instructions encoded before (`NewSource`).

The inductive invariant is `InStep`. Between two lifters it is `Midway`: of the
instructions lifted, those that write have their results in the registers they name or
in the temporaries (`NamedDone`, `TempsDone`), every register that is not written by
name is as before the packet, a temporary of what is read and written holds a copy of
the register until it is written (`CopiesKept`), destinations have the size of the
instruction that writes them (`Asked`), and the stores, flags and targets are those of
the instructions lifted (`StoresDone`, `FlagsDone`, `TargetsDone`). Without
`Asked` the invariant is not inductive: what reads a register as `.new` asks for four bytes
of it, and only because its producer has asked before does it not decide the size of
a pair. Given `Midway`, an instruction reads what it reads in the parallel packet
(`OperandRead`, `ValuesAre`), is executed when it is executed there (`HoldsIs`), and
leaves `Midway` behind (`MidwayStep`, a lemma for each part). In this the conditions of
`Covered` are used where the technique depends on them: `DirectWritesLast` where a
register is read (`OldSource`), `AddressApart` where a pair is stored, `OneWidth`
where results share a temporary (`OneWriter`), `Exhaustive` where a destination has not
been written (`KeptAtEnd`), `ReturnAddressKept` where a return goes through LR
(`ReturnAddress`).

When all are lifted, the packet's results are at hand (`LiftingEnds`); `Settling` says that
of each register, in its place or in the temporary from which it is still to be copied,
and each `WriteBack` keeps it, in any order. At the end the first branch that goes is the
first that happens in the packet (`GoesIs`, `BranchesOrdered`) and goes to the same place
(`GoalIs`). So `Leave` is the step of `Parallel`, and all others stutter.

*Pool.* The inductive invariant adds to `TypeOK` that until the script raises, an
instruction that has been submitted is either on its way or collected with the
text it should have (`Accounted`), and that a future of an instruction in `bad`
holds an exception once finished. When nothing is on its way and all have been
submitted, everything has been collected, so `Write` writes what `Generation`
does; a function that cannot be generated would have made the script raise.

*Texts.* The transformer's layouts are the grammar's, but for a blank of its own and
those in `" = "` and `") "`; `Ink` takes from a leaf what the transformer adds. Level by level, what is left of the transformer's leaves is therefore what
is left of the grammar's (`LeavesInked`, by induction on the level), and the operands among
them are the same ones in the same order. Leaf by leaf, the tokens of an operand or a word are
shown as what is read there: a register in the field of its own operand, because
it is the only one with its id, an immediate in its own, because it is the only one of its
case (`NamesOperands`, `NamesImmediates`); a system register by the name that the
reader's table has for it, word by word (`SysNamed`). Joined, they are the text (`TextReads`).
For the addresses, nothing but an immediate is shown as one; whether `imm` shows it so
depends on the number of immediates and on those seen before, and the position
that this picks is the relative one (`TargetsAre`). For the marks, a number that is not a
literal of the text stands right behind the token of its own mark, and of two immediates
only one is of the case of the first `IMMEXT` (`MarkedIs`). The three theorems then need
of the pool only the invariant `FromInsns`: the body that the file has for an instruction
is its own, which follows from what `Accounted` says of collected results.

Model-checked only: the lifted code (`TypeOK`, `Declared` and `Equivalent` of
`LiftedCode`), which is made of recursive operators, over expressions and grouped
statements, and bit arithmetic, out of reach of the proof system; and `RoundsBringOrder`,
whose pairs would have to be counted through every move. `EveryQueryReturns` and both
`Ends` are liveness under fairness and stay with TLC.

## 5. Plan

Modules: the HVX instructions, once the plugin lifts them.

Theorems: `RoundsBringOrder`, by a count of the pairs that a move resolves;
`SameInOneStep` without the condition on slots; that the words of `Decode`
and those of `Preparation` make the same packets, so that the two compose.

## 6. Where code and comments disagree

* `decode_fill_newvalue_regno` skips the first instruction of a packet
  (`decode.c:255`), so a new-value consumer there keeps its encoded distance for
  a register number; its comment promises the correct register. No producer can
  precede the first instruction, so only words that are no code have one there;
  `ProducerIsAhead` starts at the second.
* `AddBytes` and `Lookup` are declared to require the mutex of their caller
  (`packet_db.h:49,53`) and take it themselves; the callbacks rightly call them
  without it. No run is needed to see this: the annotation should be
  `LOCKS_EXCLUDED`.
* `pkt->insn[]` is said to be long enough for "2 pairs + loopend" (`insn.h:27`), and a
  packet to have "up to two distinct branch instructions" (`il_util.cc:87`). No code
  counts them: four compare-jumps, or three with another word and an endloop, decode, and
  `decode_split_cmpjump` writes their compares to `insn[7]` (`decode.c:361`), behind the
  array (`preparation_overrun`). Such words are no packets an assembler makes, but
  the decoder meets them wherever data is decoded as code. For what an assembler
  makes the array suffices (`AssembledFits`).
* The lifted code is not an equivalent model of every packet, as
  `docs/design.md` has it. A conditional destination is written back from a
  stale temporary when the predicate is false (`lifter_conditional`);
  `memd(Rs+#) = R1:0` stores its address, because the pair's temporary is
  `EA_REG` (`lifter_store_pair`); `jumpr r31` beside a write of LR goes to the
  new value. `Covered` names, one conjunct each, the packets
  that are free of this, and the limit that a `TODO` in `packet_context.cc`
  describes (`OneWidth`); for those `lifter` shows the equivalence.
  `DirectWritesLast` leaves out packets in which an
  instruction lifted later reads a register that the semantics name and write at
  once, such as a store relative to SP behind `deallocframe`.
* Six forms of semantics are lifted to something else than they mean
  (`Deviates` in `LiftedCode`). A negated condition (`fLSBOLDNOT`, `fLSBNEWNOT`,
  `fLSBNEW0NOT`, `fLSBNEW1NOT`) becomes a bitwise `not.b` of a byte in which
  comparisons leave 1, and 0xfe is as true as 0xff: what should be done when the
  predicate is false is done always (`lifted_code_negated`; `bn_llil_test.py:289`
  expects just this). Instructions that use the bits of a predicate take a true one
  for the number 1: `~PsV` in `C2_not`, `C2_orn` and their kin, `C2_xor`, `C2_all8`,
  `C2_vitpack`, `C2_tfrpr`, `S2_valignrb`. `Lifter` takes a guard to mean what the instruction says; the
  packets it shows equivalent are so up to these forms. `RsV - RuV + fIMMEXT(siV)` becomes
  `Rs - (Ru + s6)`: the grammar has one rule for all binary operators
  (`gen_il_funcs.py:54-65`) and its parser shifts where it could reduce, against
  `alu.idef:371`, "Rd32=add(Rs32,sub(#s6,Ru32))". `RxxV`, a pair that is read and
  written, is lifted as a word: the regular expression at `gen_il_funcs.py:931` has `dd`,
  `ss`, `tt`, `uu` and `vv` but neither `xx` nor `yy`, and `M2_dpmpyss_acc_s0` loses the
  upper half of its sum (`Equivalent` gives the states). `fCONSTLL(0x80000000)`
  in the rounding of `M2_dpmpyss_rnd_s0` is cast to a signed word before it is
  widened and so becomes negative. `fZXTN(uiV*8,64,RssV)` in `S2_vspliceib`
  builds its mask by shifting a word, too narrow for a double word.

* A call beside an unconditional jump, as in the packet that the comment in
  `il_util.cc:101-106` explains, returns to the next packet, but
  `FillBnInstructionInfo` reports only the call and the jump, so nothing leads
  the analysis there: the same comment shows the call become a tail call.
  `SuccessorsReported` leaves these packets out by name (`CallsBesideJump`).

## 7. Not modelled

* Register tables and calling conventions: constant tables without state.
* `type_util.py`: run-time assertions of argument types, true of every call.
  `gen_il_funcs_data.py`: the list of the instructions that are lifted.
* In the IL generator: `fMPY32SU`; the macros that become nothing (barriers,
  cache operations); classes that no rule uses (`IlSetRegisterSplit`, `IlTrap`,
  `IlPush`, `IlPop`); predicates that are neither 0, 1 nor all ones, which
  `C2_tfrrp` can leave; a store-conditional that fails; the layout
  of the C++ files.
* In the text generator: the Earley parser and its choice between two trees of
  one string (both trees are in the run), and how `GetRegisterName` spells a
  register (`text_util.cc`).
* The bit-level decision tree and operand extraction of the decoder: generated
  from the instruction data. `Decode` starts from the class of a word.
* HVX packets: neither slots nor resources.
* In `Lifter`: read-write pairs, pairs of control registers, jumps on the value of a
  general register (`J2_jumprz` and its kin), the conditional stores, which alone write
  a predicate without being compares (`S2_storew_locked`), system
  instructions, `USR`, instructions without a lifter, and the other scratch temporaries (`TMP_REG` and its neighbours), which one generated function
  uses alone. The pairs R5:4 and R7:6 share theirs with `WIDTH_REG` and
  `SHAMT_REG`.
* Relocations: a table from ELF relocation types to flags, which Binary Ninja's own
  handler applies; it computes and keeps nothing.
  System calls in `Branches`.
* Binary Ninja itself: `Ask`, `Patch` and the order of recursive analysis stand
  for what the plugin may expect of it.
