# Specification of the two-way R10K-style RISC-V processor and its software

TLA+ models of the out-of-order processor in `src/verilog` and of the C and C++
software kept with it (the visual debugger, the pipeline printer, the test
programs), the TLC configurations that check them on small instances, and
TLAPS proofs about them. The processor fetches, dispatches, broadcasts and
retires at most two instructions per cycle. It has a reorder buffer that holds
values (there is no physical register file), one reservation station, a store
queue, and blocking caches in front of a memory that answers with transaction
numbers.

Everything in the processor is clocked, so **one step of a model is one clock
edge**. Combinational signals are operators of the state before the edge, the
`always_ff` blocks are the primed variables. What makes the design hard is not
asynchrony but that many things happen *in the same cycle*: an instruction is
dispatched while its producer broadcasts, retires or is overwritten in the map
table, and every pair of modules must agree about which comes first.

## Inventory

Paths are below `src/verilog` unless they say otherwise. The files of the
processor are those in `PIPEFILES` of `src/Makefile`.

| Component | State | Operations | What must hold |
|---|---|---|---|
| Reorder buffer, `ROB/ROB.sv` | `head`, `tail` (one bit wider than an index), `ROB_content` | dispatch at the tail, complete from the bus, retire at the head, clear on a squash | program order; no slot used twice; completion bits belong to the instruction in the slot |
| Retire stage, `RETIRE/rt_stage.sv` | none | packets of the two oldest entries, squash signal | agrees with the head's movement; nothing behind a misprediction or a WFI retires |
| Map table, `MapTable/*.sv` | tag and status of every register | rename two, look up four sources, mark complete and retired, reset on a squash | knows where the youngest writer of every register is |
| Reservation station, `RS/*.sv` | 16 entries in dispatch order | allocate two, free two and close the gaps, wake up from the bus | no instruction lost or doubled; operands are the right values; loads in order |
| Register file, `DISPATCH/REGFILE/regfile.sv` | 32 registers | two writes, four reads that see them | holds what the retired instructions computed |
| Dispatch stage, `DISPATCH/dp_stage.sv` | none | decode, ask the buffer for packets | never more than the three queues can take |
| Issue stage, `ISSUE/*.sv` | none | pick two ready entries for different functional units | oldest first; respects stalls |
| Execute and complete, `EXECUTE/*.sv`, `COMPLETE/cp_stage.sv` | pipeline registers, four multiplier stages | compute, choose two results for the bus, stall the ALUs | every issued instruction is broadcast once |
| Load/store queue, `LSQ/lsq.sv` | store queue with `head`, `tail`, the priority bit | allocate stores, execute, forward to loads, write the oldest store at retirement, hold retirement back | a load sees the youngest older store of each byte; each store is written in order |
| Fetch stage, `FETCH/if_stage.sv` | two PCs | fetch two instructions, follow the predictor or a squash | the chain of PCs is unbroken |
| Instruction buffer, `FETCH/insn_buffer/insn_buffer.sv` | 16 packets, two pointers | write two, read two, clear | no packet lost, doubled or reordered |
| Branch predictor, `BP/*.sv` | BHT, PHT, BTB, RAS | predict, train | every guess is safe; calls and returns match, outcomes are learnt, the outputs agree |
| Data cache, `Cache/dcache/dcache_planb.sv` | 16 sets of two lines, state machine, awaited transaction | hit, miss, evict, fill, merge a store | no completed store lost; loads read the latest |
| Instruction cache, `Cache/icache/*.sv` | lines, four-entry miss queue, prefetcher | hit, miss, prefetch | replies go with their requests |
| Memory, `src/testbench/mem.sv` | the blocks, countdowns | load, store, one reply per cycle | external to the processor, kept in the repository |
| Wiring, `pipeline.sv` | pipeline registers | bus arbitration, counting of retired instructions | |
| Visual debugger, `src/testbench/visual_c_hooks.cpp`, `visual_testbench.v` | a ring of dumps, register counters, the user's cursor, flags, two pipes, the waiting testbench | store a dump, step, go back, jump, run, quit | each slot holds its own dump, the screen shows the cursor's slot, a run stops |
| Instruction library, `src/testbench/riscv_inst.h` | a decoded instruction | decode, encode, assemble | round trips; agrees with the processor |
| Pipeline printer, `src/testbench/pipe_print.c` | none | name a word | agrees with the processor |
| Allocator and priority queue, `src/test_progs/tj_malloc.h`, `priority_queue.c` | ring of free blocks; linked list | malloc, free; create, push, pop | no block has two owners; the list is ordered and loses nothing |
| Sorts and searches, `src/test_progs/*.c` | arrays and graphs | five sorts, binary search, two graph searches | sorted permutations; exactly what is reachable |

How they interact: fetch fills the instruction buffer; dispatch takes packets
from it, gets tags from the reorder buffer, sources from the map table, the
register file and the reorder buffer, and writes the reservation station, the
map table, the reorder buffer and the store queue in one edge. Issued
instructions come back on the common data bus, which the reorder buffer, the
map table and the reservation station hear. The retire stage reads the two
oldest entries; the load/store queue may hold them back (`retire_disable`)
while it writes a store; the map table and the register file see what retires.
A misprediction is acted on only when it retires: one `squash_signal` clears
everything except the register file, the caches and the predictor.

The debugger is a second process. The testbench writes it a dump of the
signals at every clock edge and then waits for a byte on the other pipe; the
debugger reads a dump, draws it, and sends that byte when its user asks for the
next edge. The printer is called by the testbench, the programs run on the
processor.

## Modules

| Module | Models | Correspondence |
|---|---|---|
| `Rob` | reorder buffer, retire stage, retired-instruction count | `Cycle` and `Squash` are the branches of `ROB.sv:211-226`; `retire_count` is `head_n`, `completed_insts` is `pipeline_completed_insts`; `pending`, `next`, `oldest` say which instructions are in flight |
| `RetireOrder` | abstract specification: in-order retirement with no buffer | what `Rob` promises the architecture |
| `Rob_proofs` | the theorems about `Rob` | |
| `Registers`, `MapTable`, `RegFile`, `ReservationStation` | the components of that name | `MapEdge`, `RegEdge`, `RSEdge` are their `always_ff` blocks, `Lookup`, `RegRead`, `ready`, `slots_left` their outputs |
| `Core` | the four components wired together by `pipeline.sv` | `CoreCycle` is an edge of all of them; the operands of a dispatched instruction are `Captured` |
| `Frontend` | fetch stage, next-PC choice of the predictor, instruction buffer | |
| `Memory`, `DataCache` | `mem.sv`, `dcache_planb.sv`, the bus | `Start`, `Evict`, `Finish`, `Rest` are the branches of the state machine |
| `Lsq` | load/store queue, with the window of the reorder buffer it lives in | `Cycle` and `Squash` are the branches of `lsq.sv:680-718`; the outputs have the source's names; `window` is what `WindowInOrder` says of the reorder buffer; a `phase` is the register an instruction is in |
| `Frontend_proofs`, `Predictor_proofs`, `Core_proofs`, `Lsq_proofs`, `Execute_proofs`, `Caches_proofs` (`Memory`, `DataCache`, `Icache`), `Software_proofs` (`Instructions`, `Decoders`, `Debugger`, `Heap`, `PriorityQueue`) | the theorems about the modules of those names | |
| `BranchHistory` | BHT, PHT and the two ALUs' packets that train them | `BhtEdge` and `PhtEdge` are the `always_ff` blocks, `n_state` the combinational one; `recent`, `refused` are what the branches of one index did; the entries of one index are kept, as those of others do not touch them |
| `BranchTargets` | BTB, RAS, pre-decoding, choice of the next PC | `bp_out`, `bp_taken`, `push`, `pop`, `hit`, `predict_pc` have the source's names; `calls` is the stack as a program sees it |
| `Predictor` | the two halves of the predictor, which share no state | a behavior is of one half |
| `Execute` | issue stage, functional units, complete stage, with the station's order | `gnt` and `issue` are the two selectors, `Advance` the registers, `fu_rdy` and `cdb_in_flag` the bus |
| `FunctionalUnits` | abstract specification: what `Core` assumes of those stages | `waiting`, `ready`, `executing` |
| `Icache` | instruction cache, queue of misses, prefetcher, over `Memory` | one action is a cycle of all of them |
| `Instructions` | three decoders and the assembler | operators of a word, a record of its fields |
| `Decoders` | what they have to do with one another, as properties of one sample | `sample` is a word decoded or an instruction assembled |
| `Heap`, `PriorityQueue` | `tj_malloc.h`, and `priority_queue.c` on top of it | one action per call |
| `Programs` | the sorts and searches | recursive functions of the array or graph; a loop is a function of its counter |
| `Debugger` | debugger, its two pipes and the testbench | one action per line read, per key and per step of the testbench |
| `Software` | the software parts side by side, which share no state | a behavior is of one part, or of one sampled input |
| `Dispatch` | what becomes of an illegal instruction | extends `Rob` |
| `MCRob`, `MCCore`, `MCLsq`, `MCDataCache`, `MCPredictor`, `MCSoftware` | instances for TLC | |

Conventions. Names are the source's where TLA+ allows it. Signals that come in
pairs are sets or sequences of at most two. Data is abstracted to where it
comes from: an instruction is its number in dispatch order and its kind, and
the *result* of an instruction is represented by its number, so an operand
tells which instruction it came from. Variables marked *history* record what
happened and never influence the others. A definition marked *Mutant* is a
plausible bug in the definition that follows it; it is used by nothing in the
models, and each property is known to fail when its mutant replaces the
original.

Every module of `Core` is also what it is alone: the reorder buffer part of
`Core` is `Rob` with its environment made concrete, which `CoreImplementsRob`
proves and run `core_live` checks with the fairness.

## Properties and runs

| Run | Instance | What it shows |
|---|---|---|
| `rob_order` | 3 entries, 6 instructions | `WindowInOrder`: head to tail are exactly the uncounted instructions; `NoStaleCompletion`: completion bits belong to the slot's instruction; `RetiresInOrder`: `Rob` implements `RetireOrder`; `WfiRetiresLast` |
| `core_station` | 3 reorder entries, 2 station entries, 4 instructions of two operands (ALU, branches), 2 registers | `NoneLost`, `StationInOrder`, `MapTrue`, `OperandsCorrect` |
| `core_live` | 2 reorder entries, 3 instructions of every kind | `RegistersRetired`, `LoadsInOrder`; `Core` with its fairness implements `Rob` with its own (`FairSpec`), and `EveryoneLeaves`: everything dispatched retires, is squashed or is cut off by a WFI |
| `issue` | window of 4, multiplier of 2 stages | `InOneUnit`: every instruction of the window is in the station or in one unit register, and only those are; `SafeUnits`: `Execute` implements `FunctionalUnits`; `FairUnits`: and its fairness, so that nobody waits for ever |
| `fetch` | buffer of 3, 3 PCs | `Linked` (with `NoOverrun`), `Delivered` |
| `predictor` | 2 indices and histories of 1; stack of 3, 2 targets, 6 instructions | `NotTakenIsLearned`, `ReturnsMatchCalls`, `ChoicesAgree` |
| `icache` | 4 blocks, 1 set of two lines, queue of 2, 2 transactions, latency 2 | `LinesTrue`, `AnswersInOrder` |
| `dcache` | 1 set, 3 blocks, 3 transactions, latency 2 | `NoStoreLost`, `LoadsReadLatest`, `EveryRequestEnds` |
| `lsq_values` | store queue of 4, 3 instructions in flight (whole-word and one-byte loads and stores, another word, branches), unbounded in time | `QueueMatchesWindow`: pointers, positions and valid bits agree with the instructions in flight; `LoadsSeeYoungestOlder`; `RetiredStoresAreWritten`; `RequestsStay` |
| `lsq_full` | 5 in flight, whole words | `LoadsSeeYoungestOlder` when stores fill the queue; `OldestLeaves` |
| `software` | ring of 3 dumps, 6 edges; heap of 80 bytes, 4 nodes, 3 priorities; words, operands, arrays of up to 5 and graphs of 5 as in `MCSoftware` | `DecodersAgree`, `EncodingsRoundTrip`, `Sorted`, `Reached`, `BlocksOwnedOnce`, `QueueOrdered`, `RingHoldsLatest`, `CursorIsShown`, `Stops` |
| `illegal_dropped` | 2 entries, 3 instructions | `IllegalHalts` fails: see Findings |

Type correctness of `Rob` and `Frontend` is proved (see Proofs). Deadlock is
checked everywhere: the models can always step (a stopped clock, a finished
debugger and a sampled input step to themselves).

### Why the bounds are enough

- *Reorder buffer.* With three entries and six instructions the pointers pass
  their wrap at `2 * ROB_SIZE`, the buffer is full and empty at every position
  modulo its size, every slot is reused, and both retire ports see every
  combination of kinds. The proofs remove the bound.
- *Core.* What can go wrong happens between a producer, a consumer, a second
  writer of the register and an instruction in between: four instructions, one
  register besides register 0. Four instructions in three slots reuse a tag,
  with and without a squash before it. Two places in the station make it full,
  leave one place and close two gaps.
- *Issue.* Four instructions of any kinds keep both ALUs, the multiplier and the
  memory port busy at once, so that the bus has more than two results to choose
  from. Two multiplier stages for four: what counts is that they cannot be
  stalled. An instruction waits for the one before it (`Distances`), the longest
  chains.
- *Fetch.* Three places with two-packet writes make the full and empty
  conditions bite at every place; three PCs tell a branch target from both
  successors. The proofs remove the bound.
- *Predictor.* Two indices let the two ALUs train the same or different ones,
  and index 0 is the one an idle ALU points at. A history of one outcome has both
  values, which is what makes a counter be trained again after others were. A
  stack of three is overrun and emptied with calls on both sides of its wrap. Two
  entries for six instructions alias, and two regions of three targets make the
  upper bits matter. The proofs remove the bounds.
- *Instruction cache.* Four blocks for two lines and a queue of two places force
  replacement, a full queue, and misses that survive a squash; the last block and
  the addresses the prefetcher forms behind it are reached.
- *Data cache.* Three blocks in a set of two lines force replacement of clean,
  dirty and never-used lines; three transaction numbers allow a cancelled load,
  the miss after it and an instruction fetch at once.
  `NUM_MEM_TAGS > LATENCY` holds as in the processor (15 and 7), so that a number
  is always free.

- *Load/store queue.* The runs have no bound on time: tags and pointers wrap,
  and a byte's value is the tag of its store, so the state space is finite. Two
  stores on both sides of the wrap and a load behind them are the shortest case
  in which the order of the indices is not the program's; words of two bytes
  make loads that take one byte from the queue and one from the data cache.
  `lsq_full` has more instructions in flight than the queue has places: there
  the rule that dispatch stops with two places free matters. With it the
  queue is never full; if it were, a load in front of all stores would take
  them for older ones (the mutant `dp_availableAtTwo`).

- *Software.* The debugger's ring of three wraps twice in six edges, with the
  user anywhere in it; the dump has two registers of one group, so that a counter
  moves. The heap has room for the four nodes only if it uses freed ones again, in
  either position of `base`. The words take every opcode with each field at the
  values the decoders distinguish and their neighbours; arrays of five reach every
  branch of the recursions; graphs of five vertices have cycles and unreachable
  parts.

### Fairness, and why the code justifies it

All of it is weak fairness of a step that the hardware, or a process, cannot put
off for ever.

- `Rob`: each tag is broadcast in the end, and the load/store queue does not
  hold retirement back for ever. The first is not assumed of `Core` but follows
  there (`core_live`).
- `Core`: a ready entry is issued and an issued one gets the bus in the end.
  Run `issue` derives it: in `Execute`, where the multiplier and memory go before
  the ALUs and the oldest ready entries first, no instruction waits for ever,
  because the window is finite and a tag is used again only after everything older
  has broadcast.
- `Execute`: the clock ticks, and a load gets its value in the end, which is what
  `OldestLeaves` says of the load/store queue and `EveryRequestEnds` of the cache.
- `Software`: the debugger and the testbench are processes that run; a user who
  has let the simulation run need not press a key (`getch` times out). A user who
  is asked for a key need not answer.
- `Frontend`: the instruction cache answers in the end; dispatch asks again and
  again, because the queues it waits for drain.
- `DataCache`: only that the clock ticks.
- `Lsq`: the clock ticks while an edge changes something (`Busy`, which spells out
  the `ENABLED` of weak fairness so that TLC need not search for it); an instruction that can leave the station does so in
  the end (the issue stage takes the oldest first, and the window is finite);
  the data cache completes a request that stays, which is what `EveryRequestEnds`
  says of it. The other direction also closes: `DataCache` assumes of its
  environment that requests stay (`NextRequest`), and `RequestsStay` is that
  promise on the side of the queue.

## Proofs

`Rob_proofs` proves, for every `ROB_SIZE >= 2` and every `MaxInsn`:

| Theorem | States |
|---|---|
| `TypeCorrect` | `Spec => []TypeOK` |
| `WindowInOrderHolds` | `Spec => []WindowInOrder` |
| `NoStaleCompletionHolds` | `Spec => []NoStaleCompletion` |
| `WfiRetiresLastHolds` | `Spec => WfiRetiresLast` |
| `RetiresInOrderHolds` | `Spec => RetiresInOrder`, the refinement of `RetireOrder` |

The only assumption is `RobAssumption` (two entries at least: the code indexes
`head + 1` and `tail + 1` as different slots).

*The argument.* None of the invariants is inductive as it stands:
`NoStaleCompletion` needs to know that a broadcast finds its own instruction in
the slot, which needs every pending tag to point at the slot of its
instruction, which needs dispatch not to overwrite occupied slots, which needs
the distance between the pointers to be the number of instructions in flight.
The inductive invariant `IInv` therefore speaks of every slot by its distance
`Off(i)` from the head: a slot at a distance below `Count` holds instruction
`oldest + Off(i)`, it is complete only with that instruction's result, and a
pending instruction with tag `i` is the one in slot `i`, not complete and below
`Count`. An edge that retires `r` and dispatches `n` moves every distance by
`r` modulo the size (`OffsetsMove`) and the new entries land at the distances
`Count` and `Count + 1` (`EndsMove`, `DispatchFits`); the head moves by exactly
what the pipeline counts (`RetireAgrees`) unless a WFI stops the clock, after
which the invariant says nothing.

`Frontend_proofs` proves, for every `DEPTH >= 3` and `NumPC >= 2`
(`FrontendAssumption`):

| Theorem | States |
|---|---|
| `FrontendTypeCorrect` | `Spec => []TypeOK` |
| `LinkedHolds` | `Spec => []Linked` |

*The argument.* The type invariant, `NoOverrun` and `Chained`, the two parts of `Linked`, are inductive together. `empty` and
`buffer_full`, which the code reads off single bits of the pointers, are turned
into statements about the distance of the pointers (`SizeIsDistance`,
`Conditions`); so a read takes packets that are there, a write puts its packets
behind the last (`WritesBehind`, `PointersMove`), and the chain of PCs, which
ends at the packets being written, is carried over a cycle (`ChainOfCycle`,
`CycleKeeps`), for every guess of the predictor.

`Predictor_proofs` proves, for all sizes of the predictor's tables and every
program (`HistoryAssumption`, `TargetsAssumption`):

| Theorem | States |
|---|---|
| `ReturnsMatchCallsHolds` | `PredictorSpec => []ReturnsMatchCalls` |
| `NotTakenIsLearnedHolds` | `PredictorSpec => []NotTakenIsLearned` |

*The argument.* For the stack: a call moves every return address one place down
and overwrites exactly the one that leaves (`CallKeeps`), a return moves them up
(`ReturnKeeps`), whichever way the pointer wraps; what each does to the list of
calls is stated apart, of sequences (`PushFacts`, `PopFacts`). `NotTakenIsLearned` is not
inductive: `DirectionsInv` adds that a counter is below the top after *one*
outcome "not taken", and that the table's history is that of the branches.
`NotTakenCounts` is the point of the proof: a packet that is put over another
ALU's without being a branch says "not taken", so that it can hide only outcomes
of the other kind.

`Predictor_proofs` also proves `ChoicesAgreeHolds`, `PredictorSpec => []ChoicesAgree`. Its
invariant, `BufferInv`, says that a valid entry of the target buffer is one that
the branch of *some* PC wrote: an index and a tag give that PC back
(`IndexAndTag`), so a hit is the target of the branch that is fetched, although
many branches share the entry.

`Core_proofs` proves, for every size of the reorder buffer and of the station, all
registers, operands and programs (`RobAssumption`, `RSAssumption`, `CoreAssumption`):

| Theorem | States |
|---|---|
| `NoneLostHolds`, `StationInOrderHolds` | `CoreSpec => []NoneLost`, `CoreSpec => []StationInOrder` |
| `OperandsCorrectHolds`, `MapTrueHolds`, `RegistersRetiredHolds` | `CoreSpec => []OperandsCorrect` and so on |
| `LoadsInOrderHolds` | `CoreSpec => LoadsInOrder` |
| `CoreImplementsRob` | `CoreSpec => Spec`, the specification of `Rob` |
| `CoreRetiresInOrder`, `CoreWfiRetiresLast` | `CoreSpec => RetiresInOrder`, `CoreSpec => WfiRetiresLast` |

*The argument.* `CoreInv` is the conjunction of `Rob`'s inductive invariant, the
types, the five invariants and `Flying`, which none of the five says and all of
them need. The map table holds tags, and a tag is used again as soon as its
instruction has retired: `MapPoints` says that a register's tag is that of an
instruction in flight which writes this register, so that a retirement or a
broadcast that finds the tag means the register. `LatestInFlight` says which one
the program means: the youngest in flight that names the register, or the
youngest that has retired. `NoDestination` is why a store that is held back (both
ports stand still, but the packet behind it is written into the register file all
the same) harms nobody. An operand is right when it is captured because all
sources of it in the cycle agree (`CapturedFacts`), and stays right because it
waits for a tag that cannot pass to another instruction before it broadcasts
(`Hears`, `OperandsStep`). The station's places move while operands wake up:
`StationAfter` says of each place of the next state which entry it is, old or
dispatched. After a WFI has stopped the clock nothing more is claimed of the map
table and the registers, which is why those parts begin with `~halted`.
`CoreImplementsRob` makes the theorems about `Rob` theorems about the core.

`Caches_proofs` proves facts about the memory that both caches need: `MemInv` says
that no two transactions have the same number of cycles left, hence that at most
one answer comes in a cycle and that with more numbers than `LATENCY` one is always
free (`Accepted`). For all sizes of the data cache and of the memory:

| Theorem | States |
|---|---|
| `NoStoreLostHolds` | `Spec => []NoStoreLost` |
| `LoadsReadLatestHolds` | `Spec => []LoadsReadLatest` |

*The argument.* `DataCacheInv` adds to the memory's invariant: `Placed`, where
valid lines can be (the ways differ, way 1 is filled first, a way never used
has nothing to write back); `MissUnderWay`, what each state of the machine knows
(in the evicting states the transaction is exactly one cycle old, so that it
cannot come back before the eviction; the block it brings is still the
memory's, because the line that is being replaced is of another block or clean);
and `Kept`, where the latest value of each word is. `NoStoreLost` alone is not inductive,
as it does not say that the copy on its way is the right one.
The assumption `NUM_MEM_TAGS > LATENCY` says that the memory takes every command:
the machine's evictions do not look at the response. `sys_defs.svh` has 15 numbers
(line 49) and a latency of 7 cycles (line 58).

And for all sizes of the instruction cache, its queue and the memory:

| Theorem | States |
|---|---|
| `LinesTrueHolds`, `AnswersInOrderHolds` | `IcacheSpec => []LinesTrue` and so on |

*The argument.* `IcacheInv` needs `AnswersInOrder` and both parts of `LinesTrue` (a line is its own
block's, a block is in one way) together, and three facts more: the
blocks of the queue's misses are different and not in the cache (`Missing`:
otherwise an answer would put a block into its second way), those that were sent
are in the memory (`SentBlocks`), and the two instructions of a block are
acknowledged together (`AckTogether`). Answers come in the order of the queue
because a later miss has more cycles left (`AnswersInOrder` with the memory's
schedule), also when the data cache's commands come in between.

`Lsq_proofs` proves, for every `SQ_SIZE >= 4`, `ROB_SIZE >= 2` and all programs
(`LsqAssumption`):

| Theorem | States |
|---|---|
| `QueueMatchesWindowHolds` | `Spec => []QueueMatchesWindow` |
| `LoadsSeeYoungestOlderHolds` | `Spec => []LoadsSeeYoungestOlder` |
| `RetiredStoresAreWrittenHolds` | `Spec => []RetiredStoresAreWritten` |
| `RequestsStayHolds` | `Spec => RequestsStay` |

*The argument.* `LsqInv` strengthens `QueueMatchesWindow`. `Room` says that one
place is always free, which follows from dispatch stopping at two (`RoomLeft`):
with a full queue the code could not tell a load in front of all stores from one
behind them. `Entered` says more of a store that executes: one that stalls
behind a load has written its entry already and writes the same again. `Owned`
leaves no valid entry without a store. `Stages` says that each unit has one
instruction and that no store is mispredicted. Then the entries that the code
looks at for a load, which it finds by comparing indices and top bits, are those of the
stores before the load (`InRangeFacts`, `OlderStores`), the order of
`found_upper` before `found_lower` is the distance from the head
(`YieldsToYounger`), and the winner is the youngest. A request stays because what
the data cache has not completed does not retire (`StoreRequestStays`), and because
a load's older stores can neither change nor leave while it waits (`LoadStillNeeds`).

`Execute_proofs` proves, for every window, every number of multiplier stages and
all programs (`ExecuteAssumption`):

| Theorem | States |
|---|---|
| `InOneUnitHolds` | `Spec => []InOneUnit` |
| `SafeUnitsHolds` | `Spec => SafeUnits`, the refinement of `FunctionalUnits` |

*The argument.* `ExecuteInv` says how the station, the window and the unit registers
fit together: what has broadcast has not retired, and what is in the station has not
broadcast and is there once (`Windowed`); the registers hold exactly what executes
(`HeldExecutes`, `ExecutesHeld`); and no two of them hold the same instruction
(`Apart`). A clock edge is a step of the abstract units
(`ClockIsUnitsStep`) because what the two selectors grant is ready and goes to
two different units, whose registers are free or being freed (the selectors look
at the stalls of the same cycle); because at most two results are taken for the bus, and
those are of executing instructions; and because a result that is not taken stays
where it was, which is where the ALUs' stall has to agree with the bus's choice.

`Software_proofs` proves, for every instruction word and every instruction with its
operands (`DecodersAssumption`), for every ring of two dumps or more, every dump
format and all users (`DebuggerAssumption`), and for every set of priorities, every
order of pushes and pops and every heap that `HeapAssumption` and `QueueAssumption` allow:

| Theorem | States |
|---|---|
| `DecodersAgreeHolds` | `DecodersSpec => []DecodersAgree` |
| `EncodingsRoundTripHolds` | `DecodersSpec => []EncodingsRoundTrip` |
| `DebuggerInvariant` | `DebuggerSpec => [](DebuggerInv \/ DiedAtEnd)`: the debugger is in step with the testbench, or has died at the end of a run |
| `RingHoldsLatestHolds` | `DebuggerSpec => []RingHoldsLatest` |
| `CursorIsShownHolds` | `DebuggerSpec => []CursorIsShown` |
| `BlocksOwnedOnceHolds` | `QueueSpec => []BlocksOwnedOnce` |
| `QueueOrderedHolds` | `QueueSpec => []QueueOrdered` |

*The argument, for the decoders.* The runs look at the words whose fields are among a
few values; here `Words` is any set of words of 32 bits, all of them included, and
`Assemblies` any set of instructions with operands from all the ranges RISC-V
gives them, a store's negative offsets and a jump's even ones included (`Takes`).
Each format's immediate is a sum of its fields times their places (`SignedValue`,
`BranchValue`, `UpperValue`, `JumpValue`), and the fields `encode` cuts from it are
the fields it was made of (`ImmI`, `ImmB`, `ImmU`, `ImmJ`) and the other way round
(`BackI` to `BackU`); with `WordAgain` and `InstructionAgain` the rest is which
format, table and row an opcode leads to. Two formats do not come back as they went
in, and the theorem says what they come back as (`ReadAs`). A store has lost bit 11 of
its offset, its sign (`riscv_inst.h:923`): a word's bit 31 is cleared, and of an offset
the low 11 bits are left (`BackS`). The low 20 bits of jal's offset go to where lui has its
immediate, and are read from there in the order of a jump's fields (`BackJ`). Two formats do not come back as they
went in, and the theorem says what they come back as (`ReadAs`): `BackS` loses what
`encode` cuts off a store's offset (bit 11, `riscv_inst.h:923`), so that a word's bit 31
is cleared and an offset keeps its low 11 bits; `BackJ` follows the low 20 bits of
jal's offset into the fields where lui has its immediate, and out of them in the
order of a jump. For `DecodersAgree` each pattern of the
processor is matched exactly by the words that the library gives the pattern's name
(`MatchesAmong`, `MnemonicMatches`, `CasesOf`), the printer's tables are the library's
although its fields are signed (`PipeBranchSame` to `PipeArithmeticSame`), and one word
only is a no-op (`NopIsOneWord`).

*The argument, for the debugger.* The two pipes make the debugger and the testbench
take turns: the testbench waits while a dump of its is read (`Within`), and writes the
next one, or that there is none, while the user is still at the prompt (`Between`).
`DebuggerInv` says what is on the way (`InStep`): the lines not yet read are the rest of
the dump of the edge being stored; so lines and counters say exactly how much of a dump
is in its slot, and the slot that is complete when "break" comes holds the dump of one
edge. For this a dump must not
itself contain the lines "break" and "DONE", which the testbench never writes
inside one. The ring then holds the latest dumps, each in the slot of its edge
modulo `N`, whichever slots have been used again. The cursor follows separately:
each key leaves the user at the newest dump or at the slot he went to, and echoes
a byte only when the testbench waits for one. The slot that is drawn is one of the
ring's (`DebuggerTypes`) except in one step, the end of a run whose next slot is 0; so
what is invariant is `DebuggerInv \/ DiedAtEnd`. From there no step but `Spins` is left
(`DeadStep`), and a child that has died is at no prompt, where the two theorems speak.

*The argument, for the heap and the queue.* `QueueInv` has two halves. The heap is
one of which `n` blocks are carved (`HeapOk`); the blocks that no node is in, and
`base`, form a ring in which each one's `next` is the next address, or the lowest after
the highest (`After`). The nodes are in one sequence without repetition, ordered by
priority and linked in that order (`IsList`), and `held` counts the nodes of each
priority. The loops of the allocator are walks along the ring: a walk that leaves out
a free block would return to where it began after fewer steps than there are blocks, and
the blocks it passes, closed under `next`, are all of them (`Twice`, `ClosedIsAll`,
`RoundPassesAll`). So a fitting block is found if there is one, the block that
`tj_free` stops at is the one below the freed one (`PlaceFound`), and a block joins
or leaves the ring (`FreeOk`, `TakeFirstOk`) without disturbing another. All blocks are
of one size, so `Take` never splits one. For the list, `push`'s walk stops in front of the
first node that the new one may precede (`BeforeIs`), and joining there (`Inserted`), or
removing the head (`Removed`), keeps the order.

The proof needs that no block is merged. `tj_free` takes a block of `size` bytes to end
`size` *headers* further on, for a node's block 96 bytes from its header instead of 20. No
other block begins there, because blocks are 20 bytes apart; but `base` can be there, if
the linker puts it above the heap. `QueueAssumption` excludes the sizes of the heap for which that happens. The code's
16 KiB is not one of them (16384 is not a multiple of 20 plus 96); with
`HEAP_SIZE` 116 TLC finds `BlocksOwnedOnce` violated, because `base` is merged into a
free block, drops out of the ring, and a block is handed out twice.

All assumptions are those of the models, checked by TLC in the runs:
sizes for which indices are different slots, well-formed programs, the
memory's numbers, the widths of fields and operands, and the dump's lines above. Each inductive invariant was first
checked by TLC on the instance of the component's run.

*What stays with TLC.* Liveness under fairness, which needs `ENABLED`
(`EveryoneLeaves`, `FairSpec`, `FairUnits`, `Delivered`, `EveryRequestEnds`,
`OldestLeaves`, `Stops`). What the recursive functions of `Programs` compute for
every input (`Sorted`, `Reached`) would need induction over data, which the
provers at hand cannot do.

## Findings

- *Illegal instructions are dropped.* The decoder's `valid_inst` is 0 for an
  illegal instruction (`dp_stage.sv:50`), and `dp_en` is taken from it
  (`dp_stage.sv:357`). The instruction never enters the reorder buffer, so the
  `ILLEGAL_INST` status of `pipeline.sv:165` and the testbench's report
  (`testbench.sv:290`) cannot happen: execution continues behind it. Run
  `illegal_dropped` gives the shortest behaviour.
- *The end of a run can kill the debugger.* When DONE comes while the debugger runs
  without prompting, it steps back to the last dump (`visual_c_hooks.cpp:899-900`). If
  that dump filled the last slot of the ring, `history_num` is 0 and becomes -1, as C's
  remainder keeps the sign, and line 903 calls `parsedata(-1)`. Its argument "is the
  index into all of the data arrays" (359): the call reads before the start of `resets`
  (375), `inst_contents` (391), `timebuffer` (543) and `cycles` (547). In front of
  `inst_contents` is the size of its heap block, which is taken for a pointer, and the
  child dies of it; the model takes the undefined read for that crash (`Dies`). The
  testbench then waits for 'n' on a pipe without a writer, in a loop that neither blocks
  nor ends (`Spins`). The same happens after DONE to a run asked for when the next slot
  is 0. No property excludes these behaviours: `Stops` says that a run that does not come
  back to the prompt has died in just this case, and the theorem `DebuggerInvariant`
  that nothing else makes the child die.

Smaller observations, which no run is about or which the properties leave out
by name.

*Processor.* The comment at `dp_stage.sv:40`
says `valid_inst` is 0 for HALT, which it is not; and `RegistersRetired` has an
exception because the register file commits the result of an instruction
directly behind a held-back store before it retires (`rt_stage.sv:42`), which
is harmless as the entry can no longer be squashed by anything older than
itself except that store, and stores do not squash.
A legal instruction dispatched behind an illegal one in one cycle is lost too: the
reorder buffer (`ROB.sv:110`) and the station (`RS_one.sv:125`) take no packet when the
first one's `dp_en` is 0, but the map table (`MapTableRF.sv:105`) then names tag 0 as the
producer of its register. No property covers this, as `Core` runs legal programs only.
`PHT.sv:39` writes the first ALU's outcome over the second's whenever the two
PCs have one index, although line 38 means two branches: an idle or stalled ALU
sends PC 0, so a taken branch of index 0 that the second ALU executes alone is
counted as not taken, while the BHT records it as taken. So only
`NotTakenIsLearned` holds, and its counterpart for taken branches does not.
The return stack is also moved for a second instruction that fetch drops behind
a predicted branch. A branch into another 16 KB region is always mispredicted,
since the target's upper bits are those of the branch (`BTB.sv:54`).
`icache.sv:108` says that two lines at most are prefetched, but `pref_cnt` is
consulted nowhere; a prefetch beyond the memory is never acknowledged and blocks
the queue of misses for ever, so no liveness is claimed for `Icache`. The
memory's last block compares equal to a free place of that queue. A line evicted
while its block is in state PREF is not asked for again by `PC[0]`.

*Debugger.* 'n' with the next slot 0 goes to the oldest slot and stays, as
`(0 - 1) % N` is -1 in C; 'b' past the oldest slot goes round to the newest; 'g'
back from slot 0 of a ring not yet full reads a slot never filled; DONE while
stepping shows such a slot; a jump overshoots by one edge (the line that would prevent it, 1039, is
commented out), and `goto_flag` stays set after 'p'. `CursorIsShown` and
`RingHoldsLatest` say what holds nonetheless.

*Library and programs.* `encode` drops bit 31 of a store's word, the sign of its
offset, and `select` gives JAL the immediate of LUI: `EncodingsRoundTrip` says of every
word and every operand what is left of them. The
allocator compares byte sizes with addresses counted in headers, so that it does not
merge neighbours, and its remainder underflows when a block is little larger
than asked for. `push` to an empty queue reads through NULL; the program never
does it. `insertionsort.c` is a selection sort.

## Not modelled, and why

- What instructions compute, byte lanes of the data cache (a block is a function
  from words to values), the shifting and sign extension of load and store values
  (a byte is represented by the store it comes from): data no property here
  depends on. A store beyond the memory (`dcache_planb.sv:114`) is completed at
  once and merged into whatever line it selects; `DataCache` takes addresses
  within the memory.
- The load/store queue and the caches are not composed with one another or with
  `Core`: each states what it needs of the others, and each such statement is a
  property of the other side (`RequestsStay`, `EveryRequestEnds`, `SafeUnits` and `FairUnits`).
- The windows of the debugger, where and how it draws; the text of the printer
  around an instruction's name.
- `alexnet.c` and the assembly programs: straight-line arithmetic.
- Unused files (`FETCH/ifetch.sv`, `FETCH/insn_buffer/insn_fifo.sv`,
  `LSQ/mem_stage.sv`, `RS/PS`), unit testbenches, synthesis scripts.

## Plan

1. `Lsq` composed with `DataCache`, so that the assumptions each makes about the
   other become one behaviour, checked against an abstract memory.
2. Blocks of several sizes in one heap, which the other test programs ask for: there
   `Take` splits blocks, and `tj_free` may take blocks that are far apart for neighbours.
