------------------------------- MODULE Memory -------------------------------
(***************************************************************************)
(* The memory behind the caches (testbench/mem.sv in CACHE_MODE): it takes *)
(* one command per cycle, answers in the same cycle with the number of the *)
(* transaction or 0, and returns a load's block LATENCY cycles later, at   *)
(* most one block per cycle.  A store keeps its number just as long.       *)
(***************************************************************************)
EXTENDS Integers, FiniteSets, FiniteSetsExt

CONSTANTS
  Blocks,        \* the addresses of the memory's blocks
  Words,         \* the words of a block
  Values,        \* what a word may hold
  NUM_MEM_TAGS,  \* how many transactions there may be at a time
  LATENCY        \* MEM_LATENCY_IN_CYCLES

ASSUME MemoryAssumption ==
  /\ NUM_MEM_TAGS \in Nat \ {0}
  /\ LATENCY \in Nat /\ LATENCY >= 2     \* dcache_planb.sv asks for two
  /\ 0 \in Values

VARIABLES
  unified_memory,
  cycles_left,       \* for every transaction number, cycles until it is free
  waiting_for_bus,   \* the numbers of the loads to be answered
  loaded_data        \* their blocks

memVars == <<unified_memory, cycles_left, waiting_for_bus, loaded_data>>

MemTags  == 1 .. NUM_MEM_TAGS
Data     == [Words -> Values]
ZeroData == [w \in Words |-> 0]

\* A command: addr is a block or, for BUS_NONE, anything.
NoCommand == [command |-> "BUS_NONE", addr |-> <<>>, data |-> ZeroData]

MemIdle ==
  /\ cycles_left = [i \in MemTags |-> 0]
  /\ waiting_for_bus = {}
  /\ loaded_data = [i \in MemTags |-> ZeroData]

MemInit == unified_memory = [b \in Blocks |-> ZeroData] /\ MemIdle

Lowest(S) == IF S = {} THEN 0 ELSE Min(S)

\* 0 if the command is not taken, else the number of its transaction.
mem2proc_response(c) ==
  IF c.command = "BUS_NONE" \/ c.addr \notin Blocks THEN 0
  ELSE Lowest({i \in MemTags : cycles_left[i] = 0 /\ i \notin waiting_for_bus})

LeftNext(i, c) ==
  IF cycles_left[i] > 0 THEN cycles_left[i] - 1
  ELSE IF i = mem2proc_response(c) THEN LATENCY
  ELSE 0

\* The loads to be answered, this cycle's included.
Asking(c) ==
  waiting_for_bus \cup
    (IF c.command = "BUS_LOAD" THEN {mem2proc_response(c)} \ {0} ELSE {})

\* The number of the load answered in this cycle, or 0.
mem2proc_tag(c) == Lowest({i \in Asking(c) : LeftNext(i, c) = 0})

LoadedNext(c) ==
  [i \in MemTags |->
    IF c.command = "BUS_LOAD" /\ i = mem2proc_response(c)
    THEN unified_memory[c.addr] ELSE loaded_data[i]]

mem2proc_data(c) ==
  IF mem2proc_tag(c) = 0 THEN ZeroData ELSE LoadedNext(c)[mem2proc_tag(c)]

MemEdge(c) ==
  /\ unified_memory' =
       IF c.command = "BUS_STORE" /\ mem2proc_response(c) # 0
       THEN [unified_memory EXCEPT ![c.addr] = c.data]
       ELSE unified_memory
  /\ cycles_left' = [i \in MemTags |-> LeftNext(i, c)]
  /\ waiting_for_bus' = Asking(c) \ {mem2proc_tag(c)}
  /\ loaded_data' = LoadedNext(c)
=============================================================================
