------------------------------ MODULE DataCache ------------------------------
(***************************************************************************)
(* The data cache (verilog/Cache/dcache/dcache_planb.sv) with the memory   *)
(* behind it and the bus they share with the instruction cache             *)
(* (verilog/pipeline.sv): two ways, write-back, write-allocate, blocking.  *)
(* One step is one clock cycle.                                            *)
(*                                                                         *)
(* The load/store queue is the environment: it holds a request until it is *)
(* completed, except that a squash takes a load away; no request follows   *)
(* in the cycle after.  The instruction cache asks for blocks in the       *)
(* cycles the data cache leaves to it.  A store writes one word of its     *)
(* block; addresses at and beyond NumTags are outside the memory.          *)
(***************************************************************************)
EXTENDS Memory

CONSTANTS
  Indexes,   \* the sets of the cache
  NumTags,   \* how many blocks of the memory map to each set
  Tracked    \* the blocks to which stores write any value; to the others
             \* they write 0, since the cache never looks at data

ASSUME DataCacheAssumption ==
  /\ 0 \in Indexes /\ 0 \in Words
  /\ NumTags \in Nat \ {0}
  /\ Blocks = Indexes \X (0 .. NumTags - 1)
  /\ NUM_MEM_TAGS > LATENCY     \* 15 and 7: the memory takes every command

VARIABLES
  cache_data,        \* for every set, two lines and last_accessed
  state,
  waiting_mem_tag,   \* the transaction a miss waits for
  dcache_in,         \* the request of this cycle
  written            \* history: what the completed stores wrote

vars == <<memVars, cache_data, state, waiting_mem_tag, dcache_in, written>>

Requests ==
  [lsq_is_requesting : BOOLEAN, is_store : BOOLEAN, index : Indexes,
   tag : 0 .. NumTags, word : Words, value : Values]

NoRequest ==
  [lsq_is_requesting |-> FALSE, is_store |-> FALSE, index |-> 0,
   tag |-> 0, word |-> 0, value |-> 0]

\* A store that retires is in the memory's range.
LsqRequests ==
  {NoRequest} \cup
  {r \in Requests :
     /\ r.lsq_is_requesting
     /\ r.is_store => r.tag < NumTags
     /\ r.value = 0 \/ (r.is_store /\ <<r.index, r.tag>> \in Tracked)}

-----------------------------------------------------------------------------
(* The request in the cache.                                               *)

address_valid == dcache_in.tag < NumTags
real_request  == dcache_in.lsq_is_requesting /\ address_valid
current_set   == cache_data[dcache_in.index]
block         == <<dcache_in.index, dcache_in.tag>>

line_hit(l) ==
  current_set.line[l].valid /\ current_set.line[l].tag = dcache_in.tag

miss == real_request /\ ~line_hit(0) /\ ~line_hit(1)

completed ==
  \/ ~address_valid
  \/ state = "DCACHE_IDLE_HIT" /\ real_request /\ ~miss

\* On a miss, the line not used last.
current_line_idx ==
  IF line_hit(0) THEN 0
  ELSE IF line_hit(1) THEN 1
  ELSE 1 - current_set.last_accessed

\* Mutant: the old line is written back only if the other one is in use too.
evictsBoth ==
  miss /\ current_set.line[0].valid /\ current_set.line[1].valid
       /\ current_set.last_accessed = 1

\* evict_line0 or evict_line1: both ask whether line 0 is valid.
evicts == miss /\ current_set.line[0].valid

value == current_set.line[current_line_idx].data[dcache_in.word]

-----------------------------------------------------------------------------
(* The bus.                                                                *)

proc2Dmem ==
  IF state = "DCACHE_IDLE_HIT" /\ miss
  THEN [command |-> "BUS_LOAD", addr |-> block, data |-> ZeroData]
  ELSE IF state \in {"DCACHE_LD_EVICT", "DCACHE_ST_EVICT"} /\ evicts
  THEN [command |-> "BUS_STORE",
        addr |-> <<dcache_in.index, current_set.line[current_line_idx].tag>>,
        data |-> current_set.line[current_line_idx].data]
  ELSE NoCommand

\* The data cache's command goes before the instruction cache's.
proc2mem(Icache2mem) ==
  IF proc2Dmem.command = "BUS_NONE" THEN Icache2mem ELSE proc2Dmem

-----------------------------------------------------------------------------
(* The next state of the cache, from the memory's reply to command c.      *)

answered(c) == waiting_mem_tag = mem2proc_tag(c) /\ waiting_mem_tag # 0

fills(c) ==
  state \in {"DCACHE_LD_WAIT", "DCACHE_ST_WAIT"} /\ real_request /\ answered(c)

\* Mutant: the store's word goes into the line only when it is filled.
mergesOnFill(c) == state = "DCACHE_ST_WAIT" /\ answered(c)

merges(c) ==
  \/ state = "DCACHE_ST_WAIT" /\ answered(c)
  \/ state = "DCACHE_IDLE_HIT" /\ ~miss /\ dcache_in.is_store

Filled(line, c) ==
  IF fills(c) THEN [valid |-> TRUE, tag |-> dcache_in.tag, data |-> mem2proc_data(c)]
  ELSE line

Merged(line, c) ==
  IF merges(c) THEN [line EXCEPT !.data[dcache_in.word] = dcache_in.value] ELSE line

n_cache_data(c) ==
  [cache_data EXCEPT
    ![dcache_in.index].line[current_line_idx] = Merged(Filled(@, c), c),
    ![dcache_in.index].last_accessed =
      IF state = "DCACHE_IDLE_HIT" /\ ~miss /\ real_request
      THEN current_line_idx ELSE @]

\* Mutant: the number of the transaction is not kept.
StartForgets(c) ==
  /\ state = "DCACHE_IDLE_HIT" /\ miss
  /\ state' = IF dcache_in.is_store THEN "DCACHE_ST_EVICT" ELSE "DCACHE_LD_EVICT"
  /\ waiting_mem_tag' = waiting_mem_tag

\* The state and the transaction waited for.
Start(c) ==
  /\ state = "DCACHE_IDLE_HIT" /\ miss
  /\ state' = IF dcache_in.is_store THEN "DCACHE_ST_EVICT" ELSE "DCACHE_LD_EVICT"
  /\ waiting_mem_tag' = mem2proc_response(c)

Evict ==
  /\ state \in {"DCACHE_LD_EVICT", "DCACHE_ST_EVICT"}
  /\ real_request
  /\ state' = IF state = "DCACHE_ST_EVICT" THEN "DCACHE_ST_WAIT" ELSE "DCACHE_LD_WAIT"
  /\ waiting_mem_tag' = waiting_mem_tag

\* The request is gone, or the block is there.
Finish(c) ==
  /\ \/ state \in {"DCACHE_LD_EVICT", "DCACHE_ST_EVICT"} /\ ~real_request
     \/ state \in {"DCACHE_LD_WAIT", "DCACHE_ST_WAIT"} /\ (~real_request \/ answered(c))
  /\ state' = "DCACHE_IDLE_HIT"
  /\ waiting_mem_tag' = 0

Rest(c) ==
  /\ \/ state = "DCACHE_IDLE_HIT" /\ ~miss
     \/ state \in {"DCACHE_LD_WAIT", "DCACHE_ST_WAIT"} /\ real_request /\ ~answered(c)
  /\ UNCHANGED <<state, waiting_mem_tag>>

-----------------------------------------------------------------------------
\* What the load/store queue may ask for in the next cycle.
NextRequest ==
  IF completed \/ ~dcache_in.lsq_is_requesting THEN LsqRequests
  ELSE IF dcache_in.is_store THEN {dcache_in}
  ELSE {dcache_in, NoRequest}

Cycle(Icache2mem) ==
  LET c == proc2mem(Icache2mem) IN
  /\ MemEdge(c)
  /\ cache_data' = n_cache_data(c)
  /\ Start(c) \/ Evict \/ Finish(c) \/ Rest(c)
  /\ dcache_in' \in NextRequest
  /\ written' = IF completed /\ dcache_in.is_store
                THEN [written EXCEPT ![block][dcache_in.word] = dcache_in.value]
                ELSE written

Init ==
  /\ MemInit
  /\ cache_data = [i \in Indexes |->
       [last_accessed |-> 0,
        line |-> [l \in 0 .. 1 |-> [valid |-> FALSE, tag |-> 0, data |-> ZeroData]]]]
  /\ state = "DCACHE_IDLE_HIT"
  /\ waiting_mem_tag = 0
  /\ dcache_in = NoRequest
  /\ written = [b \in Blocks |-> ZeroData]

IcacheCommands ==
  {NoCommand} \cup {[command |-> "BUS_LOAD", addr |-> b, data |-> ZeroData] :
                      b \in {CHOOSE x \in Blocks : TRUE}}

Next == \E Icache2mem \in IcacheCommands : Cycle(Icache2mem)

Spec == Init /\ [][Next]_vars
FairSpec == Spec /\ WF_vars(Next)

-----------------------------------------------------------------------------
Copies(b) ==
  {l \in 0 .. 1 : cache_data[b[1]].line[l].valid /\ cache_data[b[1]].line[l].tag = b[2]}

\* The data of a block that the testbench finds when it flushes the cache.
Current(b) ==
  IF Copies(b) = {} THEN unified_memory[b]
  ELSE cache_data[b[1]].line[CHOOSE l \in Copies(b) : TRUE].data

\* No completed store is ever lost: every block is in one place, and there
\* it is what the stores made it, but for the word of the store under way.
\* Lines are replaced without a dirty bit, and line 1 without a look at its
\* own valid bit; a squash may take the request away at any point of a miss.
NoStoreLost ==
  \A b \in Blocks :
    /\ Cardinality(Copies(b)) <= 1
    /\ \A w \in Words :
         ~(dcache_in.is_store /\ block = b /\ dcache_in.word = w)
           => Current(b)[w] = written[b][w]

\* A completed load returns what the last store to its word wrote.
LoadsReadLatest ==
  completed /\ real_request /\ ~dcache_in.is_store
    => value = written[block][dcache_in.word]

\* The cache gets every request done, unless a squash takes it away.
EveryRequestEnds ==
  (dcache_in.lsq_is_requesting /\ ~completed)
    ~> (completed \/ ~dcache_in.lsq_is_requesting)
=============================================================================
