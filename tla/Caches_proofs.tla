---------------------------- MODULE Caches_proofs ----------------------------
(***************************************************************************)
(* Theorems about the two caches on the memory they share, for any number  *)
(* of sets, of blocks and of transactions, any length of the queue of      *)
(* misses and any latency of at least two: no completed store is lost and  *)
(* a load returns what the last store to its word wrote; what is fetched   *)
(* is what the memory holds, the answers come in the order of the queue,   *)
(* and no block is in both ways.  The lemmas about the memory come first.  *)
(***************************************************************************)
EXTENDS DataCache, Icache, FiniteSetTheorems, SequenceTheorems, WellFoundedInduction, TLAPS

-----------------------------------------------------------------------------
(* The memory                                                              *)

\* The memory's state is well formed.
MemTypes ==
  /\ unified_memory \in [Blocks -> Data]
  /\ cycles_left \in [MemTags -> 0 .. LATENCY]
  /\ waiting_for_bus \subseteq MemTags
  /\ loaded_data \in [MemTags -> Data]

\* Every load that waits has some cycles left, and no two transactions have the
\* same number left: each came in a cycle of its own.
Scheduled ==
  /\ \A i \in waiting_for_bus : cycles_left[i] > 0
  /\ \A i, j \in MemTags : cycles_left[i] > 0 /\ cycles_left[i] = cycles_left[j] => i = j

MemInv == MemTypes /\ Scheduled

-----------------------------------------------------------------------------
\* A set of natural numbers that has members has a least one.
LEMMA Least ==
  ASSUME NEW S \in SUBSET Nat, S # {}
  PROVE  Min(S) \in S /\ \A y \in S : Min(S) <= y
  <1>1. PICK x \in S : \A y \in S : ~(<<y, x>> \in OpToRel(<, Nat))
    BY NatLessThanWellFounded, WFMin
  <1>2. \A y \in S : x <= y
    <2> SUFFICES ASSUME NEW y \in S, ~(x <= y) PROVE FALSE
      OBVIOUS
    <2>1. <<y, x>> \in Nat \X Nat /\ y < x
      OBVIOUS
    <2>2. <<y, x>> \in OpToRel(<, Nat)
      BY <2>1 DEF OpToRel
    <2>3. QED  BY <1>1, <2>2
  <1>3. QED  BY <1>2 DEF Min

\* A command that is taken gets the number of no other transaction.
LEMMA Response ==
  ASSUME MemInv, NEW c
  PROVE  /\ mem2proc_response(c) \in 0 .. NUM_MEM_TAGS
         /\ mem2proc_response(c) # 0 =>
              /\ mem2proc_response(c) \in MemTags
              /\ cycles_left[mem2proc_response(c)] = 0
              /\ mem2proc_response(c) \notin waiting_for_bus
              /\ c.command # "BUS_NONE" /\ c.addr \in Blocks
  <1> DEFINE S == {i \in MemTags : cycles_left[i] = 0 /\ i \notin waiting_for_bus}
  <1>1. S # {} => Min(S) \in S
    BY Least DEF MemTags
  <1>2. CASE c.command = "BUS_NONE" \/ c.addr \notin Blocks
    BY <1>2, MemoryAssumption DEF mem2proc_response
  <1>3. CASE ~(c.command = "BUS_NONE" \/ c.addr \notin Blocks)
    <2>1. mem2proc_response(c) = IF S = {} THEN 0 ELSE Min(S)
      BY <1>3 DEF mem2proc_response, Lowest
    <2>2. CASE S = {}
      BY <2>1, <2>2, MemoryAssumption
    <2>3. CASE S # {}
      BY <2>1, <2>3, <1>1, <1>3, MemoryAssumption DEF MemTags
    <2>4. QED  BY <2>2, <2>3
  <1>4. QED  BY <1>2, <1>3

\* With more numbers than the latency, one is always free.
LEMMA Accepted ==
  ASSUME MemInv, NUM_MEM_TAGS > LATENCY, NEW c,
         c.command # "BUS_NONE", c.addr \in Blocks
  PROVE  mem2proc_response(c) \in MemTags
  <1> DEFINE S == {i \in MemTags : cycles_left[i] = 0 /\ i \notin waiting_for_bus}
  <1> USE MemoryAssumption
  <1>1. \E i \in MemTags : cycles_left[i] = 0
    <2> SUFFICES ASSUME \A i \in MemTags : cycles_left[i] # 0 PROVE FALSE
      OBVIOUS
    <2>1. cycles_left \in [MemTags -> 1 .. LATENCY]
      BY DEF MemInv, MemTypes
    <2>2. /\ IsFiniteSet(MemTags) /\ Cardinality(MemTags) = NUM_MEM_TAGS
          /\ IsFiniteSet(1 .. LATENCY) /\ Cardinality(1 .. LATENCY) = LATENCY
      BY FS_Interval DEF MemTags
    <2>3. PICK i \in MemTags, j \in MemTags : i # j /\ cycles_left[i] = cycles_left[j]
      BY <2>1, <2>2, FS_PigeonHole
    <2>4. QED  BY <2>1, <2>3 DEF MemInv, Scheduled
  <1>2. PICK i \in MemTags : cycles_left[i] = 0
    BY <1>1
  <1>3. i \in S
    BY <1>2 DEF MemInv, Scheduled
  <1>4. Min(S) \in S
    BY <1>3, Least DEF MemTags
  <1>5. mem2proc_response(c) = Min(S)
    BY <1>3 DEF mem2proc_response, Lowest
  <1>6. QED  BY <1>4, <1>5

\* The load that is answered is the one that waits and has one cycle left.
LEMMA Answer ==
  ASSUME MemInv, NEW c
  PROVE  /\ mem2proc_tag(c) # 0 =>
              /\ mem2proc_tag(c) \in waiting_for_bus
              /\ cycles_left[mem2proc_tag(c)] = 1
              /\ mem2proc_data(c) = loaded_data[mem2proc_tag(c)]
         /\ \A i \in waiting_for_bus : cycles_left[i] = 1 => mem2proc_tag(c) = i
  <1> DEFINE r == mem2proc_response(c)
             A == {i \in Asking(c) : LeftNext(i, c) = 0}
             B == {i \in waiting_for_bus : cycles_left[i] = 1}
  <1> USE MemoryAssumption
  <1>1. /\ waiting_for_bus \subseteq MemTags
        /\ \A i \in MemTags : cycles_left[i] \in 0 .. LATENCY
        /\ \A i \in waiting_for_bus : cycles_left[i] > 0
        /\ \A i, j \in MemTags : cycles_left[i] > 0 /\ cycles_left[i] = cycles_left[j] => i = j
    BY DEF MemInv, MemTypes, Scheduled
  <1>2. r # 0 => r \in MemTags /\ cycles_left[r] = 0 /\ r \notin waiting_for_bus
    BY Response
  <1> HIDE DEF r
  <1>3. A = B
    <2>1. ASSUME NEW i \in waiting_for_bus PROVE LeftNext(i, c) = 0 <=> cycles_left[i] = 1
      BY <1>1 DEF LeftNext
    <2>2. r # 0 => LeftNext(r, c) = LATENCY /\ LATENCY # 0
      BY <1>1, <1>2 DEF LeftNext, r
    <2>3. Asking(c) = waiting_for_bus \cup
                        (IF c.command = "BUS_LOAD" THEN {r} \ {0} ELSE {})
      BY DEF Asking, r
    <2> HIDE DEF B
    <2>4. \A i : i \in A => i \in B
      BY <2>1, <2>2, <2>3 DEF B
    <2>5. \A i : i \in B => i \in A
      BY <2>1, <2>3 DEF B
    <2>6. QED  BY <2>4, <2>5
  <1>4. mem2proc_tag(c) = IF B = {} THEN 0 ELSE Min(B)
    BY <1>3 DEF mem2proc_tag, Lowest
  <1>5. \A i, j \in B : i = j
    BY <1>1
  <1>6. B # {} => Min(B) \in B
    BY <1>1, Least DEF MemTags
  <1>7. \A i \in B : mem2proc_tag(c) = i
    BY <1>4, <1>5, <1>6
  <1>8. mem2proc_tag(c) # 0 => mem2proc_tag(c) \in B
    BY <1>4, <1>6
  <1>9. ASSUME mem2proc_tag(c) # 0 PROVE mem2proc_data(c) = loaded_data[mem2proc_tag(c)]
    <2>1. PICK i \in B : i = mem2proc_tag(c)
      BY <1>8, <1>9
    <2>2. i \in MemTags /\ i # r
      BY <1>1, <1>2, <2>1 DEF MemTags
    <2>3. LoadedNext(c)[i] = loaded_data[i]
      BY <2>2 DEF LoadedNext, r
    <2>4. QED  BY <2>1, <2>3, <1>9 DEF mem2proc_data
  <1>10. QED  BY <1>7, <1>8, <1>9

\* What an edge does to each transaction; the memory keeps its schedule.
LEMMA MemStep ==
  ASSUME MemInv, NEW c, MemEdge(c), c.command = "BUS_STORE" => c.data \in Data
  PROVE  /\ MemInv'
         /\ \A i \in MemTags :
              /\ cycles_left'[i] = IF cycles_left[i] > 0 THEN cycles_left[i] - 1
                                   ELSE IF i = mem2proc_response(c) THEN LATENCY ELSE 0
              /\ loaded_data'[i] = IF c.command = "BUS_LOAD" /\ i = mem2proc_response(c)
                                   THEN unified_memory[c.addr] ELSE loaded_data[i]
         /\ \A i : i \in waiting_for_bus' <=>
                     \/ i \in waiting_for_bus /\ cycles_left[i] # 1
                     \/ c.command = "BUS_LOAD" /\ i = mem2proc_response(c) /\ i # 0
  <1> DEFINE r == mem2proc_response(c)
             load == c.command = "BUS_LOAD"
  <1> USE MemoryAssumption
  <1>1. /\ waiting_for_bus \subseteq MemTags
        /\ \A i \in MemTags : cycles_left[i] \in 0 .. LATENCY
        /\ \A i \in waiting_for_bus : cycles_left[i] > 0
        /\ \A i, j \in MemTags : cycles_left[i] > 0 /\ cycles_left[i] = cycles_left[j] => i = j
        /\ unified_memory \in [Blocks -> Data] /\ loaded_data \in [MemTags -> Data]
    BY DEF MemInv, MemTypes, Scheduled
  <1>2. /\ r \in 0 .. NUM_MEM_TAGS
        /\ r # 0 => /\ r \in MemTags /\ cycles_left[r] = 0 /\ r \notin waiting_for_bus
                    /\ c.addr \in Blocks
    BY Response
  <1>3. /\ unified_memory' = IF c.command = "BUS_STORE" /\ r # 0
                             THEN [unified_memory EXCEPT ![c.addr] = c.data]
                             ELSE unified_memory
        /\ cycles_left' = [i \in MemTags |-> LeftNext(i, c)]
        /\ waiting_for_bus' = (waiting_for_bus \cup (IF load THEN {r} \ {0} ELSE {}))
                                \ {mem2proc_tag(c)}
        /\ loaded_data' = [i \in MemTags |-> IF load /\ i = r THEN unified_memory[c.addr]
                                             ELSE loaded_data[i]]
    BY DEF MemEdge, Asking, LoadedNext
  <1>4. /\ mem2proc_tag(c) # 0 =>
             mem2proc_tag(c) \in waiting_for_bus /\ cycles_left[mem2proc_tag(c)] = 1
        /\ \A i \in waiting_for_bus : cycles_left[i] = 1 => mem2proc_tag(c) = i
    BY Answer
  <1> HIDE DEF r, load
  <1>5. \A i \in MemTags :
          cycles_left'[i] = IF cycles_left[i] > 0 THEN cycles_left[i] - 1
                            ELSE IF i = r THEN LATENCY ELSE 0
    BY <1>3 DEF LeftNext, r
  <1>6. \A i : i \in waiting_for_bus' <=>
                 \/ i \in waiting_for_bus /\ cycles_left[i] # 1
                 \/ load /\ i = r /\ i # 0
    <2>1. r # mem2proc_tag(c) \/ r = 0
      BY <1>2, <1>4
    <2>2. 0 \notin waiting_for_bus
      BY <1>1 DEF MemTags
    <2>3. QED  BY <2>1, <2>2, <1>3, <1>4
  <1>7. MemTypes'
    <2>1. cycles_left' \in [MemTags -> 0 .. LATENCY]
      <3>1. \A i \in MemTags : cycles_left'[i] \in 0 .. LATENCY
        BY <1>1, <1>5
      <3>2. QED  BY <3>1, <1>3
    <2>2. waiting_for_bus' \subseteq MemTags
      BY <1>1, <1>2, <1>6
    <2>3. unified_memory' \in [Blocks -> Data]
      BY <1>1, <1>3
    <2>4. loaded_data' \in [MemTags -> Data]
      <3>1. ASSUME NEW i \in MemTags, load, i = r PROVE unified_memory[c.addr] \in Data
        BY <3>1, <1>1, <1>2 DEF MemTags
      <3>2. QED  BY <3>1, <1>1, <1>3
    <2>5. QED  BY <2>1, <2>2, <2>3, <2>4 DEF MemTypes
  <1>8. Scheduled'
    <2>1. ASSUME NEW i \in waiting_for_bus' PROVE cycles_left'[i] > 0
      BY <1>1, <1>2, <1>5, <1>6
    <2>2. ASSUME NEW i \in MemTags, NEW j \in MemTags,
                 cycles_left'[i] > 0, cycles_left'[i] = cycles_left'[j]
          PROVE  i = j
      BY <2>2, <1>1, <1>5
    <2>3. QED  BY <2>1, <2>2 DEF Scheduled
  <1>9. QED  BY <1>3, <1>5, <1>6, <1>7, <1>8 DEF MemInv, r, load

\* At reset nothing is under way.
LEMMA MemInitially ==
  ASSUME MemIdle, unified_memory \in [Blocks -> Data]
  PROVE  MemInv
  <1>1. ZeroData \in Data
    BY MemoryAssumption DEF ZeroData, Data
  <1>2. QED  BY <1>1, MemoryAssumption DEF MemIdle, MemInv, MemTypes, Scheduled

-----------------------------------------------------------------------------
(* The data cache                                                          *)

Line == [valid : BOOLEAN, tag : 0 .. NumTags - 1, data : Data]

States == {"DCACHE_IDLE_HIT", "DCACHE_LD_EVICT", "DCACHE_ST_EVICT",
           "DCACHE_LD_WAIT", "DCACHE_ST_WAIT"}

\* The state of the cache is well formed.
CacheTypes ==
  /\ cache_data \in [Indexes -> [last_accessed : 0 .. 1, line : [0 .. 1 -> Line]]]
  /\ state \in States
  /\ waiting_mem_tag \in 0 .. NUM_MEM_TAGS
  /\ dcache_in \in LsqRequests
  /\ written \in [Blocks -> Data]

\* The line is not in use, or the memory has the same data.
Clean(i, l) ==
  cache_data[i].line[l].valid =>
    cache_data[i].line[l].data = unified_memory[<<i, cache_data[i].line[l].tag>>]

\* No block is in both lines of its set.  Line 1 is the first to be filled, so
\* whenever it is the one to be replaced although line 0 is not in use, either
\* the load that filled it was squashed, or the store that did is completed now.
Placed ==
  \A i \in Indexes :
    /\ cache_data[i].line[0].valid /\ cache_data[i].line[1].valid
         => cache_data[i].line[0].tag # cache_data[i].line[1].tag
    /\ cache_data[i].last_accessed = 1 \/ cache_data[i].line[0].valid
         => cache_data[i].line[1].valid
    /\ ~cache_data[i].line[0].valid /\ cache_data[i].last_accessed = 0
         => \/ Clean(i, 1)
            \/ /\ state = "DCACHE_IDLE_HIT" /\ dcache_in.is_store
               /\ block = <<i, cache_data[i].line[1].tag>>

\* While a miss is under way its request stays or is squashed, its load waits
\* in the memory with the right data, and the line it will replace has been
\* written back when the cache waits.
MissUnderWay ==
  /\ state # "DCACHE_IDLE_HIT" => dcache_in = NoRequest \/ miss
  /\ state \in {"DCACHE_ST_EVICT", "DCACHE_ST_WAIT"} => dcache_in.is_store
  /\ state \in {"DCACHE_LD_EVICT", "DCACHE_LD_WAIT"} => ~dcache_in.is_store
  /\ state # "DCACHE_IDLE_HIT" /\ real_request =>
       /\ waiting_mem_tag \in waiting_for_bus
       /\ loaded_data[waiting_mem_tag] = unified_memory[block]
  /\ state \in {"DCACHE_LD_EVICT", "DCACHE_ST_EVICT"} /\ real_request =>
       cycles_left[waiting_mem_tag] = LATENCY
  /\ state \in {"DCACHE_LD_WAIT", "DCACHE_ST_WAIT"} /\ real_request =>
       \A i \in Indexes, l \in 0 .. 1 :
         i = dcache_in.index /\ l = 1 - cache_data[i].last_accessed => Clean(i, l)

\* The word of the store that is under way.
UnderWay(i, t, w) ==
  dcache_in.is_store /\ block = <<i, t>> /\ dcache_in.word = w

\* What the stores made of a block is in its line or, if it has none, in the
\* memory.
KeptInLine(i, l, w) ==
  cache_data[i].line[l].valid /\ ~UnderWay(i, cache_data[i].line[l].tag, w)
    => cache_data[i].line[l].data[w] = written[<<i, cache_data[i].line[l].tag>>][w]

KeptInMemory(i, t, w) ==
  /\ \A l \in 0 .. 1 : ~(cache_data[i].line[l].valid /\ cache_data[i].line[l].tag = t)
  /\ ~UnderWay(i, t, w)
  => unified_memory[<<i, t>>][w] = written[<<i, t>>][w]

Kept ==
  \A i \in Indexes, w \in Words :
    /\ \A l \in 0 .. 1 : KeptInLine(i, l, w)
    /\ \A t \in 0 .. NumTags - 1 : KeptInMemory(i, t, w)

DataCacheInv == MemInv /\ CacheTypes /\ Placed /\ MissUnderWay /\ Kept

-----------------------------------------------------------------------------
\* What the queue asks for.
LEMMA RequestFacts ==
  ASSUME dcache_in \in LsqRequests
  PROVE  /\ dcache_in.lsq_is_requesting \in BOOLEAN /\ dcache_in.is_store \in BOOLEAN
         /\ dcache_in.index \in Indexes /\ dcache_in.tag \in 0 .. NumTags
         /\ dcache_in.word \in Words /\ dcache_in.value \in Values
         /\ dcache_in.is_store => dcache_in.lsq_is_requesting /\ dcache_in.tag < NumTags
         /\ ~dcache_in.lsq_is_requesting => dcache_in = NoRequest
  <1>1. CASE dcache_in = NoRequest
    <2>1. /\ dcache_in.lsq_is_requesting = FALSE /\ dcache_in.is_store = FALSE
          /\ dcache_in.index = 0 /\ dcache_in.tag = 0 /\ dcache_in.word = 0
          /\ dcache_in.value = 0
      BY <1>1 DEF NoRequest
    <2>2. 0 \in Indexes /\ 0 \in 0 .. NumTags /\ 0 \in Words /\ 0 \in Values
      BY DataCacheAssumption, MemoryAssumption
    <2>3. QED  BY <1>1, <2>1, <2>2
  <1>2. CASE dcache_in \in Requests /\ dcache_in.lsq_is_requesting
             /\ (dcache_in.is_store => dcache_in.tag < NumTags)
    BY <1>2 DEF Requests
  <1>3. QED  BY <1>1, <1>2 DEF LsqRequests

\* The fields of a set.
LEMMA SetFacts ==
  ASSUME CacheTypes, NEW i \in Indexes
  PROVE  /\ cache_data[i].last_accessed \in 0 .. 1
         /\ \A l \in 0 .. 1 :
              /\ cache_data[i].line[l] \in Line
              /\ cache_data[i].line[l].valid \in BOOLEAN
              /\ cache_data[i].line[l].tag \in 0 .. NumTags - 1
              /\ cache_data[i].line[l].data \in Data
  BY DEF CacheTypes, Line

\* The line of the current set that a request uses, and what a miss is.
LEMMA CurrentLine ==
  ASSUME CacheTypes
  PROVE  /\ current_line_idx \in 0 .. 1
         /\ real_request /\ ~miss =>
              /\ cache_data[dcache_in.index].line[current_line_idx].valid
              /\ cache_data[dcache_in.index].line[current_line_idx].tag = dcache_in.tag
         /\ miss => /\ real_request
                    /\ current_line_idx = 1 - cache_data[dcache_in.index].last_accessed
                    /\ \A l \in 0 .. 1 :
                         ~(/\ cache_data[dcache_in.index].line[l].valid
                           /\ cache_data[dcache_in.index].line[l].tag = dcache_in.tag)
  <1>1. dcache_in.index \in Indexes
    BY RequestFacts DEF CacheTypes
  <1>2. cache_data[dcache_in.index].last_accessed \in 0 .. 1
    BY <1>1, SetFacts
  <1>3. \A l \in 0 .. 1 : l = 0 \/ l = 1
    OBVIOUS
  <1>4. current_line_idx = IF line_hit(0) THEN 0 ELSE IF line_hit(1) THEN 1
                           ELSE 1 - cache_data[dcache_in.index].last_accessed
    BY DEF current_line_idx, current_set
  <1>5. miss <=> real_request /\ ~line_hit(0) /\ ~line_hit(1)
    BY DEF miss
  <1>6. \A l \in 0 .. 1 :
          line_hit(l) <=> /\ cache_data[dcache_in.index].line[l].valid
                          /\ cache_data[dcache_in.index].line[l].tag = dcache_in.tag
    BY DEF line_hit, current_set
  <1>7. current_line_idx \in 0 .. 1
    BY <1>2, <1>4
  <1>8. real_request /\ ~miss => line_hit(current_line_idx)
    BY <1>4, <1>5
  <1>9. QED  BY <1>3, <1>4, <1>5, <1>6, <1>7, <1>8

\* A request that the cache serves is for a block of the memory.
LEMMA BlockFacts ==
  ASSUME CacheTypes, real_request
  PROVE  /\ dcache_in.index \in Indexes /\ dcache_in.tag \in 0 .. NumTags - 1
         /\ block \in Blocks
  <1>1. dcache_in.index \in Indexes /\ dcache_in.tag \in 0 .. NumTags /\ dcache_in.tag < NumTags
    BY RequestFacts DEF CacheTypes, real_request, address_valid
  <1>2. dcache_in.tag \in 0 .. NumTags - 1
    BY <1>1, DataCacheAssumption
  <1>3. QED  BY <1>1, <1>2, DataCacheAssumption DEF block

\* The command that reaches the memory: the instruction cache's never writes.
LEMMA Command ==
  ASSUME CacheTypes, NEW Icache2mem \in IcacheCommands
  PROVE  /\ proc2mem(Icache2mem).command \in {"BUS_NONE", "BUS_LOAD", "BUS_STORE"}
         /\ proc2mem(Icache2mem).command = "BUS_STORE" =>
              /\ state \in {"DCACHE_LD_EVICT", "DCACHE_ST_EVICT"} /\ evicts
              /\ proc2mem(Icache2mem).addr =
                   <<dcache_in.index, cache_data[dcache_in.index].line[current_line_idx].tag>>
              /\ proc2mem(Icache2mem).data =
                   cache_data[dcache_in.index].line[current_line_idx].data
         /\ state \in {"DCACHE_LD_EVICT", "DCACHE_ST_EVICT"} /\ evicts =>
              proc2mem(Icache2mem).command = "BUS_STORE"
         /\ state = "DCACHE_IDLE_HIT" /\ miss =>
              /\ proc2mem(Icache2mem).command = "BUS_LOAD"
              /\ proc2mem(Icache2mem).addr = block
  <1>1. Icache2mem.command \in {"BUS_NONE", "BUS_LOAD"}
    BY DEF IcacheCommands, NoCommand
  <1>2. proc2Dmem.command = "BUS_NONE" => proc2mem(Icache2mem) = Icache2mem
    BY DEF proc2mem
  <1>3. proc2Dmem.command # "BUS_NONE" => proc2mem(Icache2mem) = proc2Dmem
    BY DEF proc2mem
  <1>4. CASE state = "DCACHE_IDLE_HIT" /\ miss
    <2>1. proc2Dmem = [command |-> "BUS_LOAD", addr |-> block, data |-> ZeroData]
      BY <1>4 DEF proc2Dmem
    <2>2. QED  BY <1>4, <2>1, <1>3
  <1>5. CASE state \in {"DCACHE_LD_EVICT", "DCACHE_ST_EVICT"} /\ evicts
    <2>1. proc2Dmem =
            [command |-> "BUS_STORE",
             addr |-> <<dcache_in.index, current_set.line[current_line_idx].tag>>,
             data |-> current_set.line[current_line_idx].data]
      BY <1>5 DEF proc2Dmem
    <2>2. QED  BY <1>5, <2>1, <1>3 DEF current_set
  <1>6. CASE /\ ~(state = "DCACHE_IDLE_HIT" /\ miss)
             /\ ~(state \in {"DCACHE_LD_EVICT", "DCACHE_ST_EVICT"} /\ evicts)
    <2>1. proc2Dmem = NoCommand
      BY <1>6 DEF proc2Dmem
    <2>2. QED  BY <1>6, <2>1, <1>1, <1>2 DEF NoCommand
  <1>7. QED  BY <1>4, <1>5, <1>6

-----------------------------------------------------------------------------
\* What an edge does to the lines: only the current line of the current set
\* changes, and only by a store that hits or by the block that was waited for.
LEMMA CacheEdge ==
  ASSUME CacheTypes, MissUnderWay, NEW c, cache_data' = n_cache_data(c),
         mem2proc_data(c) \in Data \/ ~fills(c)
  PROVE  /\ cache_data' \in [Indexes -> [last_accessed : 0 .. 1, line : [0 .. 1 -> Line]]]
         /\ \A i \in Indexes : \A l \in 0 .. 1 :
              cache_data'[i].line[l] =
                IF i = dcache_in.index /\ l = current_line_idx
                THEN Merged(Filled(cache_data[i].line[l], c), c)
                ELSE cache_data[i].line[l]
         /\ \A i \in Indexes :
              cache_data'[i].last_accessed =
                IF i = dcache_in.index /\ state = "DCACHE_IDLE_HIT" /\ ~miss /\ real_request
                THEN current_line_idx
                ELSE cache_data[i].last_accessed
  <1> DEFINE j == dcache_in.index
             k == current_line_idx
             old == cache_data[j]
             N == Merged(Filled(old.line[k], c), c)
             A == IF state = "DCACHE_IDLE_HIT" /\ ~miss /\ real_request
                  THEN k ELSE old.last_accessed
             new == [last_accessed |-> A, line |-> [old.line EXCEPT ![k] = N]]
  <1>1. j \in Indexes /\ k \in 0 .. 1
    BY RequestFacts, CurrentLine DEF CacheTypes
  <1>2. old \in [last_accessed : 0 .. 1, line : [0 .. 1 -> Line]]
    BY <1>1 DEF CacheTypes
  <1>3. N \in Line
    <2>1. old.line[k] \in Line
      BY <1>1, <1>2
    <2>2. real_request => dcache_in.tag \in 0 .. NumTags - 1
      BY BlockFacts
    <2>3. Filled(old.line[k], c) \in Line
      <3>1. CASE fills(c)
        BY <3>1, <2>2 DEF Filled, Line, fills
      <3>2. CASE ~fills(c)
        BY <3>2, <2>1 DEF Filled
      <3>3. QED  BY <3>1, <3>2
    <2>4. dcache_in.word \in Words /\ dcache_in.value \in Values
      BY RequestFacts DEF CacheTypes
    <2>5. ASSUME NEW x \in Line PROVE Merged(x, c) \in Line
      <3>1. [x.data EXCEPT ![dcache_in.word] = dcache_in.value] \in Data
        BY <2>4 DEF Line, Data
      <3>2. [x EXCEPT !.data[dcache_in.word] = dcache_in.value] \in Line
        BY <3>1 DEF Line
      <3>3. QED  BY <3>2 DEF Merged
    <2>6. QED  BY <2>3, <2>5
  <1>4. cache_data' = [cache_data EXCEPT ![j] = new]
    <2>1. n_cache_data(c) =
            [cache_data EXCEPT ![j].line[k] = N, ![j].last_accessed = A]
      BY <1>1 DEF n_cache_data, CacheTypes
    <2> HIDE DEF N, A, j, k
    <2>2. cache_data \in [Indexes -> [last_accessed : 0 .. 1, line : [0 .. 1 -> Line]]]
      BY DEF CacheTypes
    <2>3. [cache_data EXCEPT ![j].line[k] = N, ![j].last_accessed = A]
            = [cache_data EXCEPT ![j] = new]
      <3>1. [[old EXCEPT !.line[k] = N] EXCEPT !.last_accessed = A] = new
        <4>1. ASSUME NEW x \in [last_accessed : 0 .. 1, line : [0 .. 1 -> Line]], NEW y, NEW a
              PROVE  [[x EXCEPT !.line = y] EXCEPT !.last_accessed = a] =
                       [last_accessed |-> a, line |-> y]
          <5>1. [x EXCEPT !.line = y] = [last_accessed |-> x.last_accessed, line |-> y]
            OBVIOUS
          <5>2. [[last_accessed |-> x.last_accessed, line |-> y] EXCEPT !.last_accessed = a] =
                  [last_accessed |-> a, line |-> y]
            OBVIOUS
          <5>3. QED  BY <5>1, <5>2, Zenon
        <4>2. [old EXCEPT !.line[k] = N] = [old EXCEPT !.line = [old.line EXCEPT ![k] = N]]
          BY <1>2
        <4>3. QED  BY <4>1, <4>2, <1>2
      <3>2. QED  BY <3>1, <2>2, <1>1
    <2>4. QED  BY <2>1, <2>3
  <1>5. A \in 0 .. 1
    BY <1>1, <1>2
  <1> HIDE DEF N, A, j, k
  <1>6. new \in [last_accessed : 0 .. 1, line : [0 .. 1 -> Line]]
    BY <1>2, <1>3, <1>5
  <1>7. cache_data \in [Indexes -> [last_accessed : 0 .. 1, line : [0 .. 1 -> Line]]]
    BY DEF CacheTypes
  <1>8. cache_data' \in [Indexes -> [last_accessed : 0 .. 1, line : [0 .. 1 -> Line]]]
    BY <1>4, <1>6, <1>7
  <1>9. ASSUME NEW i \in Indexes, NEW l \in 0 .. 1
        PROVE  cache_data'[i].line[l] =
                 IF i = j /\ l = k THEN Merged(Filled(cache_data[i].line[l], c), c)
                 ELSE cache_data[i].line[l]
    <2>1. CASE i = j
      <3>1. cache_data'[i] = new
        BY <2>1, <1>1, <1>4, <1>7
      <3>2. cache_data'[i].line = [old.line EXCEPT ![k] = N]
        BY <3>1
      <3>3. old.line \in [0 .. 1 -> Line]
        BY <1>2
      <3>4. cache_data'[i].line[l] = IF l = k THEN N ELSE old.line[l]
        BY <3>2, <3>3
      <3>5. QED  BY <3>4, <2>1 DEF N
    <2>2. CASE i # j
      BY <2>2, <1>4, <1>7
    <2>3. QED  BY <2>1, <2>2
  <1>10. ASSUME NEW i \in Indexes
         PROVE  cache_data'[i].last_accessed = IF i = j THEN A ELSE cache_data[i].last_accessed
    <2>1. CASE i = j
      <3>1. cache_data'[i] = new
        BY <2>1, <1>1, <1>4, <1>7
      <3>2. QED  BY <3>1, <2>1
    <2>2. CASE i # j
      BY <2>2, <1>4, <1>7
    <2>3. QED  BY <2>1, <2>2
  <1>11. QED  BY <1>8, <1>9, <1>10 DEF j, k, A

-----------------------------------------------------------------------------
\* A cycle keeps the invariant.
LEMMA CycleKeeps ==
  ASSUME DataCacheInv, NEW Icache2mem \in IcacheCommands, Cycle(Icache2mem)
  PROVE  DataCacheInv'
  <1> DEFINE c == proc2mem(Icache2mem)
             j == dcache_in.index
             k == current_line_idx
             h == dcache_in.tag
             hit == state = "DCACHE_IDLE_HIT" /\ real_request /\ ~miss
             fill == fills(c)
             st == dcache_in.is_store
             word == dcache_in.word
             evict == state \in {"DCACHE_LD_EVICT", "DCACHE_ST_EVICT"}
             wait == state \in {"DCACHE_LD_WAIT", "DCACHE_ST_WAIT"}
             store == evict /\ evicts
             memory == unified_memory[<<j, h>>]
  <1>1. MemInv /\ CacheTypes /\ Placed /\ MissUnderWay /\ Kept
    BY DEF DataCacheInv
  <1>2. /\ MemEdge(c)
        /\ cache_data' = n_cache_data(c)
        /\ Start(c) \/ Evict \/ Finish(c) \/ Rest(c)
        /\ dcache_in' \in NextRequest
        /\ written' = IF completed /\ dcache_in.is_store
                      THEN [written EXCEPT ![block][dcache_in.word] = dcache_in.value]
                      ELSE written
    BY DEF Cycle
  <1>3. /\ j \in Indexes /\ k \in 0 .. 1 /\ h \in 0 .. NumTags /\ word \in Words
        /\ dcache_in.value \in Values /\ st \in BOOLEAN
        /\ real_request => h \in 0 .. NumTags - 1 /\ <<j, h>> \in Blocks
        /\ st => real_request
        /\ block = <<j, h>>
    BY <1>1, RequestFacts, CurrentLine, BlockFacts
       DEF CacheTypes, real_request, address_valid, block
  <1>4. \A i \in Indexes :
          /\ cache_data[i].last_accessed \in 0 .. 1
          /\ \A l \in 0 .. 1 :
               /\ cache_data[i].line[l] \in Line
               /\ cache_data[i].line[l].valid \in BOOLEAN
               /\ cache_data[i].line[l].tag \in 0 .. NumTags - 1
               /\ cache_data[i].line[l].data \in Data
    BY <1>1, SetFacts
  <1>5. /\ \A i \in Indexes, t \in 0 .. NumTags - 1 :
             <<i, t>> \in Blocks /\ unified_memory[<<i, t>>] \in Data /\ written[<<i, t>>] \in Data
        /\ state \in States /\ waiting_mem_tag \in 0 .. NUM_MEM_TAGS
    BY <1>1, DataCacheAssumption DEF MemInv, MemTypes, CacheTypes
  <1>6. /\ hit => cache_data[j].line[k].valid /\ cache_data[j].line[k].tag = h
        /\ miss => /\ real_request
                   /\ k = 1 - cache_data[j].last_accessed
                   /\ \A l \in 0 .. 1 :
                        ~(cache_data[j].line[l].valid /\ cache_data[j].line[l].tag = h)
    BY <1>1, CurrentLine
  <1>7. /\ c.command \in {"BUS_NONE", "BUS_LOAD", "BUS_STORE"}
        /\ c.command = "BUS_STORE" <=> store
        /\ store => /\ c.addr = <<j, cache_data[j].line[k].tag>>
                    /\ c.data = cache_data[j].line[k].data
        /\ state = "DCACHE_IDLE_HIT" /\ miss =>
             c.command = "BUS_LOAD" /\ c.addr = block
    BY <1>1, Command
  <1>8. /\ MemInv'
        /\ \A i \in MemTags :
             /\ cycles_left'[i] = IF cycles_left[i] > 0 THEN cycles_left[i] - 1
                                  ELSE IF i = mem2proc_response(c) THEN LATENCY ELSE 0
             /\ loaded_data'[i] = IF c.command = "BUS_LOAD" /\ i = mem2proc_response(c)
                                  THEN unified_memory[c.addr] ELSE loaded_data[i]
        /\ \A i : i \in waiting_for_bus' <=>
                    \/ i \in waiting_for_bus /\ cycles_left[i] # 1
                    \/ c.command = "BUS_LOAD" /\ i = mem2proc_response(c) /\ i # 0
    <2>1. c.command = "BUS_STORE" => c.data \in Data
      BY <1>3, <1>4, <1>7
    <2> HIDE DEF c
    <2>2. QED  BY <2>1, <1>1, <1>2, MemStep
  <1>9. /\ mem2proc_response(c) # 0 =>
             mem2proc_response(c) \in MemTags /\ cycles_left[mem2proc_response(c)] = 0
        /\ c.command # "BUS_NONE" /\ c.addr \in Blocks => mem2proc_response(c) \in MemTags
    <2> HIDE DEF c
    <2>1. QED  BY <1>1, Response, Accepted, DataCacheAssumption
  <1>10. \A i \in Indexes, t \in 0 .. NumTags - 1 :
           unified_memory'[<<i, t>>] =
             IF store /\ i = j /\ t = cache_data[j].line[k].tag
             THEN cache_data[j].line[k].data ELSE unified_memory[<<i, t>>]
    <2>1. unified_memory' = IF c.command = "BUS_STORE" /\ mem2proc_response(c) # 0
                            THEN [unified_memory EXCEPT ![c.addr] = c.data]
                            ELSE unified_memory
      BY <1>2 DEF MemEdge
    <2>2. unified_memory \in [Blocks -> Data]
      BY <1>1 DEF MemInv, MemTypes
    <2> HIDE DEF c, store, j, k
    <2>3. CASE store
      <3>1. c.command = "BUS_STORE" /\ c.addr = <<j, cache_data[j].line[k].tag>>
            /\ c.data = cache_data[j].line[k].data
        BY <2>3, <1>7
      <3>2. c.addr \in Blocks
        BY <3>1, <1>3, <1>4, <1>5
      <3>3. mem2proc_response(c) # 0
        BY <3>1, <3>2, <1>9 DEF MemTags
      <3>4. unified_memory' = [unified_memory EXCEPT ![c.addr] = c.data]
        BY <3>1, <3>3, <2>1
      <3>5. \A i \in Indexes, t \in 0 .. NumTags - 1 :
              unified_memory'[<<i, t>>] = IF <<i, t>> = c.addr THEN c.data
                                          ELSE unified_memory[<<i, t>>]
        BY <3>4, <2>2, <1>5
      <3>6. ASSUME NEW i \in Indexes, NEW t \in 0 .. NumTags - 1
            PROVE  <<i, t>> = c.addr <=> i = j /\ t = cache_data[j].line[k].tag
        BY <3>1
      <3>7. QED  BY <3>5, <3>6, <3>1, <2>3
    <2>4. CASE ~store
      BY <2>4, <2>1, <1>7
    <2>5. QED  BY <2>3, <2>4
  <1>11. fill => /\ miss /\ wait /\ waiting_mem_tag = mem2proc_tag(c)
                 /\ mem2proc_data(c) = memory
    <2> SUFFICES ASSUME fill PROVE miss /\ wait /\ waiting_mem_tag = mem2proc_tag(c)
                                   /\ mem2proc_data(c) = memory
      OBVIOUS
    <2>1. /\ wait /\ real_request /\ waiting_mem_tag = mem2proc_tag(c)
          /\ mem2proc_tag(c) # 0
      BY DEF fills, answered
    <2>2. miss
      BY <2>1, <1>1 DEF MissUnderWay, NoRequest, real_request
    <2>3. loaded_data[waiting_mem_tag] = unified_memory[block]
      BY <2>1, <1>1 DEF MissUnderWay
    <2> HIDE DEF c
    <2>4. mem2proc_data(c) = loaded_data[mem2proc_tag(c)]
      BY <2>1, <1>1, Answer
    <2>5. QED  BY <2>1, <2>2, <2>3, <2>4, <1>3
  <1>12. /\ cache_data' \in [Indexes -> [last_accessed : 0 .. 1, line : [0 .. 1 -> Line]]]
         /\ \A i \in Indexes : \A l \in 0 .. 1 :
              cache_data'[i].line[l] =
                IF i = j /\ l = k THEN Merged(Filled(cache_data[i].line[l], c), c)
                ELSE cache_data[i].line[l]
         /\ \A i \in Indexes :
              cache_data'[i].last_accessed =
                IF i = j /\ hit THEN k ELSE cache_data[i].last_accessed
    <2>1. fill => mem2proc_data(c) \in Data
      BY <1>3, <1>5, <1>6, <1>11
    <2> HIDE DEF c
    <2>2. QED  BY <2>1, <1>1, <1>2, CacheEdge DEF fill
  <1>13. /\ completed /\ st <=> hit /\ st
         /\ miss => ~completed
    BY <1>3 DEF completed, real_request, miss
  <1>14. merges(c) <=> st /\ (hit \/ fill)
    <2>1. state \in {"DCACHE_ST_EVICT", "DCACHE_ST_WAIT"} => st
      BY <1>1 DEF MissUnderWay
    <2>2. state \in {"DCACHE_LD_EVICT", "DCACHE_LD_WAIT"} => ~st
      BY <1>1 DEF MissUnderWay
    <2>3. fill <=> wait /\ real_request /\ answered(c)
      BY DEF fills
    <2> HIDE DEF c, fill
    <2>4. QED  BY <2>1, <2>2, <2>3, <1>3 DEF merges
  <1>15. ASSUME NEW x \in Line
         PROVE  /\ ~hit /\ ~fill => Merged(Filled(x, c), c) = x
                /\ Merged(Filled(x, c), c).valid = (fill \/ x.valid)
                /\ Merged(Filled(x, c), c).tag = IF fill THEN h ELSE x.tag
                /\ ~st => Merged(Filled(x, c), c).data = IF fill THEN memory ELSE x.data
                /\ \A w \in Words :
                     Merged(Filled(x, c), c).data[w] =
                       IF st /\ (hit \/ fill) /\ w = word THEN dcache_in.value
                       ELSE IF fill THEN memory[w] ELSE x.data[w]
    <2> DEFINE y == Filled(x, c)
    <2>1. fill => y = [valid |-> TRUE, tag |-> h, data |-> memory]
      BY <1>11 DEF Filled
    <2>2. ~fill => y = x
      BY DEF Filled
    <2>3. fill => memory \in Data /\ h \in 0 .. NumTags - 1
      BY <1>3, <1>5, <1>6, <1>11
    <2>4. y \in Line
      <3> HIDE DEF memory, h, fill, y
      <3>1. fill => [valid |-> TRUE, tag |-> h, data |-> memory] \in Line
        BY <2>3 DEF Line
      <3>2. QED  BY <3>1, <2>1, <2>2
    <2>5. Merged(y, c) = IF st /\ (hit \/ fill) THEN [y EXCEPT !.data[word] = dcache_in.value]
                         ELSE y
      BY <1>14 DEF Merged
    <2> HIDE DEF c, y, fill, hit, memory, h
    <2>6. /\ Merged(y, c).valid = y.valid /\ Merged(y, c).tag = y.tag
          /\ ~st => Merged(y, c) = y
          /\ \A w \in Words : Merged(y, c).data[w] =
               IF st /\ (hit \/ fill) /\ w = word THEN dcache_in.value ELSE y.data[w]
      <3>1. CASE st /\ (hit \/ fill)
        <4>1. Merged(y, c) = [y EXCEPT !.data[word] = dcache_in.value]
          BY <2>5, <3>1
        <4>2. y.data \in [Words -> Values]
          BY <2>4 DEF Line, Data
        <4>3. Merged(y, c).data = [y.data EXCEPT ![word] = dcache_in.value]
          BY <4>1, <2>4 DEF Line
        <4>4. Merged(y, c).valid = y.valid /\ Merged(y, c).tag = y.tag
          BY <4>1, <2>4 DEF Line
        <4>5. QED  BY <4>2, <4>3, <4>4, <3>1
      <3>2. CASE ~(st /\ (hit \/ fill))
        BY <3>2, <2>5
      <3>3. QED  BY <3>1, <3>2
    <2>7. CASE fill
      <3>1. y.valid = TRUE /\ y.tag = h /\ y.data = memory
        BY <2>1, <2>7
      <3>2. QED  BY <3>1, <2>6, <2>7 DEF y
    <2>8. CASE ~fill
      <3>1. y = x /\ x.valid \in BOOLEAN
        BY <2>2, <2>8 DEF Line
      <3>2. QED  BY <3>1, <2>5, <2>6, <2>8 DEF y
    <2>9. QED  BY <2>7, <2>8
  <1>16. /\ \A b \in Blocks : \A w \in Words :
              written'[b][w] = IF hit /\ st /\ b = <<j, h>> /\ w = word
                               THEN dcache_in.value ELSE written[b][w]
         /\ written' \in [Blocks -> Data]
    <2>1. written \in [Blocks -> Data]
      BY <1>1 DEF CacheTypes
    <2>2. CASE hit /\ st
      <3>1. written' = [written EXCEPT ![<<j, h>>][word] = dcache_in.value]
        BY <2>2, <1>2, <1>3, <1>13
      <3>2. <<j, h>> \in Blocks
        BY <2>2, <1>3
      <3>3. [written[<<j, h>>] EXCEPT ![word] = dcache_in.value] \in Data
        BY <3>2, <2>1, <1>3 DEF Data
      <3> HIDE DEF j, h, hit, word
      <3>4. written' = [written EXCEPT ![<<j, h>>] =
                          [written[<<j, h>>] EXCEPT ![word] = dcache_in.value]]
        BY <3>1
      <3>5. written' \in [Blocks -> Data]
        BY <3>3, <3>4, <2>1
      <3>6. ASSUME NEW b \in Blocks, NEW w \in Words
            PROVE  written'[b][w] = IF b = <<j, h>> /\ w = word
                                    THEN dcache_in.value ELSE written[b][w]
        BY <3>2, <3>4, <2>1 DEF Data
      <3>7. QED  BY <3>5, <3>6, <2>2
    <2>3. CASE ~(hit /\ st)
      <3>1. written' = written
        BY <2>3, <1>2, <1>13
      <3>2. QED  BY <3>1, <2>1, <2>3
    <2>4. QED  BY <2>2, <2>3
  <1>17. /\ dcache_in' \in LsqRequests
         /\ st /\ ~hit => dcache_in' = dcache_in
         /\ miss => dcache_in' = dcache_in \/ dcache_in' = NoRequest
    <2>1. NoRequest \in LsqRequests /\ dcache_in \in LsqRequests
      BY <1>1 DEF LsqRequests, CacheTypes
    <2>2. /\ st => dcache_in.lsq_is_requesting
          /\ miss => dcache_in.lsq_is_requesting
      BY <1>3, <1>6 DEF real_request
    <2>3. QED  BY <2>1, <2>2, <1>2, <1>13 DEF NextRequest
  <1>18. \/ state = "DCACHE_IDLE_HIT" /\ ~miss /\ state' = state /\ waiting_mem_tag' = waiting_mem_tag
         \/ /\ state = "DCACHE_IDLE_HIT" /\ miss
            /\ state' = IF st THEN "DCACHE_ST_EVICT" ELSE "DCACHE_LD_EVICT"
            /\ waiting_mem_tag' = mem2proc_response(c)
         \/ /\ evict /\ miss
            /\ state' = IF st THEN "DCACHE_ST_WAIT" ELSE "DCACHE_LD_WAIT"
            /\ waiting_mem_tag' = waiting_mem_tag
         \/ /\ state # "DCACHE_IDLE_HIT" /\ ~real_request /\ ~fill
            /\ state' = "DCACHE_IDLE_HIT" /\ waiting_mem_tag' = 0
         \/ wait /\ fill /\ state' = "DCACHE_IDLE_HIT" /\ waiting_mem_tag' = 0
         \/ /\ wait /\ miss /\ ~fill /\ ~answered(c)
            /\ state' = state /\ waiting_mem_tag' = waiting_mem_tag
    <2>1. fill <=> wait /\ real_request /\ answered(c)
      BY DEF fills
    <2>2. state # "DCACHE_IDLE_HIT" /\ real_request => miss
      BY <1>1 DEF MissUnderWay, NoRequest, real_request
    <2>3. /\ state \in {"DCACHE_ST_EVICT", "DCACHE_ST_WAIT"} => st
          /\ state \in {"DCACHE_LD_EVICT", "DCACHE_LD_WAIT"} => ~st
      BY <1>1 DEF MissUnderWay
    <2> HIDE DEF c, fill, st
    <2>4. CASE Start(c)
      BY <2>4, <2>3 DEF Start, st
    <2>5. CASE Evict
      BY <2>5, <2>2, <2>3 DEF Evict
    <2>6. CASE Finish(c)
      BY <2>6, <2>1, <2>2 DEF Finish
    <2>7. CASE Rest(c)
      BY <2>7, <2>1, <2>2 DEF Rest
    <2>8. QED  BY <2>4, <2>5, <2>6, <2>7, <1>2
  <1>19. CacheTypes'
    <2>1. mem2proc_response(c) \in 0 .. NUM_MEM_TAGS
      <3> HIDE DEF c
      <3>1. QED  BY <1>1, Response
    <2>2. 0 \in 0 .. NUM_MEM_TAGS
      BY MemoryAssumption
    <2>3. state' \in States /\ waiting_mem_tag' \in 0 .. NUM_MEM_TAGS
      <3> HIDE DEF c, fill, evict, wait, hit
      <3>1. QED  BY <2>1, <2>2, <1>5, <1>18 DEF States
    <2>4. QED  BY <2>3, <1>12, <1>16, <1>17 DEF CacheTypes
  <1>20. \A i \in Indexes : \A l \in 0 .. 1 :
           /\ cache_data'[i].line[l].valid = ((i = j /\ l = k /\ fill) \/ cache_data[i].line[l].valid)
           /\ cache_data'[i].line[l].tag =
                IF i = j /\ l = k /\ fill THEN h ELSE cache_data[i].line[l].tag
           /\ ~(i = j /\ l = k /\ (hit \/ fill)) =>
                cache_data'[i].line[l] = cache_data[i].line[l]
           /\ i = j /\ l = k /\ fill /\ ~st => cache_data'[i].line[l].data = memory
           /\ i = j /\ l = k => \A w \in Words :
                cache_data'[i].line[l].data[w] =
                  IF st /\ (hit \/ fill) /\ w = word THEN dcache_in.value
                  ELSE IF fill THEN memory[w] ELSE cache_data[i].line[l].data[w]
    <2> SUFFICES ASSUME NEW i \in Indexes, NEW l \in 0 .. 1
                 PROVE  /\ cache_data'[i].line[l].valid =
                             ((i = j /\ l = k /\ fill) \/ cache_data[i].line[l].valid)
                        /\ cache_data'[i].line[l].tag =
                             IF i = j /\ l = k /\ fill THEN h ELSE cache_data[i].line[l].tag
                        /\ ~(i = j /\ l = k /\ (hit \/ fill)) =>
                             cache_data'[i].line[l] = cache_data[i].line[l]
                        /\ i = j /\ l = k /\ fill /\ ~st => cache_data'[i].line[l].data = memory
                        /\ i = j /\ l = k => \A w \in Words :
                             cache_data'[i].line[l].data[w] =
                               IF st /\ (hit \/ fill) /\ w = word THEN dcache_in.value
                               ELSE IF fill THEN memory[w] ELSE cache_data[i].line[l].data[w]
      OBVIOUS
    <2>1. cache_data[i].line[l] \in Line /\ cache_data[i].line[l].valid \in BOOLEAN
      BY <1>4
    <2>2. cache_data'[i].line[l] =
            IF i = j /\ l = k THEN Merged(Filled(cache_data[i].line[l], c), c)
            ELSE cache_data[i].line[l]
      BY <1>12
    <2> HIDE DEF c, j, k, h, hit, fill, st, word, memory
    <2>3. QED  BY <2>1, <2>2, <1>15
  <1>21. hit => ~fill /\ ~miss /\ state = "DCACHE_IDLE_HIT" /\ ~store
    BY <1>11
  <1> HIDE DEF c, j, k, h, hit, fill, st, word, evict, wait, store, memory
  <1>22. Placed'
    <2> SUFFICES ASSUME NEW i \in Indexes
                 PROVE  /\ cache_data'[i].line[0].valid /\ cache_data'[i].line[1].valid
                             => cache_data'[i].line[0].tag # cache_data'[i].line[1].tag
                        /\ cache_data'[i].last_accessed = 1 \/ cache_data'[i].line[0].valid
                             => cache_data'[i].line[1].valid
                        /\ ~cache_data'[i].line[0].valid /\ cache_data'[i].last_accessed = 0
                             => \/ Clean(i, 1)'
                                \/ /\ state' = "DCACHE_IDLE_HIT" /\ dcache_in'.is_store
                                   /\ block' = <<i, cache_data'[i].line[1].tag>>
      BY DEF Placed
    <2>1. /\ cache_data[i].line[0].valid /\ cache_data[i].line[1].valid
               => cache_data[i].line[0].tag # cache_data[i].line[1].tag
          /\ cache_data[i].last_accessed = 1 \/ cache_data[i].line[0].valid
               => cache_data[i].line[1].valid
          /\ ~cache_data[i].line[0].valid /\ cache_data[i].last_accessed = 0
               => \/ Clean(i, 1)
                  \/ /\ state = "DCACHE_IDLE_HIT" /\ dcache_in.is_store
                     /\ block = <<i, cache_data[i].line[1].tag>>
      BY <1>1 DEF Placed
    <2>2. 0 \in 0 .. 1 /\ 1 \in 0 .. 1 /\ k \in 0 .. 1 /\ cache_data[i].last_accessed \in 0 .. 1
      BY <1>3, <1>4
    <2>3. fill => /\ k = 1 - cache_data[j].last_accessed
                  /\ \A l \in 0 .. 1 :
                       ~(cache_data[j].line[l].valid /\ cache_data[j].line[l].tag = h)
      BY <1>6, <1>11
    <2>4. cache_data'[i].line[0].valid /\ cache_data'[i].line[1].valid
            => cache_data'[i].line[0].tag # cache_data'[i].line[1].tag
      <3>1. CASE i = j /\ fill
        <4>1. /\ cache_data'[i].line[k].tag = h
              /\ cache_data'[i].line[1 - k] = cache_data[i].line[1 - k]
              /\ 1 - k \in 0 .. 1
          BY <3>1, <2>2, <1>20
        <4>2. ~(cache_data[i].line[1 - k].valid /\ cache_data[i].line[1 - k].tag = h)
          BY <4>1, <3>1, <2>3
        <4>3. k = 0 \/ k = 1
          BY <2>2
        <4>4. QED  BY <4>1, <4>2, <4>3
      <3>2. CASE ~(i = j /\ fill)
        BY <3>2, <2>1, <2>2, <1>20
      <3>3. QED  BY <3>1, <3>2
    <2>5. cache_data'[i].last_accessed = IF i = j /\ hit THEN k ELSE cache_data[i].last_accessed
      BY <1>12
    <2>6. cache_data'[i].last_accessed = 1 \/ cache_data'[i].line[0].valid
            => cache_data'[i].line[1].valid
      <3>1. CASE i = j /\ hit
        BY <3>1, <2>1, <2>2, <2>5, <1>6, <1>20
      <3>2. CASE i = j /\ fill
        <4>1. CASE k = 1
          <5>1. cache_data'[i].line[1].valid
            BY <4>1, <3>2, <2>2, <1>20
          <5>2. QED  BY <5>1
        <4>2. CASE k = 0
          <5>1. cache_data[i].line[1].valid
            BY <4>2, <3>2, <2>1, <2>2, <2>3
          <5>2. cache_data'[i].line[1].valid
            BY <5>1, <2>2, <1>20
          <5>3. QED  BY <5>2
        <4>3. QED  BY <4>1, <4>2, <2>2
      <3>3. CASE ~(i = j /\ (hit \/ fill))
        BY <3>3, <2>1, <2>2, <2>5, <1>20
      <3>4. QED  BY <3>1, <3>2, <3>3
    <2>7. ASSUME ~cache_data'[i].line[0].valid, cache_data'[i].last_accessed = 0
          PROVE  \/ Clean(i, 1)'
                 \/ /\ state' = "DCACHE_IDLE_HIT" /\ dcache_in'.is_store
                    /\ block' = <<i, cache_data'[i].line[1].tag>>
      <3>1. ~(i = j /\ hit) /\ cache_data[i].last_accessed = 0
        BY <2>7, <2>2, <2>5, <1>6, <1>20
      <3>2. CASE i = j /\ fill
        <4>1. k = 1
          BY <3>1, <3>2, <2>3
        <4>2. cache_data'[i].line[1].tag = h
          BY <4>1, <3>2, <2>2, <1>20
        <4>3. CASE st
          <5>1. dcache_in' = dcache_in /\ state' = "DCACHE_IDLE_HIT"
            <6>1. wait /\ ~hit
              BY <3>2, <1>11, <1>21
            <6>2. QED  BY <6>1, <4>3, <3>2, <1>17, <1>18 DEF wait, evict
          <5>2. block' = <<j, h>> /\ dcache_in'.is_store
            BY <5>1, <4>3, <1>3 DEF block, j, h, st
          <5>3. QED  BY <5>1, <5>2, <4>2, <3>2
        <4>4. CASE ~st
          <5>1. cache_data'[i].line[1].data = memory
            BY <4>1, <4>4, <3>2, <2>2, <1>20
          <5>2. ~store
            BY <3>2, <1>11 DEF wait, store, evict
          <5>3. h \in 0 .. NumTags - 1
            BY <3>2, <1>3, <1>6, <1>11
          <5>4. unified_memory'[<<j, h>>] = memory
            BY <5>2, <5>3, <1>3, <1>10 DEF memory
          <5>5. QED  BY <5>1, <5>4, <4>2, <3>2 DEF Clean
        <4>5. QED  BY <4>3, <4>4
      <3>3. CASE ~(i = j /\ fill)
        <4>1. /\ cache_data'[i].line[1] = cache_data[i].line[1]
              /\ cache_data'[i].line[0] = cache_data[i].line[0]
          BY <3>1, <3>3, <2>2, <1>20
        <4>2. Clean(i, 1)
          <5>1. CASE state = "DCACHE_IDLE_HIT" /\ dcache_in.is_store
                     /\ block = <<i, cache_data[i].line[1].tag>>
            <6>1. real_request /\ i = j /\ cache_data[i].line[1].tag = h
              BY <5>1, <1>3 DEF st
            <6>2. miss
              BY <6>1, <5>1, <3>1 DEF hit
            <6>3. ~cache_data[i].line[1].valid
              BY <6>1, <6>2, <2>2, <1>6
            <6>4. QED  BY <6>3 DEF Clean
          <5>2. QED  BY <5>1, <4>1, <3>1, <2>1, <2>7
        <4>3. cache_data[i].line[1].tag \in 0 .. NumTags - 1
          BY <1>4
        <4>4. ~(store /\ i = j)
          BY <4>1, <2>7 DEF store, evicts, current_set, j
        <4>5. unified_memory'[<<i, cache_data[i].line[1].tag>>]
                = unified_memory[<<i, cache_data[i].line[1].tag>>]
          BY <4>3, <4>4, <1>10
        <4>6. QED  BY <4>1, <4>2, <4>5 DEF Clean
      <3>4. QED  BY <3>2, <3>3
    <2>8. QED  BY <2>4, <2>6, <2>7
  <1>23. ~hit /\ ~fill => \A i \in Indexes :
            /\ cache_data'[i].last_accessed = cache_data[i].last_accessed
            /\ \A l \in 0 .. 1 : cache_data'[i].line[l] = cache_data[i].line[l]
    BY <1>12, <1>20
  <1>24. /\ waiting_mem_tag \in waiting_for_bus =>
              waiting_mem_tag \in MemTags /\ cycles_left[waiting_mem_tag] > 0
         /\ waiting_mem_tag \in waiting_for_bus /\ ~answered(c) =>
              cycles_left[waiting_mem_tag] # 1
    <2>1. waiting_mem_tag \in waiting_for_bus =>
            waiting_mem_tag \in MemTags /\ cycles_left[waiting_mem_tag] > 0
      BY <1>1 DEF MemInv, MemTypes, Scheduled
    <2>2. \A x \in waiting_for_bus : cycles_left[x] = 1 => mem2proc_tag(c) = x
      BY <1>1, Answer
    <2>3. 0 \notin MemTags
      BY DEF MemTags
    <2>4. QED  BY <2>1, <2>2, <2>3 DEF answered
  <1>25. ASSUME NEW x \in waiting_for_bus, x \in MemTags, cycles_left[x] > 1
         PROVE  /\ x \in waiting_for_bus'
                /\ loaded_data'[x] = loaded_data[x]
                /\ cycles_left'[x] = cycles_left[x] - 1
    <2>1. x # mem2proc_response(c)
      BY <1>25, <1>9 DEF MemTags
    <2>2. cycles_left[x] \in 0 .. LATENCY
      BY <1>25, <1>1 DEF MemInv, MemTypes
    <2>3. QED  BY <2>1, <2>2, <1>25, <1>8, MemoryAssumption
  <1>26. ASSUME dcache_in' = dcache_in, ~hit, ~fill
         PROVE  block' = block /\ real_request' = real_request /\ miss' = miss
    <2>1. block' = block /\ real_request' = real_request
      BY <1>26 DEF block, real_request, address_valid
    <2>2. \A l \in 0 .. 1 : line_hit(l)' = line_hit(l)
      BY <1>3, <1>23, <1>26 DEF line_hit, current_set, j
    <2>3. line_hit(0)' = line_hit(0) /\ line_hit(1)' = line_hit(1)
      BY <2>2
    <2>4. QED  BY <2>1, <2>3 DEF miss
  <1>27. MissUnderWay'
    <2>1. CASE state' = "DCACHE_IDLE_HIT"
      BY <2>1 DEF MissUnderWay
    <2>2. CASE dcache_in' = NoRequest /\ state' # "DCACHE_IDLE_HIT"
      <3>1. miss /\ ~st
        <4>1. miss
          BY <2>2, <1>18, <1>11
        <4>2. st => dcache_in = NoRequest
          BY <4>1, <2>2, <1>17, <1>21
        <4>3. ~NoRequest.is_store
          BY DEF NoRequest
        <4>4. QED  BY <4>1, <4>2, <4>3 DEF st
      <3>2. state' \in {"DCACHE_LD_EVICT", "DCACHE_LD_WAIT"}
        BY <2>2, <3>1, <1>18, <1>1, <1>5 DEF States, evict, wait, MissUnderWay, st
      <3>3. ~real_request' /\ ~dcache_in'.is_store
        BY <2>2 DEF NoRequest, real_request
      <3>4. QED  BY <2>2, <3>2, <3>3 DEF MissUnderWay
    <2>3. CASE dcache_in' = dcache_in /\ state' # "DCACHE_IDLE_HIT"
      <3>1. miss /\ ~hit /\ ~fill
        BY <2>3, <1>18, <1>11, <1>21 DEF wait, evict
      <3>2. block' = block /\ real_request' = real_request /\ miss'
        BY <2>3, <3>1, <1>26
      <3>3. st = dcache_in'.is_store /\ j = dcache_in'.index
        BY <2>3 DEF st, j
      <3>4. CASE state = "DCACHE_IDLE_HIT"
        <4>1. /\ state' = IF st THEN "DCACHE_ST_EVICT" ELSE "DCACHE_LD_EVICT"
              /\ waiting_mem_tag' = mem2proc_response(c)
          BY <3>1, <3>4, <1>18 DEF evict, wait
        <4>2. c.command = "BUS_LOAD" /\ c.addr = block /\ block \in Blocks
          BY <3>1, <3>4, <1>3, <1>6, <1>7
        <4>3. mem2proc_response(c) \in MemTags /\ mem2proc_response(c) # 0
          BY <4>2, <1>9 DEF MemTags
        <4>4. /\ mem2proc_response(c) \in waiting_for_bus'
              /\ loaded_data'[mem2proc_response(c)] = unified_memory[block]
              /\ cycles_left'[mem2proc_response(c)] = LATENCY
          BY <4>2, <4>3, <1>8, <1>9
        <4>5. unified_memory' = unified_memory
          BY <4>2, <1>2 DEF MemEdge
        <4>6. QED  BY <3>2, <3>3, <4>1, <4>4, <4>5 DEF MissUnderWay
      <3>5. CASE evict
        <4>1. /\ state' = IF st THEN "DCACHE_ST_WAIT" ELSE "DCACHE_LD_WAIT"
              /\ waiting_mem_tag' = waiting_mem_tag
          BY <3>1, <3>5, <2>3, <1>18, <1>6 DEF evict, wait
        <4>2. /\ waiting_mem_tag \in waiting_for_bus
              /\ loaded_data[waiting_mem_tag] = unified_memory[block]
              /\ cycles_left[waiting_mem_tag] = LATENCY
          BY <3>1, <3>5, <1>1, <1>6 DEF MissUnderWay, evict
        <4>3. /\ waiting_mem_tag \in waiting_for_bus'
              /\ loaded_data'[waiting_mem_tag] = unified_memory[block]
          BY <4>2, <1>24, <1>25, MemoryAssumption
        <4>4. store => cache_data[j].line[k].valid
          <5>1. store => cache_data[j].line[0].valid
            BY DEF store, evicts, current_set, j
          <5>2. cache_data[j].line[0].valid => cache_data[j].line[1].valid
            BY <1>1, <1>3 DEF Placed
          <5>3. k = 0 \/ k = 1
            BY <1>3
          <5>4. QED  BY <5>1, <5>2, <5>3
        <4>5. ~(store /\ cache_data[j].line[k].tag = h)
          BY <4>4, <3>1, <1>3, <1>6
        <4>6. h \in 0 .. NumTags - 1
          BY <3>1, <1>3, <1>6
        <4>7. unified_memory'[block] = unified_memory[block]
          BY <4>5, <4>6, <1>3, <1>10
        <4>8. ASSUME NEW i \in Indexes, NEW l \in 0 .. 1, i = j, l = k
              PROVE  Clean(i, l)'
          <5> DEFINE tag == cache_data[i].line[l].tag
          <5>1. tag \in 0 .. NumTags - 1
            BY <1>3, <1>4
          <5>2. cache_data'[i].line[l] = cache_data[i].line[l]
            BY <3>1, <1>23
          <5>3. CASE store
            <6>1. unified_memory'[<<i, tag>>] = cache_data[i].line[l].data
              BY <5>1, <5>3, <4>8, <1>10
            <6>2. QED  BY <6>1, <5>2 DEF Clean
          <5>4. CASE ~store
            <6>1. ~cache_data[j].line[0].valid
              BY <3>1, <3>5, <5>4 DEF store, evicts, current_set, j
            <6>2. CASE cache_data[j].last_accessed = 1
              <7>1. l = 0 /\ ~cache_data[i].line[l].valid
                BY <6>1, <6>2, <4>8, <3>1, <1>6
              <7>2. QED  BY <7>1, <5>2 DEF Clean
            <6>3. CASE cache_data[j].last_accessed = 0
              <7>1. l = 1
                BY <6>3, <4>8, <3>1, <1>6
              <7>2. Clean(i, 1)
                BY <6>1, <6>3, <3>5, <4>8, <1>1, <1>3 DEF Placed, evict
              <7>3. unified_memory'[<<i, tag>>] = unified_memory[<<i, tag>>]
                BY <5>1, <5>4, <1>10
              <7>4. QED  BY <7>1, <7>2, <7>3, <5>2 DEF Clean
            <6>4. QED  BY <6>2, <6>3, <1>3, <1>4
          <5>5. QED  BY <5>3, <5>4
        <4>9. k = 1 - cache_data'[j].last_accessed
          BY <3>1, <1>3, <1>6, <1>23
        <4>10. ASSUME NEW i \in Indexes, NEW l \in 0 .. 1,
                      i = dcache_in'.index, l = 1 - cache_data'[i].last_accessed
               PROVE  Clean(i, l)'
          BY <4>8, <4>9, <4>10, <3>3
        <4>11. QED  BY <3>2, <3>3, <4>1, <4>3, <4>7, <4>10 DEF MissUnderWay
      <3>6. CASE wait
        <4>1. state' = state /\ waiting_mem_tag' = waiting_mem_tag /\ ~answered(c)
          BY <3>1, <3>6, <2>3, <1>6, <1>18 DEF evict, wait
        <4>2. /\ waiting_mem_tag \in waiting_for_bus
              /\ loaded_data[waiting_mem_tag] = unified_memory[block]
              /\ \A i \in Indexes, l \in 0 .. 1 :
                   i = dcache_in.index /\ l = 1 - cache_data[i].last_accessed => Clean(i, l)
              /\ state \in {"DCACHE_ST_EVICT", "DCACHE_ST_WAIT"} => dcache_in.is_store
              /\ state \in {"DCACHE_LD_EVICT", "DCACHE_LD_WAIT"} => ~dcache_in.is_store
          BY <3>1, <3>6, <1>1, <1>6 DEF MissUnderWay, wait
        <4>3. cycles_left[waiting_mem_tag] > 1
          <5>1. cycles_left[waiting_mem_tag] \in 0 .. LATENCY
            BY <4>2, <1>1, <1>24 DEF MemInv, MemTypes
          <5>2. QED  BY <5>1, <4>1, <4>2, <1>24, MemoryAssumption
        <4>4. /\ waiting_mem_tag \in waiting_for_bus'
              /\ loaded_data'[waiting_mem_tag] = unified_memory[block]
          BY <4>2, <4>3, <1>24, <1>25
        <4>5. unified_memory' = unified_memory
          <5>1. ~store
            BY <3>6 DEF wait, store, evict
          <5>2. QED  BY <5>1, <1>2, <1>7 DEF MemEdge
        <4>6. ASSUME NEW i \in Indexes, NEW l \in 0 .. 1,
                     i = dcache_in'.index, l = 1 - cache_data'[i].last_accessed
              PROVE  Clean(i, l)'
          <5>1. /\ cache_data'[i].last_accessed = cache_data[i].last_accessed
                /\ cache_data'[i].line[l] = cache_data[i].line[l]
            BY <3>1, <1>23
          <5>2. Clean(i, l)
            BY <5>1, <4>2, <4>6, <2>3
          <5>3. QED  BY <5>1, <5>2, <4>5 DEF Clean
        <4>7. state' \notin {"DCACHE_LD_EVICT", "DCACHE_ST_EVICT"}
          BY <4>1, <3>6 DEF wait
        <4>8. QED  BY <2>3, <3>2, <4>1, <4>2, <4>4, <4>5, <4>6, <4>7 DEF MissUnderWay
      <3>7. QED  BY <3>4, <3>5, <3>6, <1>5 DEF States, evict, wait
    <2>4. QED
      <3>1. state' # "DCACHE_IDLE_HIT" => miss
        BY <1>18, <1>11
      <3>2. QED  BY <2>1, <2>2, <2>3, <3>1, <1>17
  <1>28. Kept'
    <2> SUFFICES ASSUME NEW i \in Indexes, NEW w \in Words
                 PROVE  /\ \A l \in 0 .. 1 : KeptInLine(i, l, w)'
                        /\ \A t \in 0 .. NumTags - 1 : KeptInMemory(i, t, w)'
      BY DEF Kept
    <2>1. /\ \A l \in 0 .. 1 : KeptInLine(i, l, w)
          /\ \A t \in 0 .. NumTags - 1 : KeptInMemory(i, t, w)
      BY <1>1 DEF Kept
    <2>2. \A t \in 0 .. NumTags - 1 :
            UnderWay(i, t, w) <=> st /\ i = j /\ t = h /\ word = w
      BY <1>3 DEF UnderWay, st, word
    <2>3. \A t \in 0 .. NumTags - 1 : UnderWay(i, t, w) /\ ~hit => UnderWay(i, t, w)'
      <3>1. ASSUME dcache_in' = dcache_in, NEW t \in 0 .. NumTags - 1, UnderWay(i, t, w)
            PROVE  UnderWay(i, t, w)'
        BY <3>1 DEF UnderWay, block
      <3>2. QED  BY <3>1, <2>2, <1>17
    <2>4. \A t \in 0 .. NumTags - 1 :
            /\ <<i, t>> \in Blocks
            /\ <<i, t>> = <<j, h>> <=> i = j /\ t = h
            /\ written'[<<i, t>>][w] = IF hit /\ st /\ i = j /\ t = h /\ w = word
                                       THEN dcache_in.value ELSE written[<<i, t>>][w]
      BY <1>5, <1>16
    <2>5. ASSUME NEW l \in 0 .. 1 PROVE KeptInLine(i, l, w)'
      <3>1. PICK tag \in 0 .. NumTags - 1 : tag = cache_data[i].line[l].tag
        BY <1>4
      <3>2. /\ cache_data[i].line[l].valid /\ ~UnderWay(i, tag, w) =>
                 cache_data[i].line[l].data[w] = written[<<i, tag>>][w]
        BY <3>1, <2>1 DEF KeptInLine
      <3>3. CASE i = j /\ l = k /\ hit
        <4>1. /\ tag = h /\ cache_data[i].line[l].valid
              /\ cache_data'[i].line[l].tag = tag
              /\ cache_data'[i].line[l].data[w] =
                   IF st /\ w = word THEN dcache_in.value ELSE cache_data[i].line[l].data[w]
          BY <3>1, <3>3, <1>6, <1>20, <1>21
        <4>2. cache_data'[i].line[l].data[w] = written'[<<i, tag>>][w]
          BY <4>1, <3>2, <3>3, <2>2, <2>4
        <4>3. QED  BY <4>1, <4>2 DEF KeptInLine
      <3>4. CASE i = j /\ l = k /\ fill
        <4>1. ~hit /\ h \in 0 .. NumTags - 1
          BY <3>4, <1>3, <1>6, <1>11, <1>21
        <4>2. /\ cache_data'[i].line[l].tag = h
              /\ cache_data'[i].line[l].data[w] =
                   IF st /\ w = word THEN dcache_in.value ELSE memory[w]
          BY <3>4, <1>20
        <4>3. PICK t \in 0 .. NumTags - 1 : t = h
          BY <4>1
        <4>4. ~UnderWay(i, t, w) => memory[w] = written[<<i, t>>][w]
          BY <4>3, <3>4, <2>1, <1>6, <1>11 DEF KeptInMemory, memory
        <4>5. written'[<<i, t>>][w] = written[<<i, t>>][w]
          BY <4>1, <2>4
        <4>6. ~UnderWay(i, t, w)' => ~UnderWay(i, t, w) /\ ~(st /\ w = word)
          BY <4>1, <4>3, <3>4, <2>2, <2>3
        <4>7. ~UnderWay(i, t, w)' => cache_data'[i].line[l].data[w] = written'[<<i, t>>][w]
          BY <4>2, <4>4, <4>5, <4>6
        <4>8. cache_data'[i].line[l].tag = t
          BY <4>2, <4>3
        <4>9. QED  BY <4>7, <4>8 DEF KeptInLine
      <3>5. CASE ~(i = j /\ l = k /\ (hit \/ fill))
        <4>1. cache_data'[i].line[l] = cache_data[i].line[l]
          BY <3>5, <1>20
        <4>2. ASSUME cache_data[i].line[l].valid, ~UnderWay(i, tag, w)'
              PROVE  cache_data[i].line[l].data[w] = written'[<<i, tag>>][w]
          <5>1. ~(hit /\ i = j /\ tag = h)
            <6>1. SUFFICES ASSUME hit, i = j, tag = h PROVE FALSE
              OBVIOUS
            <6>2. /\ k \in 0 .. 1 /\ l # k
                  /\ cache_data[i].line[k].valid /\ cache_data[i].line[k].tag = h
              BY <6>1, <3>5, <1>3, <1>6
            <6>3. QED  BY <6>1, <6>2, <4>2, <3>1, <1>1 DEF Placed
          <5>2. UnderWay(i, tag, w) => UnderWay(i, tag, w)'
            BY <5>1, <2>2, <2>3
          <5>3. written'[<<i, tag>>][w] = written[<<i, tag>>][w]
            BY <5>1, <2>4
          <5>4. QED  BY <5>2, <5>3, <4>2, <3>2
        <4>3. QED  BY <4>1, <4>2, <3>1 DEF KeptInLine
      <3>6. QED  BY <3>3, <3>4, <3>5
    <2>6. ASSUME NEW t \in 0 .. NumTags - 1 PROVE KeptInMemory(i, t, w)'
      <3> SUFFICES ASSUME \A l \in 0 .. 1 : ~(/\ cache_data'[i].line[l].valid
                                              /\ cache_data'[i].line[l].tag = t),
                          ~UnderWay(i, t, w)'
                   PROVE  unified_memory'[<<i, t>>][w] = written'[<<i, t>>][w]
        BY DEF KeptInMemory
      <3>1. ~(hit /\ i = j /\ t = h)
        <4>1. ASSUME hit, i = j, t = h
              PROVE  cache_data'[i].line[k].valid /\ cache_data'[i].line[k].tag = t
          BY <4>1, <1>3, <1>6, <1>20, <1>21
        <4>2. QED  BY <4>1, <1>3
      <3>2. ~UnderWay(i, t, w)
        BY <3>1, <2>2, <2>3
      <3>3. written'[<<i, t>>][w] = written[<<i, t>>][w]
        BY <3>1, <2>4
      <3>4. CASE fill /\ i = j /\ cache_data[j].line[k].valid /\ cache_data[j].line[k].tag = t
        <4>1. unified_memory'[<<i, t>>] = unified_memory[<<i, t>>]
          BY <3>4, <1>10, <1>11 DEF wait, store, evict
        <4>2. Clean(j, k)
          <5>1. /\ wait /\ real_request
                /\ k = 1 - cache_data[j].last_accessed /\ k \in 0 .. 1 /\ j \in Indexes
            BY <3>4, <1>3, <1>6, <1>11
          <5>2. QED  BY <5>1, <1>1 DEF MissUnderWay, wait, j
        <4>3. unified_memory[<<i, t>>] = cache_data[j].line[k].data
          BY <4>2, <3>4 DEF Clean
        <4>4. cache_data[j].line[k].data[w] = written[<<i, t>>][w]
          BY <3>2, <3>4, <2>1, <1>3 DEF KeptInLine
        <4>5. QED  BY <4>1, <4>3, <4>4, <3>3
      <3>5. CASE ~(fill /\ i = j /\ cache_data[j].line[k].valid /\ cache_data[j].line[k].tag = t)
        <4>1. \A l \in 0 .. 1 : ~(cache_data[i].line[l].valid /\ cache_data[i].line[l].tag = t)
          <5> SUFFICES ASSUME NEW l \in 0 .. 1
                       PROVE  ~(cache_data[i].line[l].valid /\ cache_data[i].line[l].tag = t)
            OBVIOUS
          <5>1. CASE fill /\ i = j /\ l = k
            BY <5>1, <3>5
          <5>2. CASE ~(fill /\ i = j /\ l = k)
            <6>1. /\ cache_data'[i].line[l].valid = cache_data[i].line[l].valid
                  /\ cache_data'[i].line[l].tag = cache_data[i].line[l].tag
              BY <5>2, <1>4, <1>20
            <6>2. QED  BY <6>1
          <5>3. QED  BY <5>1, <5>2
        <4>2. unified_memory[<<i, t>>][w] = written[<<i, t>>][w]
          BY <4>1, <3>2, <2>1 DEF KeptInMemory
        <4>3. ~(store /\ i = j /\ t = cache_data[j].line[k].tag)
          <5>1. store => cache_data[j].line[0].valid
            BY DEF store, evicts, current_set, j
          <5>2. cache_data[j].line[0].valid => cache_data[j].line[1].valid
            BY <1>1, <1>3 DEF Placed
          <5>3. k = 0 \/ k = 1
            BY <1>3
          <5>4. QED  BY <5>1, <5>2, <5>3, <4>1
        <4>4. unified_memory'[<<i, t>>] = unified_memory[<<i, t>>]
          BY <4>3, <1>10
        <4>5. QED  BY <4>2, <4>4, <3>3
      <3>6. QED  BY <3>4, <3>5
    <2>7. QED  BY <2>5, <2>6
  <1> QED  BY <1>8, <1>19, <1>22, <1>27, <1>28 DEF DataCacheInv

\* At reset the cache is empty and the memory holds what was written.
LEMMA CacheInitially ==
  ASSUME Init
  PROVE  DataCacheInv
  <1>1. ZeroData \in Data
    BY MemoryAssumption DEF ZeroData, Data
  <1>2. MemInv
    BY <1>1, MemInitially DEF Init, MemInit
  <1>3. 0 \in 0 .. NumTags - 1 /\ 0 \in 0 .. 1 /\ 0 \in 0 .. NUM_MEM_TAGS
    BY DataCacheAssumption, MemoryAssumption
  <1>4. \A i \in Indexes :
          /\ cache_data[i].last_accessed = 0
          /\ \A l \in 0 .. 1 : cache_data[i].line[l] = [valid |-> FALSE, tag |-> 0, data |-> ZeroData]
    BY DEF Init
  <1>5. [valid |-> FALSE, tag |-> 0, data |-> ZeroData] \in Line
    BY <1>1, <1>3 DEF Line
  <1>6. CacheTypes
    <2>1. [last_accessed |-> 0,
           line |-> [l \in 0 .. 1 |-> [valid |-> FALSE, tag |-> 0, data |-> ZeroData]]]
            \in [last_accessed : 0 .. 1, line : [0 .. 1 -> Line]]
      BY <1>3, <1>5
    <2>2. cache_data \in [Indexes -> [last_accessed : 0 .. 1, line : [0 .. 1 -> Line]]]
      BY <2>1 DEF Init
    <2>3. QED  BY <2>2, <1>1, <1>3 DEF CacheTypes, Init, States, LsqRequests
  <1>7. Placed
    BY <1>4 DEF Placed, Clean
  <1>8. MissUnderWay
    BY DEF MissUnderWay, Init
  <1>9. Kept
    <2>1. \A b \in Blocks : unified_memory[b] = written[b]
      BY DEF Init, MemInit
    <2>2. \A i \in Indexes, t \in 0 .. NumTags - 1 : <<i, t>> \in Blocks
      BY DataCacheAssumption
    <2>3. \A i \in Indexes, l \in 0 .. 1 : ~cache_data[i].line[l].valid
      BY <1>4
    <2>4. QED  BY <2>1, <2>2, <2>3 DEF Kept, KeptInLine, KeptInMemory
  <1>10. QED  BY <1>2, <1>6, <1>7, <1>8, <1>9 DEF DataCacheInv

-----------------------------------------------------------------------------
\* The invariant holds in every state: memory, lines and the miss under way
\* fit together at every clock edge, squashes included.
THEOREM DataCacheInvariant == Spec => []DataCacheInv
  <1>1. Init => DataCacheInv
    BY CacheInitially
  <1>2. DataCacheInv /\ [Next]_vars => DataCacheInv'
    <2> SUFFICES ASSUME DataCacheInv, [Next]_vars PROVE DataCacheInv'
      OBVIOUS
    <2>1. CASE Next
      BY <2>1, CycleKeeps DEF Next
    <2>2. CASE UNCHANGED vars
      <3>1. /\ UNCHANGED <<unified_memory, cycles_left, waiting_for_bus, loaded_data>>
            /\ UNCHANGED <<cache_data, state, waiting_mem_tag, dcache_in, written>>
        BY <2>2 DEF vars, memVars
      <3>2. MemInv'
        BY <3>1 DEF DataCacheInv, MemInv, MemTypes, Scheduled
      <3>3. CacheTypes' /\ Placed' /\ MissUnderWay'
        BY <3>1 DEF DataCacheInv, CacheTypes, Placed, MissUnderWay, Clean, block,
             real_request, miss, line_hit, current_set, address_valid
      <3>4. Kept'
        <4>1. \A i \in Indexes, t \in 0 .. NumTags - 1, w \in Words :
                UnderWay(i, t, w)' <=> UnderWay(i, t, w)
          BY <3>1 DEF UnderWay, block
        <4>2. ASSUME NEW i \in Indexes, NEW w \in Words, NEW l \in 0 .. 1
              PROVE  KeptInLine(i, l, w)'
          BY <3>1 DEF DataCacheInv, Kept, KeptInLine, UnderWay, block
        <4>3. ASSUME NEW i \in Indexes, NEW w \in Words, NEW t \in 0 .. NumTags - 1
              PROVE  KeptInMemory(i, t, w)'
          BY <3>1, <4>1 DEF DataCacheInv, Kept, KeptInMemory
        <4>4. QED  BY <4>2, <4>3 DEF Kept
      <3>5. QED  BY <3>2, <3>3, <3>4 DEF DataCacheInv
    <2>3. QED  BY <2>1, <2>2
  <1>3. QED  BY <1>1, <1>2, PTL DEF Spec

\* No completed store is ever lost (dcache_planb.sv replaces lines without a
\* dirty bit, and decides by the valid bit of line 0 alone what to write back):
\* every block is in one place, and there it is what the stores made it.
THEOREM NoStoreLostHolds == Spec => []NoStoreLost
  <1>1. DataCacheInv => NoStoreLost
    <2> SUFFICES ASSUME DataCacheInv, NEW b \in Blocks
                 PROVE  /\ Cardinality(Copies(b)) <= 1
                        /\ \A w \in Words :
                             ~(dcache_in.is_store /\ block = b /\ dcache_in.word = w)
                               => Current(b)[w] = written[b][w]
      BY DEF NoStoreLost
    <2>1. PICK i \in Indexes, t \in 0 .. NumTags - 1 : b = <<i, t>>
      BY DataCacheAssumption
    <2>2. b[1] = i /\ b[2] = t
      BY <2>1
    <2>3. Copies(b) = {l \in 0 .. 1 : cache_data[i].line[l].valid /\ cache_data[i].line[l].tag = t}
      BY <2>2 DEF Copies
    <2>4. \A l \in 0 .. 1, m \in 0 .. 1 : l \in Copies(b) /\ m \in Copies(b) => l = m
      BY <2>3 DEF DataCacheInv, Placed
    <2>5. Cardinality(Copies(b)) <= 1
      <3>1. CASE Copies(b) = {}
        BY <3>1, FS_EmptySet
      <3>2. CASE Copies(b) # {}
        <4>1. PICK l \in 0 .. 1 : l \in Copies(b)
          BY <3>2, <2>3
        <4>2. Copies(b) = {l}
          BY <4>1, <2>3, <2>4
        <4>3. Cardinality({l}) = 1
          BY FS_Singleton
        <4>4. QED  BY <4>2, <4>3
      <3>3. QED  BY <3>1, <3>2
    <2>6. ASSUME NEW w \in Words, ~(dcache_in.is_store /\ block = b /\ dcache_in.word = w)
          PROVE  Current(b)[w] = written[b][w]
      <3>1. ~UnderWay(i, t, w)
        BY <2>1, <2>6 DEF UnderWay
      <3>2. /\ \A l \in 0 .. 1 : KeptInLine(i, l, w)
            /\ KeptInMemory(i, t, w)
        BY DEF DataCacheInv, Kept
      <3>3. CASE Copies(b) = {}
        <4>1. Current(b) = unified_memory[<<i, t>>]
          BY <3>3, <2>1 DEF Current
        <4>2. \A l \in 0 .. 1 : ~(cache_data[i].line[l].valid /\ cache_data[i].line[l].tag = t)
          BY <3>3, <2>3
        <4>3. QED  BY <4>1, <4>2, <3>1, <3>2, <2>1 DEF KeptInMemory
      <3>4. CASE Copies(b) # {}
        <4>1. PICK l \in Copies(b) : l = CHOOSE x \in Copies(b) : TRUE
          BY <3>4
        <4>2. Current(b) = cache_data[i].line[l].data
          BY <4>1, <3>4, <2>2 DEF Current
        <4>3. l \in 0 .. 1 /\ cache_data[i].line[l].valid /\ cache_data[i].line[l].tag = t
          BY <2>3
        <4>4. QED  BY <4>2, <4>3, <3>1, <3>2, <2>1 DEF KeptInLine
      <3>5. QED  BY <3>3, <3>4
    <2>7. QED  BY <2>5, <2>6
  <1>2. QED  BY <1>1, DataCacheInvariant, PTL

\* A completed load returns what the last store to its word wrote, through
\* evictions, fills whose request was squashed, and stores that hit.
THEOREM LoadsReadLatestHolds == Spec => []LoadsReadLatest
  <1>1. DataCacheInv => LoadsReadLatest
    <2> SUFFICES ASSUME DataCacheInv, completed, real_request, ~dcache_in.is_store
                 PROVE  value = written[block][dcache_in.word]
      BY DEF LoadsReadLatest
    <2>1. CacheTypes
      BY DEF DataCacheInv
    <2>2. ~miss
      BY DEF completed, real_request
    <2>3. PICK i \in Indexes, l \in 0 .. 1, w \in Words :
            i = dcache_in.index /\ l = current_line_idx /\ w = dcache_in.word
      BY <2>1, RequestFacts, CurrentLine DEF CacheTypes
    <2>4. cache_data[i].line[l].valid /\ cache_data[i].line[l].tag = dcache_in.tag
      BY <2>1, <2>2, <2>3, CurrentLine
    <2>5. KeptInLine(i, l, w)
      BY DEF DataCacheInv, Kept
    <2>6. cache_data[i].line[l].data[w] = written[<<i, cache_data[i].line[l].tag>>][w]
      BY <2>4, <2>5 DEF KeptInLine, UnderWay
    <2>7. QED  BY <2>3, <2>4, <2>6 DEF value, current_set, block
  <1>2. QED  BY <1>1, DataCacheInvariant, PTL

-----------------------------------------------------------------------------
(* The instruction cache                                                   *)

Entries == [addr : Addresses, tag : 0 .. NUM_MEM_TAGS]

\* The cache's state is well formed: a set has one way to replace next.
IcacheTypes ==
  /\ PC \in 0 .. 2 * NumBlocks - 2
  /\ last_pc \in NoPC .. 2 * NumBlocks - 1
  /\ prefetch_state \in {"IDLE", "LOAD", "PREF"} /\ pref_adreg \in Addresses
  /\ miss_ack \subseteq {0, 1}
  /\ lines \in [Ways -> [Sets -> {Empty} \cup [addr : Blocks, data : Data]]]
  /\ nru_tab \in [Sets -> {{0}, {1}}]
  /\ queue \in Seq(Entries)
  /\ disp \in 0 .. Len(queue)

\* What is in the queue is not in the cache, nor twice in the queue.
Missing ==
  /\ \A k \in 1 .. Len(queue) : rd_valid(queue[k].addr) = {}
  /\ \A k, m \in 1 .. Len(queue) : Low(queue[k].addr) = Low(queue[m].addr) => k = m

\* Only blocks of the memory are ever sent: the prefetcher's may lie beyond it.
SentBlocks == \A k \in 1 .. disp : queue[k].addr \in Blocks

\* Two instructions of one block are sent together: the queue is never asked
\* for the second alone, which would make pri_addr 0.
AckTogether == inst_same => miss_ack \in {{}, {0, 1}}

IcacheInv ==
  /\ MemInv /\ IcacheTypes /\ DataTrue /\ AnswersInOrder /\ OneWay
  /\ Missing /\ SentBlocks /\ AckTogether

-----------------------------------------------------------------------------
\* Blocks, sets and addresses.
LEMMA AddressFacts ==
  /\ \A a \in Addresses : Low(a) \in Blocks /\ idx(a) \in Sets
  /\ \A b \in Blocks : Low(b) = b /\ b \in Addresses
  /\ 0 \in Blocks
  <1> USE IcacheAssumption
  <1>1. \A a \in Addresses : Low(a) \in 0 .. NumBlocks - 1
    BY DEF Low, Addresses
  <1>2. ASSUME NEW x \in Int PROVE x % ICACHE_LINE_NUM \in 0 .. ICACHE_LINE_NUM - 1
    OBVIOUS
  <1>3. \A a \in Addresses : idx(a) \in Sets
    <2>1. ASSUME NEW a \in Addresses PROVE idx(a) \in Sets
      <3>1. Low(a) \in Int
        BY <1>1
      <3>2. Low(a) % ICACHE_LINE_NUM \in 0 .. ICACHE_LINE_NUM - 1
        BY <3>1, <1>2
      <3>3. QED  BY <3>2 DEF idx, Sets
    <2>2. QED  BY <2>1
  <1>4. \A b \in 0 .. NumBlocks - 1 : b % NumBlocks = b
    OBVIOUS
  <1>5. \A b \in Blocks : Low(b) = b /\ b \in Addresses
    BY <1>4 DEF Low, Addresses
  <1>6. 0 \in Blocks
    OBVIOUS
  <1>7. \A a \in Addresses : Low(a) \in Blocks
    BY <1>1
  <1>8. QED  BY <1>3, <1>5, <1>6, <1>7

\* The blocks of the two instructions fetched.
LEMMA FetchedFacts ==
  ASSUME PC \in 0 .. 2 * NumBlocks - 2
  PROVE  \A i \in {0, 1} : fetched(i) \in Blocks
  BY IcacheAssumption DEF fetched, BlockOf

\* What the queue is asked for is a block that is in neither way.
LEMMA RequestMisses ==
  ASSUME IcacheTypes, AckTogether, NEW request \in BOOLEAN, mshr_Irequest(request)
  PROVE  /\ mshr_Iaddr(request) \in Addresses
         /\ rd_valid(mshr_Iaddr(request)) = {}
  <1>1. \A i \in {0, 1} : fetched(i) \in Addresses
    BY FetchedFacts, AddressFacts DEF IcacheTypes
  <1>2. CASE prefetch_state = "PREF"
    BY <1>2 DEF IcacheTypes, mshr_Iaddr, mshr_Irequest, pref_skip
  <1>3. CASE prefetch_state # "PREF"
    <2> DEFINE open == miss_request(request) \ miss_ack
    <2>1. open # {} /\ open \subseteq {0, 1} /\ mshr_Iaddr(request) = pri_addr(request)
      BY <1>3 DEF mshr_Iaddr, mshr_Irequest, pri_request, miss_request
    <2>2. \A i \in open : rd_valid(fetched(i)) = {}
      BY DEF miss_request, Icache_valid_out
    <2>3. CASE 0 \in open
      BY <2>1, <2>2, <2>3, <1>1 DEF pri_addr
    <2>4. CASE 0 \notin open
      <3>1. 1 \in open
        BY <2>1, <2>4
      <3>2. ~inst_same
        <4>1. SUFFICES ASSUME inst_same PROVE FALSE
          OBVIOUS
        <4>2. request /\ ~Icache_valid_out(1) /\ 1 \notin miss_ack
          BY <3>1 DEF miss_request
        <4>3. Icache_valid_out(0) = Icache_valid_out(1)
          BY <4>1 DEF inst_same, Icache_valid_out
        <4>4. 0 \in miss_ack
          BY <2>4, <4>2, <4>3 DEF miss_request
        <4>5. QED  BY <4>1, <4>2, <4>4 DEF AckTogether
      <3>3. mshr_Iaddr(request) = fetched(1)
        BY <2>1, <2>4, <3>1, <3>2 DEF pri_addr
      <3>4. QED  BY <3>1, <3>3, <2>2, <1>1
    <2>5. QED  BY <2>3, <2>4
  <1>4. QED  BY <1>2, <1>3

\* Whether an entry leaves the queue, and whether one gets its number.
Leaves(dvalid) == IF dvalid THEN 1 ELSE 0
Sends(request, dvalid, response) ==
  response # 0 /\ (head_en(request, dvalid) \/ ~queue_clear)

\* The queue after an edge: the oldest entry leaves with its answer, a new one
\* may enter, and the first that was not sent gets its number.
LEMMA QueueStep ==
  ASSUME IcacheTypes, NEW request \in BOOLEAN, NEW dvalid \in BOOLEAN,
         NEW response \in 0 .. NUM_MEM_TAGS, QueueEdge(request, dvalid, response),
         dvalid => disp > 0,
         head_en(request, dvalid) => mshr_Iaddr(request) \in Addresses
  PROVE  /\ queue' \in Seq(Entries)
         /\ Len(queue') = Len(queue) - Leaves(dvalid) + (IF head_en(request, dvalid) THEN 1 ELSE 0)
         /\ disp' = disp - Leaves(dvalid) + (IF Sends(request, dvalid, response) THEN 1 ELSE 0)
         /\ disp' \in 0 .. Len(queue')
         /\ \A k \in 1 .. Len(queue') :
              /\ queue'[k].addr = IF k <= Len(queue) - Leaves(dvalid)
                                  THEN queue[k + Leaves(dvalid)].addr ELSE mshr_Iaddr(request)
              /\ queue'[k].tag = IF Sends(request, dvalid, response) /\ k = disp - Leaves(dvalid) + 1
                                 THEN response
                                 ELSE IF k <= Len(queue) - Leaves(dvalid)
                                 THEN queue[k + Leaves(dvalid)].tag ELSE 0
         /\ Sends(request, dvalid, response) =>
              queue'[disp - Leaves(dvalid) + 1].addr = Icache2mem_addr(request)
  <1> DEFINE enters == head_en(request, dvalid)
             I == mshr_Iaddr(request)
             new == [addr |-> I, tag |-> 0]
             kept == IF dvalid THEN Tail(queue) ELSE queue
             all == IF enters THEN Append(kept, new) ELSE kept
             d == Leaves(dvalid)
             sent == Sends(request, dvalid, response)
             left == disp - d
  <1>a. d \in 0 .. 1 /\ d = (IF dvalid THEN 1 ELSE 0)
    BY DEF Leaves
  <1>b. sent \in BOOLEAN /\ (sent <=> response # 0 /\ (enters \/ ~queue_clear))
    BY DEF Sends
  <1> HIDE DEF d, sent
  <1>1. /\ queue \in Seq(Entries) /\ disp \in 0 .. Len(queue) /\ Len(queue) \in Nat
    BY LenProperties DEF IcacheTypes
  <1>2. /\ queue' = IF sent THEN [all EXCEPT ![left + 1].tag = response] ELSE all
        /\ disp' = IF sent THEN left + 1 ELSE left
    <2>1. left = IF dvalid THEN disp - 1 ELSE disp
      BY <1>a, <1>1
    <2>2. /\ queue' = IF sent THEN [all EXCEPT ![(IF dvalid THEN disp - 1 ELSE disp) + 1].tag = response]
                      ELSE all
          /\ disp' = IF sent THEN (IF dvalid THEN disp - 1 ELSE disp) + 1
                     ELSE (IF dvalid THEN disp - 1 ELSE disp)
      BY Zenon DEF QueueEdge, Sends, sent
    <2> HIDE DEF left, all
    <2>3. QED  BY <2>1, <2>2
  <1>3. /\ kept \in Seq(Entries) /\ Len(kept) = Len(queue) - d
        /\ \A k \in 1 .. Len(queue) - d : kept[k] = queue[k + d]
    <2>1. CASE dvalid
      <3>1. queue # <<>>
        BY <1>a, <2>1, <1>1
      <3>2. QED  BY <1>a, <2>1, <3>1, <1>1, HeadTailProperties
    <2>2. CASE ~dvalid
      BY <1>a, <2>2, <1>1
    <2>3. QED  BY <2>1, <2>2
  <1>4. enters => new \in Entries
    BY MemoryAssumption DEF Entries
  <1>5. \A k \in 1 .. Len(queue) - d : queue[k + d] \in Entries
    BY <1>a, <1>1, ElementOfSeq
  <1> HIDE DEF kept, new, enters, I
  <1>6. /\ all \in Seq(Entries)
        /\ Len(all) = Len(queue) - d + (IF enters THEN 1 ELSE 0)
        /\ \A k \in 1 .. Len(all) : all[k] = IF k <= Len(queue) - d THEN queue[k + d] ELSE new
    <2>1. CASE enters
      <3>1. /\ all = Append(kept, new) /\ new \in Entries
        BY <2>1, <1>4
      <3>2. /\ Append(kept, new) \in Seq(Entries)
            /\ Len(Append(kept, new)) = Len(kept) + 1
            /\ \A k \in 1 .. Len(kept) : Append(kept, new)[k] = kept[k]
            /\ Append(kept, new)[Len(kept) + 1] = new
        BY <3>1, <1>3, AppendProperties
      <3>3. Len(all) = Len(queue) - d + 1
        BY <1>a, <2>1, <3>1, <3>2, <1>1, <1>3
      <3>4. ASSUME NEW k \in 1 .. Len(all)
            PROVE  all[k] = IF k <= Len(queue) - d THEN queue[k + d] ELSE new
        <4>1. k <= Len(queue) - d => all[k] = kept[k] /\ k \in 1 .. Len(queue) - d
          BY <1>a, <3>1, <3>2, <1>1, <1>3
        <4>2. k > Len(queue) - d => k = Len(kept) + 1
          BY <1>a, <3>3, <1>1, <1>3
        <4>3. QED  BY <4>1, <4>2, <3>1, <3>2, <1>1, <1>3, <1>a
      <3>5. QED  BY <2>1, <3>1, <3>2, <3>3, <3>4
    <2>2. CASE ~enters
      BY <1>a, <2>2, <1>1, <1>3
    <2>3. QED  BY <2>1, <2>2
  <1> HIDE DEF all
  <1>7. \A k \in 1 .. Len(all) : all[k] \in Entries
    BY <1>6, ElementOfSeq
  <1>8. disp' = disp - d + (IF sent THEN 1 ELSE 0) /\ left \in 0 .. Len(queue) - d
    BY <1>a, <1>1, <1>2
  <1>9. sent => left + 1 \in 1 .. Len(all)
    <2>1. sent => enters \/ disp # Len(queue)
      BY <1>b DEF enters, queue_clear
    <2>2. QED  BY <1>a, <2>1, <1>1, <1>6, <1>8
  <1>10. /\ queue' \in Seq(Entries) /\ Len(queue') = Len(all)
         /\ \A k \in 1 .. Len(all) :
              /\ queue'[k].addr = all[k].addr
              /\ queue'[k].tag = IF sent /\ k = left + 1 THEN response ELSE all[k].tag
    <2>1. CASE sent
      <3> DEFINE n == left + 1
                 e == [all[n] EXCEPT !.tag = response]
      <3>1. n \in 1 .. Len(all) /\ all[n] \in Entries
        BY <2>1, <1>7, <1>9
      <3>2. e \in Entries /\ e.addr = all[n].addr /\ e.tag = response
        BY <3>1 DEF Entries
      <3>3. queue' = [all EXCEPT ![n] = e]
        BY <2>1, <1>2
      <3> HIDE DEF n, e
      <3>4. /\ [all EXCEPT ![n] = e] \in Seq(Entries)
            /\ Len([all EXCEPT ![n] = e]) = Len(all)
            /\ \A k \in 1 .. Len(all) : [all EXCEPT ![n] = e][k] = IF k = n THEN e ELSE all[k]
        BY <3>1, <3>2, <1>6, ExceptSeq
      <3>5. QED  BY <2>1, <3>2, <3>3, <3>4 DEF n
    <2>2. CASE ~sent
      BY <2>2, <1>2, <1>6
    <2>3. QED  BY <2>1, <2>2
  <1>11. new.addr = I /\ new.tag = 0
    BY DEF new
  <1>12. sent => queue'[left + 1].addr = Icache2mem_addr(request)
    <2>1. SUFFICES ASSUME sent PROVE all[left + 1].addr = Icache2mem_addr(request)
      BY <1>9, <1>10
    <2>2. CASE queue_clear
      <3>1. left + 1 > Len(queue) - d
        BY <1>a, <2>2, <1>1 DEF queue_clear
      <3>2. all[left + 1] = new
        BY <1>a, <2>1, <3>1, <1>1, <1>6, <1>9
      <3>3. QED  BY <2>2, <3>2, <1>11 DEF Icache2mem_addr, I
    <2>3. CASE ~queue_clear
      <3>1. left + 1 <= Len(queue) - d
        BY <1>a, <2>3, <1>1 DEF queue_clear
      <3>2. all[left + 1] = queue[left + 1 + d] /\ left + 1 + d = disp + 1
        BY <1>a, <2>1, <3>1, <1>1, <1>6, <1>9
      <3>3. QED  BY <2>3, <3>2 DEF Icache2mem_addr
    <2>4. QED  BY <2>2, <2>3
  <1>13. disp' \in 0 .. Len(queue')
    BY <1>a, <1>1, <1>6, <1>8, <1>9, <1>10
  <1>14. ASSUME NEW k \in 1 .. Len(queue')
         PROVE  /\ queue'[k].addr = IF k <= Len(queue) - d THEN queue[k + d].addr ELSE I
                /\ queue'[k].tag = IF sent /\ k = left + 1 THEN response
                                   ELSE IF k <= Len(queue) - d THEN queue[k + d].tag ELSE 0
    BY <1>6, <1>10, <1>11
  <1>15. QED  BY <1>6, <1>8, <1>10, <1>12, <1>13, <1>14 DEF I, enters, d, sent

-----------------------------------------------------------------------------
\* A clock edge keeps the invariant.
LEMMA ClockKeeps ==
  ASSUME IcacheInv, NEW squash_en \in BOOLEAN, NEW dp_stall \in BOOLEAN,
         NEW dcache \in BOOLEAN, Clock(squash_en, dp_stall, dcache)
  PROVE  IcacheInv'
  <1> DEFINE request == ~dp_stall /\ ~squash_en
             c == proc2mem_command(request, dcache)
             response == mem2Icache_response(request, dcache)
             dvalid == queue_dvalid(mem2proc_tag(c))
             I == mshr_Iaddr(request)
             enters == head_en(request, dvalid)
             first == queue[1].addr
  <1>1. /\ MemInv /\ IcacheTypes /\ DataTrue /\ AnswersInOrder /\ OneWay
        /\ Missing /\ SentBlocks /\ AckTogether
    BY DEF IcacheInv
  <1>2. /\ MemEdge(c)
        /\ QueueEdge(request, dvalid, response)
        /\ PrefetchEdge(request, squash_en)
        /\ MissAckEdge(request, squash_en, response # 0)
        /\ Fill(dvalid, mem2proc_data(c))
        /\ NruEdge(dvalid)
        /\ FetchEdge(request, squash_en, dp_stall)
    BY Zenon DEF Clock
  <1>3. request \in BOOLEAN /\ dvalid \in BOOLEAN
    BY DEF queue_dvalid
  <1>4. c.command = (IF dcache THEN "BUS_LOAD" ELSE Icache2mem_command(request))
        /\ c.addr = (IF dcache THEN 0 ELSE Icache2mem_addr(request))
    BY DEF proc2mem_command, NoCommand
  <1>5. c.command \in {"BUS_NONE", "BUS_LOAD"}
    BY <1>4 DEF Icache2mem_command
  <1>6. response \in 0 .. NUM_MEM_TAGS
    <2> HIDE DEF c
    <2>1. mem2proc_response(c) \in 0 .. NUM_MEM_TAGS
      BY <1>1, Response
    <2>2. response \in {0, mem2proc_response(c)}
      BY DEF mem2Icache_response, c
    <2>3. QED  BY <2>1, <2>2, MemoryAssumption
  <1>7. response # 0 =>
          /\ response = mem2proc_response(c) /\ response \in MemTags
          /\ c.command = "BUS_LOAD" /\ c.addr = Icache2mem_addr(request) /\ c.addr \in Blocks
          /\ cycles_left[response] = 0 /\ response \notin waiting_for_bus
    <2> SUFFICES ASSUME response # 0
                 PROVE  /\ response = mem2proc_response(c) /\ response \in MemTags
                        /\ c.command = "BUS_LOAD" /\ c.addr = Icache2mem_addr(request)
                        /\ c.addr \in Blocks
                        /\ cycles_left[response] = 0 /\ response \notin waiting_for_bus
      OBVIOUS
    <2>1. ~dcache /\ Icache2mem_command(request) # "BUS_NONE" /\ response = mem2proc_response(c)
      BY DEF mem2Icache_response
    <2>2. c.command = "BUS_LOAD" /\ c.addr = Icache2mem_addr(request)
      BY <2>1, <1>4, <1>5
    <2> HIDE DEF c, response
    <2>3. QED  BY <2>1, <2>2, <1>1, Response
  <1>8. /\ MemInv'
        /\ \A i \in MemTags :
             /\ cycles_left'[i] = IF cycles_left[i] > 0 THEN cycles_left[i] - 1
                                  ELSE IF i = mem2proc_response(c) THEN LATENCY ELSE 0
             /\ loaded_data'[i] = IF c.command = "BUS_LOAD" /\ i = mem2proc_response(c)
                                  THEN unified_memory[c.addr] ELSE loaded_data[i]
        /\ \A i : i \in waiting_for_bus' <=>
                    \/ i \in waiting_for_bus /\ cycles_left[i] # 1
                    \/ c.command = "BUS_LOAD" /\ i = mem2proc_response(c) /\ i # 0
    <2> HIDE DEF c
    <2>1. QED  BY <1>1, <1>2, <1>5, MemStep
  <1>9. unified_memory' = unified_memory
    BY <1>2, <1>5 DEF MemEdge
  <1>10. /\ queue \in Seq(Entries) /\ Len(queue) \in Nat /\ disp \in 0 .. Len(queue)
         /\ \A k \in 1 .. Len(queue) : /\ queue[k] \in Entries
                                       /\ queue[k].addr \in Addresses
    <2>1. /\ queue \in Seq(Entries) /\ Len(queue) \in Nat /\ disp \in 0 .. Len(queue)
      BY <1>1, LenProperties DEF IcacheTypes
    <2>2. \A k \in 1 .. Len(queue) : queue[k] \in Entries
      BY <2>1, ElementOfSeq
    <2>3. QED  BY <2>1, <2>2 DEF Entries
  <1>11. \A k \in 1 .. disp :
           /\ queue[k].tag \in waiting_for_bus /\ queue[k].tag \in MemTags
           /\ cycles_left[queue[k].tag] \in 1 .. LATENCY
           /\ loaded_data[queue[k].tag] = unified_memory[queue[k].addr]
           /\ queue[k].addr \in Blocks
           /\ k < disp => cycles_left[queue[k].tag] < cycles_left[queue[k + 1].tag]
    BY <1>1, MemoryAssumption DEF AnswersInOrder, SentBlocks, MemInv, MemTypes, Scheduled
  \* Only the oldest miss can have one cycle left, and then it is answered.
  <1>12. \A k \in 1 .. disp : cycles_left[queue[k].tag] = 1 => k = 1 /\ dvalid
    <2> SUFFICES ASSUME NEW k \in 1 .. disp, cycles_left[queue[k].tag] = 1
                 PROVE  k = 1 /\ dvalid
      OBVIOUS
    <2>1. k = 1
      <3>1. SUFFICES ASSUME k > 1 PROVE FALSE
        BY <1>10
      <3>2. k - 1 \in 1 .. disp /\ k - 1 < disp
        BY <3>1, <1>10
      <3>3. /\ cycles_left[queue[k - 1].tag] < cycles_left[queue[(k - 1) + 1].tag]
            /\ cycles_left[queue[k - 1].tag] \in 1 .. LATENCY
        BY <3>2, <1>11
      <3>4. (k - 1) + 1 = k
        OBVIOUS
      <3>5. QED  BY <3>3, <3>4, MemoryAssumption
    <2>2. queue[1].tag \in waiting_for_bus /\ cycles_left[queue[1].tag] = 1 /\ queue[1].tag # 0
      BY <2>1, <1>11 DEF MemTags
    <2> HIDE DEF c
    <2>3. mem2proc_tag(c) = queue[1].tag
      BY <2>2, <1>1, Answer
    <2>4. QED  BY <2>1, <2>2, <2>3, <1>10 DEF queue_dvalid
  <1>13. dvalid => /\ disp > 0 /\ first \in Blocks /\ first \in Addresses /\ Low(first) = first
                   /\ rd_valid(first) = {}
                   /\ mem2proc_data(c) = unified_memory[first]
                   /\ unified_memory[first] \in Data
    <2> SUFFICES ASSUME dvalid
                 PROVE  /\ disp > 0 /\ first \in Blocks /\ first \in Addresses
                        /\ Low(first) = first /\ rd_valid(first) = {}
                        /\ mem2proc_data(c) = unified_memory[first]
                        /\ unified_memory[first] \in Data
      OBVIOUS
    <2>1. disp > 0 /\ mem2proc_tag(c) = queue[1].tag /\ mem2proc_tag(c) # 0
      BY DEF queue_dvalid
    <2> HIDE DEF c
    <2>2. mem2proc_data(c) = loaded_data[queue[1].tag]
      BY <2>1, <1>1, Answer
    <2>3. 1 \in 1 .. disp /\ 1 \in 1 .. Len(queue)
      BY <2>1, <1>10
    <2>4. rd_valid(first) = {}
      BY <2>3, <1>1 DEF Missing
    <2>5. QED  BY <2>1, <2>2, <2>3, <2>4, <1>1, <1>11, AddressFacts DEF MemInv, MemTypes
  <1>14. mshr_Irequest(request) => I \in Addresses /\ rd_valid(I) = {}
    <2> HIDE DEF request
    <2>1. QED  BY <1>1, <1>3, RequestMisses
  <1>15. enters => /\ I \in Addresses /\ rd_valid(I) = {}
                   /\ \A k \in 1 .. Len(queue) : Low(queue[k].addr) # Low(I)
    <2>1. enters => mshr_Irequest(request) /\ ~addr_same(I)
      BY DEF head_en
    <2>2. DOMAIN queue = 1 .. Len(queue)
      BY <1>10, LenProperties
    <2>3. QED  BY <2>1, <2>2, <1>14 DEF addr_same
  <1> DEFINE d == Leaves(dvalid)
             sent == Sends(request, dvalid, response)
  <1>16. /\ d \in 0 .. 1 /\ d = (IF dvalid THEN 1 ELSE 0)
         /\ sent \in BOOLEAN /\ (sent <=> response # 0 /\ (enters \/ ~queue_clear))
    BY DEF Leaves, Sends
  <1>17. /\ queue' \in Seq(Entries) /\ Len(queue') \in Nat
         /\ Len(queue') = Len(queue) - d + (IF enters THEN 1 ELSE 0)
         /\ disp' = disp - d + (IF sent THEN 1 ELSE 0)
         /\ disp' \in 0 .. Len(queue')
         /\ \A k \in 1 .. Len(queue') :
              /\ queue'[k].addr = IF k <= Len(queue) - d THEN queue[k + d].addr ELSE I
              /\ queue'[k].tag = IF sent /\ k = disp - d + 1 THEN response
                                 ELSE IF k <= Len(queue) - d THEN queue[k + d].tag ELSE 0
         /\ sent => queue'[disp - d + 1].addr = c.addr
    <2>1. dvalid => disp > 0
      BY <1>13
    <2>3. sent => Icache2mem_addr(request) = c.addr
      BY <1>7, <1>16
    <2>2. enters => I \in Addresses
      BY <1>15
    <2> HIDE DEF request, response, dvalid, c
    <2>4. /\ queue' \in Seq(Entries)
          /\ Len(queue') = Len(queue) - d + (IF enters THEN 1 ELSE 0)
          /\ disp' = disp - d + (IF sent THEN 1 ELSE 0)
          /\ disp' \in 0 .. Len(queue')
          /\ \A k \in 1 .. Len(queue') :
               /\ queue'[k].addr = IF k <= Len(queue) - d THEN queue[k + d].addr ELSE I
               /\ queue'[k].tag = IF sent /\ k = disp - d + 1 THEN response
                                  ELSE IF k <= Len(queue) - d THEN queue[k + d].tag ELSE 0
          /\ sent => queue'[disp - d + 1].addr = Icache2mem_addr(request)
      BY <2>1, <2>2, <1>1, <1>2, <1>3, <1>6, QueueStep
    <2>5. Len(queue') \in Nat
      BY <2>4, LenProperties
    <2>6. QED  BY <2>3, <2>4, <2>5
  <1>18. /\ lines' \in [Ways -> [Sets -> {Empty} \cup [addr : Blocks, data : Data]]]
         /\ \A w \in Ways, t \in Sets :
              lines'[w][t] = IF dvalid /\ t = idx(first) /\ w \in nru_tab[t]
                             THEN [addr |-> first, data |-> unified_memory[first]]
                             ELSE lines[w][t]
    <2> DEFINE L == {Empty} \cup [addr : Blocks, data : Data]
               N == [addr |-> first, data |-> unified_memory[first]]
    <2>1. lines \in [Ways -> [Sets -> L]]
      BY <1>1 DEF IcacheTypes
    <2>2. CASE dvalid
      <3>1. first \in Addresses /\ idx(first) \in Sets /\ N \in L
        BY <2>2, <1>13, AddressFacts
      <3>2. lines' = [w \in Ways |-> IF w \notin nru_tab[idx(first)] THEN lines[w]
                                     ELSE [lines[w] EXCEPT ![idx(first)] = N]]
        BY <2>2, <1>2, <1>13, Zenon DEF Fill, wr_en
      <3> HIDE DEF N, L, dvalid, first
      <3>3. ASSUME NEW w \in Ways
            PROVE  /\ lines'[w] \in [Sets -> L]
                   /\ \A t \in Sets :
                        lines'[w][t] = IF t = idx(first) /\ w \in nru_tab[t] THEN N
                                       ELSE lines[w][t]
        <4>1. lines'[w] = IF w \notin nru_tab[idx(first)] THEN lines[w]
                          ELSE [lines[w] EXCEPT ![idx(first)] = N]
          BY <3>2
        <4>2. lines[w] \in [Sets -> L]
          BY <2>1
        <4>3. CASE w \in nru_tab[idx(first)]
          BY <4>1, <4>2, <4>3, <3>1
        <4>4. CASE w \notin nru_tab[idx(first)]
          BY <4>1, <4>2, <4>4
        <4>5. QED  BY <4>3, <4>4
      <3>4. lines' \in [Ways -> [Sets -> L]]
        BY <3>2, <3>3
      <3>5. QED  BY <2>2, <3>3, <3>4 DEF N, L
    <2>3. CASE ~dvalid
      <3>1. lines' = [w \in Ways |-> lines[w]]
        BY <2>3, <1>2, Zenon DEF Fill, wr_en
      <3>2. lines' = lines
        BY <3>1, <2>1
      <3>3. QED  BY <2>1, <2>3, <3>2
    <2>4. QED  BY <2>2, <2>3
  <1>19. \A t \in Sets : nru_tab[t] = {0} \/ nru_tab[t] = {1}
    BY <1>1 DEF IcacheTypes
  \* A block that is not there and is not filled is not there afterwards.
  <1>20. ASSUME NEW a \in Addresses, rd_valid(a) = {}, dvalid => Low(a) # first
         PROVE  rd_valid(a)' = {}
    <2> SUFFICES ASSUME NEW w \in Ways PROVE lines'[w][idx(a)].addr # Low(a)
      BY DEF rd_valid, Low, idx
    <2>1. idx(a) \in Sets
      BY AddressFacts
    <2>2. lines[w][idx(a)].addr # Low(a)
      BY <1>20 DEF rd_valid
    <2>3. \/ lines'[w][idx(a)] = lines[w][idx(a)]
          \/ dvalid /\ lines'[w][idx(a)].addr = first
      BY <2>1, <1>18
    <2>4. QED  BY <2>2, <2>3, <1>20
  \* A block is in at most one way.
  <1>21. ASSUME NEW a \in Addresses PROVE rd_valid(a) \in {{}, {0}, {1}}
    <2>1. idx(a) \in Sets /\ Low(a) \in Blocks
      BY AddressFacts
    <2>2. lines[0][idx(a)] = Empty \/ lines[0][idx(a)].addr # lines[1][idx(a)].addr
      BY <2>1, <1>1 DEF OneWay
    <2>3. Empty.addr # Low(a)
      BY <2>1, IcacheAssumption DEF Empty
    <2>4. ~(lines[0][idx(a)].addr = Low(a) /\ lines[1][idx(a)].addr = Low(a))
      BY <2>2, <2>3
    <2>5. QED  BY <2>4 DEF rd_valid, Ways
  <1>22. \A i \in {0, 1} : fetched(i) \in Addresses
    BY <1>1, FetchedFacts, AddressFacts DEF IcacheTypes
  <1> HIDE DEF d, sent, c, response, dvalid, I, enters, first
  <1>23. IcacheTypes'
    <2>1. PC' \in 0 .. 2 * NumBlocks - 2
      <3>1. PC' \in Targets \/ PC' = PC
        BY <1>2 DEF FetchEdge
      <3>2. QED  BY <3>1, <1>1, IcacheAssumption DEF IcacheTypes
    <2>2. prefetch_state' \in {"IDLE", "LOAD", "PREF"}
      BY <1>1, <1>2 DEF PrefetchEdge, prefetch_state_n, IcacheTypes
    <2>3. last_pc' \in NoPC .. 2 * NumBlocks - 1
      <3>1. last_pc' \in {PC + 1, last_pc}
        BY <1>2 DEF FetchEdge
      <3>2. QED  BY <3>1, <1>1, IcacheAssumption DEF IcacheTypes, NoPC
    <2>4. pref_adreg' \in Addresses
      <3>1. \A x \in Int : x % (2 * NumBlocks) \in 0 .. 2 * NumBlocks - 1
        BY IcacheAssumption
      <3>2. 0 \in 0 .. 2 * NumBlocks - 1
        BY IcacheAssumption
      <3>3. \E x \in Int : pref_adreg' = x % (2 * NumBlocks) \/ pref_adreg' = pref_adreg
                           \/ pref_adreg' = 0
        <4>1. BlockOf(last_pc) + 1 \in Int /\ pref_adreg + 1 \in Int
          BY <1>1, IcacheAssumption DEF IcacheTypes, BlockOf, NoPC, Addresses
        <4>2. CASE prefetch_state = "IDLE"
          BY <4>2, <1>2 DEF PrefetchEdge
        <4>3. CASE prefetch_state = "LOAD"
          BY <4>1, <4>3, <1>2 DEF PrefetchEdge
        <4>4. CASE prefetch_state = "PREF"
          BY <4>1, <4>4, <1>2 DEF PrefetchEdge
        <4>5. QED  BY <4>2, <4>3, <4>4, <1>1 DEF IcacheTypes
      <3>4. pref_adreg \in Addresses
        BY <1>1 DEF IcacheTypes
      <3>5. QED  BY <3>1, <3>2, <3>3, <3>4 DEF Addresses
    <2>5. miss_ack' \subseteq {0, 1}
      BY <1>1, <1>2 DEF MissAckEdge, IcacheTypes
    <2>6. nru_tab' \in [Sets -> {{0}, {1}}]
      <3> DEFINE W(tab, i) ==
                   IF Icache_valid_out(i) /\ change_pc
                   THEN [tab EXCEPT ![idx(fetched(i))] = Ways \ rd_valid(fetched(i))]
                   ELSE IF wr_en(dvalid) # {}
                   THEN [tab EXCEPT ![idx(first)] = Ways \ wr_en(dvalid)]
                   ELSE tab
      <3>1. ASSUME NEW tab \in [Sets -> {{0}, {1}}], NEW i \in {0, 1}
            PROVE  W(tab, i) \in [Sets -> {{0}, {1}}]
        <4>1. CASE Icache_valid_out(i) /\ change_pc
          <5>1. rd_valid(fetched(i)) \in {{0}, {1}}
            BY <4>1, <1>21, <1>22 DEF Icache_valid_out
          <5>2. Ways \ rd_valid(fetched(i)) \in {{0}, {1}}
            BY <5>1 DEF Ways
          <5>3. QED  BY <4>1, <5>2
        <4>2. CASE ~(Icache_valid_out(i) /\ change_pc) /\ wr_en(dvalid) # {}
          <5>1. dvalid /\ wr_en(dvalid) = nru_tab[idx(first)]
            BY <4>2 DEF wr_en, first
          <5>2. idx(first) \in Sets
            BY <5>1, <1>13, AddressFacts
          <5>3. Ways \ wr_en(dvalid) \in {{0}, {1}}
            <6>1. nru_tab[idx(first)] = {0} \/ nru_tab[idx(first)] = {1}
              BY <5>2, <1>19
            <6>2. Ways \ {0} = {1} /\ Ways \ {1} = {0}
              BY DEF Ways
            <6>3. QED  BY <6>1, <6>2, <5>1
          <5>4. QED  BY <4>2, <5>3
        <4>3. CASE ~(Icache_valid_out(i) /\ change_pc) /\ wr_en(dvalid) = {}
          BY <4>3
        <4>4. QED  BY <4>1, <4>2, <4>3
      <3>2. nru_tab' = W(W(nru_tab, 0), 1)
        BY <1>2, Zenon DEF NruEdge, first
      <3> HIDE DEF W
      <3>3. QED  BY <3>1, <3>2, <1>1 DEF IcacheTypes
    <2>7. QED  BY <2>1, <2>2, <2>3, <2>4, <2>5, <2>6, <1>17, <1>18 DEF IcacheTypes
  <1>24. DataTrue'
    <2> SUFFICES ASSUME NEW w \in Ways, NEW t \in Sets, lines'[w][t] # Empty
                 PROVE  lines'[w][t].data = unified_memory[lines'[w][t].addr]
      BY <1>9 DEF DataTrue, Empty, ZeroData
    <2>1. CASE dvalid /\ t = idx(first) /\ w \in nru_tab[t]
      <3>1. lines'[w][t] = [addr |-> first, data |-> unified_memory[first]]
        BY <2>1, <1>18
      <3>2. QED  BY <3>1
    <2>2. CASE ~(dvalid /\ t = idx(first) /\ w \in nru_tab[t])
      <3>1. lines'[w][t] = lines[w][t]
        BY <2>2, <1>18
      <3>2. QED  BY <3>1, <1>1 DEF DataTrue
    <2>3. QED  BY <2>1, <2>2
  <1>25. OneWay'
    <2>1. \A t \in Sets : nru_tab'[t] # {}
      <3>1. nru_tab' \in [Sets -> {{0}, {1}}]
        BY <1>23 DEF IcacheTypes
      <3>2. \A t \in Sets : nru_tab'[t] \in {{0}, {1}}
        BY <3>1
      <3>3. QED  BY <3>2
    <2>2. ASSUME NEW t \in Sets
          PROVE  lines'[0][t] = Empty \/ lines'[0][t].addr # lines'[1][t].addr
      <3>1. 0 \in Ways /\ 1 \in Ways
        BY DEF Ways
      <3>2. lines[0][t] = Empty \/ lines[0][t].addr # lines[1][t].addr
        BY <1>1 DEF OneWay
      <3>3. CASE dvalid /\ t = idx(first)
        <4>1. lines[0][t].addr # first /\ lines[1][t].addr # first
          BY <3>1, <3>3, <1>13 DEF rd_valid
        <4>2. CASE nru_tab[t] = {0}
          <5>1. lines'[0][t].addr = first
            BY <4>2, <3>1, <3>3, <1>18
          <5>2. lines'[1][t] = lines[1][t]
            BY <4>2, <3>1, <1>18
          <5>3. QED  BY <5>1, <5>2, <4>1
        <4>3. CASE nru_tab[t] = {1}
          <5>1. lines'[1][t].addr = first
            BY <4>3, <3>1, <3>3, <1>18
          <5>2. lines'[0][t] = lines[0][t]
            BY <4>3, <3>1, <1>18
          <5>3. QED  BY <5>1, <5>2, <4>1
        <4>4. QED  BY <4>2, <4>3, <1>19
      <3>4. CASE ~(dvalid /\ t = idx(first))
        <4>1. lines'[0][t] = lines[0][t] /\ lines'[1][t] = lines[1][t]
          BY <3>1, <3>4, <1>18
        <4>2. QED  BY <4>1, <3>2
      <3>5. QED  BY <3>3, <3>4
    <2>3. Empty' = Empty
      BY DEF Empty, ZeroData
    <2>4. QED  BY <2>1, <2>2, <2>3 DEF OneWay
  <1>26. Missing'
    <2>1. ASSUME NEW k \in 1 .. Len(queue')
          PROVE  \/ /\ k <= Len(queue) - d
                    /\ k + d \in 1 .. Len(queue)
                    /\ queue'[k].addr = queue[k + d].addr
                 \/ /\ k = Len(queue) - d + 1 /\ enters
                    /\ queue'[k].addr = I
      <3>1. queue'[k].addr = IF k <= Len(queue) - d THEN queue[k + d].addr ELSE I
        BY <1>17
      <3>2. CASE k <= Len(queue) - d
        <4>1. k + d \in 1 .. Len(queue)
          BY <3>2, <1>10, <1>16
        <4>2. QED  BY <3>1, <3>2, <4>1
      <3>3. CASE k > Len(queue) - d
        <4>1. k = Len(queue) - d + 1 /\ enters
          <5>1. Len(queue') = Len(queue) - d + (IF enters THEN 1 ELSE 0)
            BY <1>17
          <5>2. Len(queue) \in Nat /\ d \in 0 .. 1
            BY <1>10, <1>16
          <5>3. enters
            BY <5>1, <5>2, <3>3
          <5>4. QED  BY <5>1, <5>2, <5>3, <3>3
        <4>2. ~(k <= Len(queue) - d)
          BY <3>3, <1>10, <1>16
        <4>3. QED  BY <3>1, <4>1, <4>2
      <3>4. QED  BY <3>2, <3>3, <1>10, <1>16
    <2>2. ASSUME NEW k \in 1 .. Len(queue') PROVE rd_valid(queue[k].addr)' = {}
      <3>1. PICK a : a = queue'[k].addr
        OBVIOUS
      <3>2. CASE k <= Len(queue) - d /\ k + d \in 1 .. Len(queue) /\ a = queue[k + d].addr
        <4>1. a \in Addresses /\ rd_valid(a) = {}
          BY <3>2, <1>1, <1>10 DEF Missing
        <4>2. ASSUME dvalid PROVE Low(a) # first
          <5>1. d = 1 /\ 1 \in 1 .. Len(queue) /\ k + d # 1
            BY <4>2, <1>10, <1>13, <1>16
          <5>2. Low(queue[k + d].addr) # Low(queue[1].addr)
            BY <5>1, <3>2, <1>1 DEF Missing
          <5>3. QED  BY <5>2, <3>2, <4>2, <1>13 DEF first
        <4>3. rd_valid(a)' = {}
          BY <4>1, <4>2, <1>20
        <4>4. QED  BY <4>3, <3>1 DEF rd_valid, idx, Low
      <3>3. CASE enters /\ a = I
        <4>1. a \in Addresses /\ rd_valid(a) = {}
          BY <3>3, <1>15
        <4>2. ASSUME dvalid PROVE Low(a) # first
          <5>1. 1 \in 1 .. Len(queue)
            BY <4>2, <1>10, <1>13
          <5>2. QED  BY <5>1, <3>3, <4>2, <1>13, <1>15 DEF first
        <4>3. rd_valid(a)' = {}
          BY <4>1, <4>2, <1>20
        <4>4. QED  BY <4>3, <3>1 DEF rd_valid, idx, Low
      <3>4. QED  BY <2>1, <3>1, <3>2, <3>3
    <2>3. ASSUME NEW k \in 1 .. Len(queue'), NEW m \in 1 .. Len(queue'),
                 Low(queue'[k].addr) = Low(queue'[m].addr)
          PROVE  k = m
      <3>1. CASE k <= Len(queue) - d /\ m <= Len(queue) - d
        <4>1. /\ k + d \in 1 .. Len(queue) /\ m + d \in 1 .. Len(queue)
              /\ queue'[k].addr = queue[k + d].addr /\ queue'[m].addr = queue[m + d].addr
          BY <3>1, <2>1, <1>10, <1>16
        <4>2. k + d = m + d
          BY <4>1, <2>3, <1>1 DEF Missing
        <4>3. QED  BY <4>2, <1>16
      <3>2. CASE k > Len(queue) - d /\ m > Len(queue) - d
        BY <3>2, <2>1, <1>10, <1>16
      <3>3. CASE k <= Len(queue) - d /\ m > Len(queue) - d
        <4>1. k + d \in 1 .. Len(queue) /\ queue'[k].addr = queue[k + d].addr
          BY <3>3, <2>1, <1>10, <1>16
        <4>2. enters /\ queue'[m].addr = I
          BY <3>3, <2>1, <1>10, <1>16
        <4>3. QED  BY <4>1, <4>2, <2>3, <1>15
      <3>4. CASE k > Len(queue) - d /\ m <= Len(queue) - d
        <4>1. m + d \in 1 .. Len(queue) /\ queue'[m].addr = queue[m + d].addr
          BY <3>4, <2>1, <1>10, <1>16
        <4>2. enters /\ queue'[k].addr = I
          BY <3>4, <2>1, <1>10, <1>16
        <4>3. QED  BY <4>1, <4>2, <2>3, <1>15
      <3>5. QED  BY <3>1, <3>2, <3>3, <3>4, <1>10, <1>16
    <2>4. QED  BY <2>2, <2>3 DEF Missing, Low
  <1>27. ASSUME NEW k \in 1 .. disp'
         PROVE  \/ /\ k + d \in 1 .. disp
                   /\ queue'[k].tag = queue[k + d].tag
                   /\ queue'[k].addr = queue[k + d].addr
                \/ /\ sent /\ k = disp'
                   /\ queue'[k].tag = response
                   /\ queue'[k].addr = c.addr
    <2>1. k \in 1 .. Len(queue') /\ disp' = disp - d + (IF sent THEN 1 ELSE 0)
      BY <1>17
    <2>2. CASE k <= disp - d
      <3>1. k + d \in 1 .. disp /\ k <= Len(queue) - d /\ k # disp - d + 1
        BY <2>2, <1>10, <1>16
      <3>2. QED  BY <2>1, <3>1, <1>17
    <2>3. CASE k > disp - d
      <3>1. sent /\ k = disp - d + 1 /\ k = disp'
        BY <2>1, <2>3, <1>10, <1>16
      <3>2. queue'[k].tag = response
        BY <2>1, <3>1, <1>17
      <3>3. QED  BY <3>1, <3>2, <1>17
    <2>4. QED  BY <2>2, <2>3, <1>10, <1>16
  \* A miss that was sent before and is not answered in this cycle.
  <1>28. ASSUME NEW m \in 1 .. disp, m > d
         PROVE  /\ queue[m].tag \in waiting_for_bus'
                /\ loaded_data'[queue[m].tag] = unified_memory[queue[m].addr]
                /\ cycles_left'[queue[m].tag] = cycles_left[queue[m].tag] - 1
                /\ cycles_left[queue[m].tag] \in 2 .. LATENCY
    <2> DEFINE x == queue[m].tag
    <2>1. /\ x \in waiting_for_bus /\ x \in MemTags /\ cycles_left[x] \in 1 .. LATENCY
          /\ loaded_data[x] = unified_memory[queue[m].addr]
      BY <1>11
    <2>2. cycles_left[x] # 1
      BY <1>12, <1>16, <1>28
    <2>3. x # mem2proc_response(c)
      BY <2>1, <1>1, Response DEF MemTags
    <2> HIDE DEF x
    <2>4. /\ x \in waiting_for_bus' /\ loaded_data'[x] = loaded_data[x]
          /\ cycles_left'[x] = cycles_left[x] - 1
      BY <2>1, <2>2, <2>3, <1>8, MemoryAssumption
    <2>5. cycles_left[x] \in 2 .. LATENCY
      BY <2>1, <2>2, MemoryAssumption
    <2>6. QED  BY <2>1, <2>4, <2>5 DEF x
  <1>29. sent => /\ response \in waiting_for_bus'
                 /\ loaded_data'[response] = unified_memory[c.addr]
                 /\ cycles_left'[response] = LATENCY
                 /\ c.addr \in Blocks
    <2> SUFFICES ASSUME sent
                 PROVE  /\ response \in waiting_for_bus'
                        /\ loaded_data'[response] = unified_memory[c.addr]
                        /\ cycles_left'[response] = LATENCY
                        /\ c.addr \in Blocks
      OBVIOUS
    <2>1. response # 0
      BY <1>16
    <2>2. QED  BY <2>1, <1>7, <1>8
  <1>30. SentBlocks'
    <2> SUFFICES ASSUME NEW k \in 1 .. disp' PROVE queue'[k].addr \in Blocks
      BY <1>9 DEF SentBlocks
    <2>1. CASE k + d \in 1 .. disp /\ queue'[k].addr = queue[k + d].addr
      BY <2>1, <1>11
    <2>2. CASE sent /\ queue'[k].addr = c.addr
      BY <2>2, <1>29
    <2>3. QED  BY <2>1, <2>2, <1>27
  <1>31. AnswersInOrder'
    <2> SUFFICES ASSUME NEW k \in 1 .. disp'
                 PROVE  /\ queue'[k].tag \in waiting_for_bus'
                        /\ loaded_data'[queue'[k].tag] = unified_memory[queue'[k].addr]
                        /\ k < disp' =>
                             cycles_left'[queue'[k].tag] < cycles_left'[queue'[k + 1].tag]
      BY <1>9 DEF AnswersInOrder
    <2>1. CASE sent /\ k = disp' /\ queue'[k].tag = response /\ queue'[k].addr = c.addr
      BY <2>1, <1>29, <1>17
    <2>2. CASE /\ k + d \in 1 .. disp
               /\ queue'[k].tag = queue[k + d].tag /\ queue'[k].addr = queue[k + d].addr
      <3>1. k + d > d
        BY <1>16
      <3>2. /\ queue'[k].tag \in waiting_for_bus'
            /\ loaded_data'[queue'[k].tag] = unified_memory[queue'[k].addr]
            /\ cycles_left'[queue'[k].tag] = cycles_left[queue[k + d].tag] - 1
            /\ cycles_left[queue[k + d].tag] \in 2 .. LATENCY
        BY <2>2, <3>1, <1>28
      <3>3. ASSUME k < disp'
            PROVE  cycles_left'[queue'[k].tag] < cycles_left'[queue'[k + 1].tag]
        <4>1. k + 1 \in 1 .. disp'
          BY <3>3, <1>17
        <4>2. CASE /\ (k + 1) + d \in 1 .. disp
                   /\ queue'[k + 1].tag = queue[(k + 1) + d].tag
          <5>1. (k + 1) + d > d /\ (k + 1) + d = (k + d) + 1 /\ k + d < disp
            BY <4>2, <1>10, <1>16
          <5>2. /\ cycles_left'[queue'[k + 1].tag] = cycles_left[queue[(k + d) + 1].tag] - 1
                /\ cycles_left[queue[(k + d) + 1].tag] \in 2 .. LATENCY
            BY <4>2, <5>1, <1>28
          <5>3. cycles_left[queue[k + d].tag] < cycles_left[queue[(k + d) + 1].tag]
            BY <5>1, <2>2, <1>11
          <5>4. QED  BY <5>2, <5>3, <3>2, MemoryAssumption
        <4>3. CASE sent /\ queue'[k + 1].tag = response
          BY <4>3, <3>2, <1>29, MemoryAssumption
        <4>4. QED  BY <4>1, <4>2, <4>3, <1>27
      <3>4. QED  BY <3>2, <3>3
    <2>3. QED  BY <2>1, <2>2, <1>27
  <1>32. AckTogether'
    <2>1. CASE PC' = PC
      <3>1. inst_same' = inst_same
        BY <2>1 DEF inst_same, fetched, BlockOf
      <3>2. ASSUME inst_same PROVE miss_ack' \in {{}, {0, 1}}
        <4>1. miss_ack \in {{}, {0, 1}}
          BY <3>2, <1>1 DEF AckTogether
        <4>2. Icache_valid_out(0) = Icache_valid_out(1)
          BY <3>2 DEF inst_same, Icache_valid_out
        <4>3. miss_request(request) \in {{}, {0, 1}}
          BY <4>2 DEF miss_request
        <4>4. miss_ack' \in {miss_ack, miss_ack \cup {0} \cup {1}, {}} \/ miss_ack' = {0, 1}
          <5> DEFINE wants == miss_request(request)
                     open == wants \ miss_ack
          <5>1. open # {} => 0 \in open
            BY <4>1, <4>3
          <5>2. miss_ack' =
                  IF wants # {} /\ ~mshr_full
                  THEN IF open = {} \/ ~(response # 0) THEN miss_ack
                       ELSE IF 0 \in open
                            THEN miss_ack \cup {0} \cup (IF inst_same THEN {1} ELSE {})
                            ELSE miss_ack \cup {1}
                  ELSE IF squash_en \/ BothValid THEN {} ELSE miss_ack
            BY <1>2, Zenon DEF MissAckEdge
          <5> HIDE DEF wants, open
          <5>3. QED  BY <5>1, <5>2, <3>2
        <4>5. QED  BY <4>1, <4>4
      <3>3. QED  BY <3>1, <3>2 DEF AckTogether
    <2>2. CASE PC' # PC
      <3>1. squash_en \/ (~dp_stall /\ BothValid)
        BY <2>2, <1>2 DEF FetchEdge
      <3>2. miss_request(request) = {}
        BY <3>1 DEF miss_request, BothValid
      <3>3. miss_ack' = {}
        BY <3>1, <3>2, <1>2 DEF MissAckEdge
      <3>4. QED  BY <3>3 DEF AckTogether
    <2>3. QED  BY <2>1, <2>2
  <1>33. QED
    BY <1>8, <1>23, <1>24, <1>25, <1>26, <1>30, <1>31, <1>32 DEF IcacheInv

\* At reset the cache and its queue are empty.
LEMMA IcacheInitially ==
  ASSUME IcacheInit
  PROVE  IcacheInv
  <1> USE IcacheAssumption, MemoryAssumption
  <1>1. unified_memory \in [Blocks -> Data]
    <2>1. ASSUME NEW b \in Blocks PROVE [w \in Words |-> b] \in Data
      BY DEF Data
    <2>2. QED  BY <2>1 DEF IcacheInit
  <1>2. MemInv
    BY <1>1, MemInitially DEF IcacheInit
  <1>3. \A w \in Ways, t \in Sets : lines[w][t] = Empty
    BY DEF IcacheInit
  <1>4. Len(queue) = 0 /\ queue \in Seq(Entries) /\ disp = 0
    BY EmptySeq DEF IcacheInit
  <1>5. IcacheTypes
    <2>1. lines \in [Ways -> [Sets -> {Empty} \cup [addr : Blocks, data : Data]]]
      BY DEF IcacheInit
    <2>2. nru_tab \in [Sets -> {{0}, {1}}]
      BY DEF IcacheInit
    <2>3. PC \in 0 .. 2 * NumBlocks - 2 /\ pref_adreg \in Addresses
      BY DEF IcacheInit, Addresses
    <2>4. last_pc \in NoPC .. 2 * NumBlocks - 1
      BY DEF IcacheInit, NoPC
    <2>5. prefetch_state \in {"IDLE", "LOAD", "PREF"} /\ miss_ack \subseteq {0, 1}
      BY DEF IcacheInit
    <2>6. QED  BY <2>1, <2>2, <2>3, <2>4, <2>5, <1>4 DEF IcacheTypes
  <1>6. DataTrue
    BY <1>3 DEF DataTrue
  <1>7. OneWay
    BY <1>3 DEF OneWay, Ways, IcacheInit
  <1>8. AnswersInOrder /\ SentBlocks /\ Missing
    BY <1>4 DEF AnswersInOrder, SentBlocks, Missing
  <1>9. AckTogether
    BY DEF AckTogether, IcacheInit
  <1>10. QED  BY <1>2, <1>5, <1>6, <1>7, <1>8, <1>9 DEF IcacheInv

-----------------------------------------------------------------------------
\* The invariant holds in every state: the queue of misses, the transactions of
\* the memory and the lines fit together at every clock edge.
THEOREM IcacheInvariant == IcacheSpec => []IcacheInv
  <1>1. IcacheInit => IcacheInv
    BY IcacheInitially
  <1>2. IcacheInv /\ [IcacheNext]_<<memVars, icacheVars>> => IcacheInv'
    <2> SUFFICES ASSUME IcacheInv, [IcacheNext]_<<memVars, icacheVars>> PROVE IcacheInv'
      OBVIOUS
    <2>1. CASE IcacheNext
      BY <2>1, ClockKeeps DEF IcacheNext
    <2>2. CASE UNCHANGED <<memVars, icacheVars>>
      <3>1. /\ UNCHANGED <<unified_memory, cycles_left, waiting_for_bus, loaded_data>>
            /\ UNCHANGED <<PC, last_pc, prefetch_state, pref_adreg, miss_ack>>
            /\ UNCHANGED <<lines, nru_tab, queue, disp>>
        BY <2>2 DEF memVars, icacheVars
      <3>2. MemInv'
        BY <3>1 DEF IcacheInv, MemInv, MemTypes, Scheduled
      <3>3. IcacheTypes' /\ OneWay' /\ AckTogether'
        BY <3>1 DEF IcacheInv, IcacheTypes, OneWay, AckTogether, inst_same, fetched, BlockOf
      <3>4. DataTrue' /\ AnswersInOrder' /\ SentBlocks'
        BY <3>1 DEF IcacheInv, DataTrue, AnswersInOrder, SentBlocks
      <3>5. Missing'
        BY <3>1 DEF IcacheInv, Missing, rd_valid, idx, Low
      <3>6. QED  BY <3>2, <3>3, <3>4, <3>5 DEF IcacheInv
    <2>3. QED  BY <2>1, <2>2
  <1>3. QED  BY <1>1, <1>2, PTL DEF IcacheSpec

\* What is fetched is what the memory holds: the data of a line are its own
\* block's, although the replies of mem.sv name no address, no block is in both
\* ways, and every set has a way to replace (icache.sv, cache.sv).
THEOREM LinesTrueHolds == IcacheSpec => []LinesTrue
  <1>1. IcacheInv => LinesTrue
    BY DEF IcacheInv, LinesTrue
  <1>2. QED  BY <1>1, IcacheInvariant, PTL

\* The answer to every miss that was sent is on its way, with its block, and
\* the answers come in the order of the queue, whose oldest entry alone icache.sv
\* compares with a reply.
THEOREM AnswersInOrderHolds == IcacheSpec => []AnswersInOrder
  <1>1. IcacheInv => AnswersInOrder
    BY DEF IcacheInv
  <1>2. QED  BY <1>1, IcacheInvariant, PTL
==============================================================================
