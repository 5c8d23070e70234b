------------------------------- MODULE Icache -------------------------------
(***************************************************************************)
(* The instruction cache (verilog/Cache/icache/icache.sv, cache.sv) with   *)
(* the memory behind it and the bus it leaves to the data cache            *)
(* (verilog/pipeline.sv): two ways, a queue of misses and a prefetcher.    *)
(* One step is one clock cycle.                                            *)
(*                                                                         *)
(* Addresses count blocks of two instructions, PCs instructions.  The      *)
(* memory ends at NumBlocks; the prefetcher's register runs on beyond it,  *)
(* to twice as far, and tags and indexes are taken from the address within *)
(* the memory's size.  The queue's ring is a sequence, oldest first.  The  *)
(* fetch stage stalls, takes both instructions when both are there, and is *)
(* squashed to any PC; the data cache takes the bus in any cycle.          *)
(***************************************************************************)
EXTENDS Memory, Sequences

CONSTANTS
  NumBlocks,        \* the blocks of the memory
  ICACHE_LINE_NUM,  \* the sets of the cache
  LENGTH,           \* places of the queue of misses
  Targets           \* the PCs the fetch stage goes on from

ASSUME IcacheAssumption ==
  /\ NumBlocks \in Nat \ {0} /\ ICACHE_LINE_NUM \in Nat \ {0} /\ LENGTH \in Nat \ {0}
  /\ Blocks = 0 .. NumBlocks - 1 /\ Blocks \subseteq Values
  /\ Targets \subseteq 0 .. 2 * NumBlocks - 2

VARIABLES
  PC,              \* of the first of the two instructions fetched
  last_pc,         \* the PC of the second, last time it was asked for
  prefetch_state,
  pref_adreg,      \* the block to prefetch
  miss_ack,        \* which of the two have been sent to the memory
  lines,           \* the two ways: for each set a block and its data, or Empty
  nru_tab,         \* for each set, the way to be replaced next, as a set
  queue,           \* the misses: addr, and tag once sent
  disp             \* how many of them have been sent

icacheVars == <<PC, last_pc, prefetch_state, pref_adreg, miss_ack, lines, nru_tab, queue, disp>>

Ways == {0, 1}
Sets == 0 .. ICACHE_LINE_NUM - 1
Addresses == 0 .. 2 * NumBlocks - 1
Empty == [addr |-> -1, data |-> ZeroData]

NoPC == -1

IcacheInit ==
  /\ unified_memory = [b \in Blocks |-> [w \in Words |-> b]]
  /\ MemIdle
  /\ PC = 0 /\ last_pc = NoPC
  /\ prefetch_state = "IDLE" /\ pref_adreg = 0
  /\ miss_ack = {}
  /\ lines = [w \in Ways |-> [s \in Sets |-> Empty]]
  /\ nru_tab = [s \in Sets |-> {0}]
  /\ queue = <<>> /\ disp = 0

-----------------------------------------------------------------------------
(* Lookup                                                                  *)

Low(a) == a % NumBlocks            \* address bits 15 to 3
idx(a) == Low(a) % ICACHE_LINE_NUM
BlockOf(pc) == pc \div 2
fetched(i) == BlockOf(PC + i)

\* The ways that hold a block.
rd_valid(a) == {w \in Ways : lines[w][idx(a)].addr = Low(a)}
Icache_valid_out(i) == rd_valid(fetched(i)) # {}
BothValid == Icache_valid_out(0) /\ Icache_valid_out(1)

inst_same == fetched(0) = fetched(1)
change_pc == last_pc # PC + 1
miss_request(request) == IF request THEN {i \in {0, 1} : ~Icache_valid_out(i)} ELSE {}

-----------------------------------------------------------------------------
(* What is asked of the queue of misses                                    *)

pri_request(request) == miss_request(request) \ miss_ack # {}
pri_addr(request) ==
  LET open == miss_request(request) \ miss_ack
  IN  IF 0 \in open THEN fetched(0)
      ELSE IF 1 \in open /\ ~inst_same THEN fetched(1) ELSE 0

pref_skip == rd_valid(pref_adreg) # {}

mshr_Iaddr(request) == IF prefetch_state = "PREF" THEN pref_adreg ELSE pri_addr(request)
mshr_Irequest(request) == IF prefetch_state = "PREF" THEN ~pref_skip ELSE pri_request(request)

-----------------------------------------------------------------------------
(* The queue of misses                                                     *)

mshr_full == Len(queue) = LENGTH
queue_clear == disp = Len(queue)

Icache2mem_command(request) == IF ~queue_clear \/ mshr_Irequest(request) THEN "BUS_LOAD" ELSE "BUS_NONE"
Icache2mem_addr(request) == IF queue_clear THEN mshr_Iaddr(request) ELSE queue[disp + 1].addr

\* A free place compares as the block with all bits set, the memory's last.
addr_same(a) ==
  \/ \E k \in DOMAIN queue : Low(queue[k].addr) = Low(a)
  \/ ~mshr_full /\ Low(a) = NumBlocks - 1

\* Mutant: the reply is not compared with the oldest miss.
queue_dvalidAnyTag(mem2Icache_tag) == mem2Icache_tag # 0 /\ disp > 0

queue_dvalid(mem2Icache_tag) ==
  mem2Icache_tag # 0 /\ disp > 0 /\ mem2Icache_tag = queue[1].tag

head_en(request, dvalid) ==
  mshr_Irequest(request) /\ ~addr_same(mshr_Iaddr(request)) /\ (~mshr_full \/ dvalid)

\* response: the number of the transaction if the cache's command was taken, or 0.
QueueEdge(request, dvalid, response) ==
  LET enters == head_en(request, dvalid)
      kept == IF dvalid THEN Tail(queue) ELSE queue
      left == IF dvalid THEN disp - 1 ELSE disp
      all == IF enters THEN Append(kept, [addr |-> mshr_Iaddr(request), tag |-> 0]) ELSE kept
      sent == response # 0 /\ (enters \/ ~queue_clear)
  IN  /\ queue' = IF sent THEN [all EXCEPT ![left + 1].tag = response] ELSE all
      /\ disp' = IF sent THEN left + 1 ELSE left

-----------------------------------------------------------------------------
(* The prefetcher, and which misses have been sent                         *)

prefetch_state_n(request, squash_en) ==
  LET newMiss == change_pc /\ miss_request(request) # {}
  IN  CASE prefetch_state = "IDLE" -> IF newMiss THEN "LOAD" ELSE "IDLE"
        [] prefetch_state = "LOAD" ->
             IF squash_en \/ BothValid THEN "IDLE"
             ELSE IF miss_request(request) = miss_ack THEN "PREF" ELSE "LOAD"
        [] prefetch_state = "PREF" ->
             IF squash_en \/ BothValid THEN "IDLE"
             ELSE IF newMiss THEN "LOAD" ELSE "PREF"

PrefetchEdge(request, squash_en) ==
  /\ prefetch_state' = prefetch_state_n(request, squash_en)
  /\ pref_adreg' = CASE prefetch_state = "IDLE" -> 0
                     [] prefetch_state = "LOAD" -> (BlockOf(last_pc) + 1) % (2 * NumBlocks)
                     [] prefetch_state = "PREF" -> (pref_adreg + 1) % (2 * NumBlocks)

MissAckEdge(request, squash_en, ack) ==
  LET miss == miss_request(request)
      open == miss \ miss_ack
  IN  miss_ack' =
        IF miss # {} /\ ~mshr_full
        THEN IF open = {} \/ ~ack THEN miss_ack
             ELSE IF 0 \in open THEN miss_ack \cup {0} \cup (IF inst_same THEN {1} ELSE {})
             ELSE miss_ack \cup {1}
        ELSE IF squash_en \/ BothValid THEN {} ELSE miss_ack

-----------------------------------------------------------------------------
(* Replacement                                                             *)

wr_en(dvalid) == IF dvalid THEN nru_tab[idx(queue[1].addr)] ELSE {}

Fill(dvalid, data) ==
  lines' = [w \in Ways |->
             IF w \notin wr_en(dvalid) THEN lines[w]
             ELSE [lines[w] EXCEPT ![idx(queue[1].addr)] =
                     [addr |-> Low(queue[1].addr), data |-> data]]]

\* Both instructions write the table, the second after the first.
NruEdge(dvalid) ==
  LET write(tab, i) ==
        IF Icache_valid_out(i) /\ change_pc
        THEN [tab EXCEPT ![idx(fetched(i))] = Ways \ rd_valid(fetched(i))]
        ELSE IF wr_en(dvalid) # {}
        THEN [tab EXCEPT ![idx(queue[1].addr)] = Ways \ wr_en(dvalid)]
        ELSE tab
  IN  nru_tab' = write(write(nru_tab, 0), 1)

-----------------------------------------------------------------------------
(* One clock edge                                                          *)

\* The fetch stage's own registers.
FetchEdge(request, squash_en, dp_stall) ==
  /\ last_pc' = IF request THEN PC + 1 ELSE last_pc
  /\ IF squash_en \/ (~dp_stall /\ BothValid) THEN PC' \in Targets ELSE PC' = PC

\* The data cache's command has the bus to itself.
proc2mem_command(request, dcache) ==
  [NoCommand EXCEPT
     !.command = IF dcache THEN "BUS_LOAD" ELSE Icache2mem_command(request),
     !.addr = IF dcache THEN 0 ELSE Icache2mem_addr(request)]

\* Mutant: the answer to the data cache is taken as the instruction cache's.
mem2Icache_responseShared(request, dcache) ==
  IF Icache2mem_command(request) = "BUS_NONE" THEN 0
  ELSE mem2proc_response(proc2mem_command(request, dcache))

\* The number of the transaction, if it is the instruction cache's own.
mem2Icache_response(request, dcache) ==
  IF dcache \/ Icache2mem_command(request) = "BUS_NONE" THEN 0
  ELSE mem2proc_response(proc2mem_command(request, dcache))

Clock(squash_en, dp_stall, dcache) ==
  LET request == ~dp_stall /\ ~squash_en
      c == proc2mem_command(request, dcache)
      response == mem2Icache_response(request, dcache)
      dvalid == queue_dvalid(mem2proc_tag(c))
  IN  /\ MemEdge(c)
      /\ QueueEdge(request, dvalid, response)
      /\ PrefetchEdge(request, squash_en)
      /\ MissAckEdge(request, squash_en, response # 0)
      /\ Fill(dvalid, mem2proc_data(c))
      /\ NruEdge(dvalid)
      /\ FetchEdge(request, squash_en, dp_stall)

IcacheNext ==
  \E squash_en, dp_stall, dcache \in BOOLEAN :
    Clock(squash_en, dp_stall, dcache)

IcacheSpec == IcacheInit /\ [][IcacheNext]_<<memVars, icacheVars>>

-----------------------------------------------------------------------------
\* Every line's data is its own block's.
DataTrue ==
  \A w \in Ways, s \in Sets :
    lines[w][s] # Empty => lines[w][s].data = unified_memory[lines[w][s].addr]

\* No block is in both ways, and every set has a way to replace.
OneWay ==
  /\ \A s \in Sets : lines[0][s] = Empty \/ lines[0][s].addr # lines[1][s].addr
  /\ \A s \in Sets : nru_tab[s] # {}

\* What is fetched is what the memory holds, although a reply names no address
\* and may be the answer to a request of before a squash, to one the queue did
\* not keep, or to the data cache; and it is in one way only: a fetch that found
\* it in both would leave the set without a way to replace, and what maps to it
\* could never be fetched again.
LinesTrue == DataTrue /\ OneWay

\* The answer to every miss sent is on its way, with the miss's block, and the
\* answers come in the order of the queue, which compares the oldest only: one
\* that came earlier, or was taken for another's, would never come again, and
\* the misses behind it would wait for ever.
AnswersInOrder ==
  \A k \in 1 .. disp :
    /\ queue[k].tag \in waiting_for_bus
    /\ loaded_data[queue[k].tag] = unified_memory[queue[k].addr]
    /\ k < disp => cycles_left[queue[k].tag] < cycles_left[queue[k + 1].tag]
=============================================================================
