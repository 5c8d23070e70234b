-------------------------------- MODULE Lsq --------------------------------
(***************************************************************************)
(* The load/store queue (verilog/LSQ/lsq.sv): a queue of the stores in     *)
(* flight, the load and the store that are in their functional units, and  *)
(* the bit that says which of a load and a retiring store the data cache   *)
(* serves first.  One step is one clock edge.                              *)
(*                                                                         *)
(* window is the part of the reorder buffer between its pointers, oldest   *)
(* first (WindowInOrder of Rob: it is a queue), with what the reservation  *)
(* station and the functional units know of each instruction.  Branches    *)
(* stand for everything that does not touch memory.  The data cache        *)
(* completes a request in any cycle.                                       *)
(*                                                                         *)
(* An access is a word and the set of its bytes that are touched; a byte's *)
(* value is the tag of the store it comes from, or Memory.                 *)
(***************************************************************************)
EXTENDS Integers, Sequences, FiniteSets

CONSTANTS
  SQ_SIZE,    \* places of the store queue
  ROB_SIZE,   \* entries of the reorder buffer
  Insns       \* the instructions of the programs

\* The code compares the free places with DP_SIZE = 2.
ASSUME LsqAssumption ==
  /\ SQ_SIZE \in Nat /\ SQ_SIZE >= 4
  /\ ROB_SIZE \in Nat /\ ROB_SIZE >= 2
  /\ \A insn \in Insns : insn.kind \in {"load", "store", "branch"}

VARIABLES
  head,            \* pointers one bit wider than an index
  tail,
  sq_tbl,
  priority_state,  \* 1: loads go before the retiring store
  window,          \* the reorder buffer, oldest first; an instruction goes from
                   \* the station ("waiting") to its unit ("executing"), to the
                   \* register ex_cp_mem and to the buffer ("done", or
                   \* "mispredicted")
  rob_head,        \* the tag of its oldest entry
  dcache_ready     \* the data cache completes the request of this cycle

vars == <<head, tail, sq_tbl, priority_state, window, rob_head, dcache_ready>>

Slots == 0 .. SQ_SIZE - 1
Tags  == 0 .. ROB_SIZE - 1

NoAccess == [word |-> 0, bytes |-> {}]

\* An entry's fields are read only when its valid bit is 1.
NotValid == [valid |-> FALSE, tag |-> 0, access |-> NoAccess]

Plus(p, k) == (p + k) % (2 * SQ_SIZE)
Idx(p) == p % SQ_SIZE
Msb(p) == p >= SQ_SIZE
Tag(k) == (rob_head + k - 1) % ROB_SIZE

-----------------------------------------------------------------------------
(* The functional units.                                                   *)

Executing(kind) ==
  {k \in DOMAIN window : window[k].insn.kind = kind /\ window[k].phase = "executing"}

ex_ld_valid == Executing("load") # {}
ex_st_valid == Executing("store") # {}
LdPlace == CHOOSE k \in Executing("load") : TRUE
StPlace == CHOOSE k \in Executing("store") : TRUE
ex_ld == window[LdPlace]
ex_st == window[StPlace]

-----------------------------------------------------------------------------
(* What the queue holds for the load.                                      *)

minus_one(pos) == (pos - 1) % SQ_SIZE

\* Mutant: the entry at the load's own position counts as older.
InRangeInclusive(i, pos) ==
  IF Msb(head) = Msb(tail) THEN i >= Idx(head) /\ i <= pos
  ELSE IF minus_one(pos) < Idx(tail) THEN i <= pos \/ i >= Idx(head)
  ELSE i >= Idx(head) /\ i <= minus_one(pos)

\* The entries looked at for a load that was dispatched at position pos.
InRange(i, pos) ==
  IF Msb(head) = Msb(tail) THEN i >= Idx(head) /\ i < Idx(tail) /\ i < pos
  ELSE IF minus_one(pos) < Idx(tail) THEN i < pos \/ i >= Idx(head)
  ELSE i >= Idx(head) /\ i <= minus_one(pos)

\* found_upper: entries that were written after the index wrapped.
Upper(i, pos) ==
  Msb(head) # Msb(tail) /\ minus_one(pos) < Idx(tail) /\ i < pos

\* Every older store must have executed before anything is forwarded.
sq_ld_halt == \E i \in Slots : InRange(i, ex_ld.sq_pos) /\ ~sq_tbl[i].valid

Covering(b) ==
  {i \in Slots : /\ InRange(i, ex_ld.sq_pos)
                 /\ sq_tbl[i].valid
                 /\ sq_tbl[i].access.word = ex_ld.insn.access.word
                 /\ b \in sq_tbl[i].access.bytes}

\* Mutant: the last entry by index wins, wrapped or not.
found_posLast(b) == CHOOSE i \in Covering(b) : \A j \in Covering(b) : j <= i

\* The loop goes up through the indices and the last entry that covers a
\* byte wins, but one of the upper half yields to none of the lower.
found_pos(b) ==
  CHOOSE i \in Covering(b) :
    \A j \in Covering(b) :
      \/ Upper(i, ex_ld.sq_pos) /\ ~Upper(j, ex_ld.sq_pos)
      \/ (Upper(i, ex_ld.sq_pos) = Upper(j, ex_ld.sq_pos)) /\ j <= i

found(b) == Covering(b) # {}

ld_need_dcache ==
  ex_ld_valid /\ ~sq_ld_halt /\ \E b \in ex_ld.insn.access.bytes : ~found(b)

-----------------------------------------------------------------------------
(* Retirement: rt_valid are the retire stage's packets, ports 0 and 1.     *)

Complete(k) == k \in DOMAIN window /\ window[k].phase \in {"done", "mispredicted"}
rt_valid(k) ==
  IF k = 0 THEN Complete(1)
  ELSE Complete(1) /\ window[1].phase = "done" /\ Complete(2)

Matches(k, i) == rt_valid(k) /\ sq_tbl[i].valid /\ sq_tbl[i].tag = Tag(k + 1)

store0 == Matches(0, Idx(head))
store1 == ~store0 /\ Matches(1, Idx(head))
retire_valid == store0 \/ store1

\* Whose the completion is: whoever has the priority takes it, whatever was
\* asked for.
dcache_rd_ready ==
  dcache_ready /\ ex_ld_valid /\ (priority_state = 1 \/ ~retire_valid)
dcache_retire_ready ==
  dcache_ready /\ retire_valid /\ (priority_state = 0 \/ ~ex_ld_valid)

\* Mutant: the second of two retiring stores is not held back.
retire_disableFirstOnly ==
  IF ~dcache_retire_ready /\ retire_valid THEN IF store0 THEN {0, 1} ELSE {1}
  ELSE {}

\* The ports that may not retire: one store is written per cycle.
retire_disable ==
  (IF store0 /\ ~dcache_retire_ready THEN {0, 1} ELSE {})
    \cup (IF store0 /\ Matches(1, Idx(Plus(head, 1))) THEN {1} ELSE {})
    \cup (IF store1 /\ ~dcache_retire_ready THEN {1} ELSE {})

\* The reorder buffer's side of it.
retire_count ==
  IF ~rt_valid(0) \/ 0 \in retire_disable THEN 0
  ELSE IF ~rt_valid(1) \/ retire_disable = {1} THEN 1
  ELSE 2

squash_signal ==
  /\ retire_disable = {}
  /\ \E k \in 1 .. 2 : rt_valid(k - 1) /\ window[k].phase = "mispredicted"

-----------------------------------------------------------------------------
(* The load's result, the request to the data cache, the stalls.           *)

ld_valid == ex_ld_valid /\ ~sq_ld_halt /\ (ld_need_dcache => dcache_rd_ready)

ld_stall_out == ex_ld_valid /\ ~ld_valid
st_stall_out == ex_st_valid /\ ld_valid

NoRequest == [what |-> "nothing", access |-> NoAccess, tag |-> 0]

lsq_dcache_packet_out ==
  IF retire_valid /\ (priority_state = 0 \/ ~ld_need_dcache)
  THEN [what |-> "store", access |-> sq_tbl[Idx(head)].access,
        tag |-> sq_tbl[Idx(head)].tag]
  ELSE IF ld_need_dcache
  THEN [what |-> "load", access |-> ex_ld.insn.access, tag |-> Tag(LdPlace)]
  ELSE NoRequest

\* Where a byte comes from, when it is not a store with a tag.
Memory   == ROB_SIZE
Nonsense == ROB_SIZE + 1

\* A byte of the load's value; Nonsense is what the data cache's reply holds
\* when it answers something else.
ld_value(b) ==
  IF found(b) THEN sq_tbl[found_pos(b)].tag
  ELSE IF lsq_dcache_packet_out.what = "load" THEN Memory
  ELSE Nonsense

\* Mutant: a retiring store always goes before loads.
priority_state_nStores == 0

priority_state_n ==
  IF priority_state = 0
  THEN IF ~retire_valid /\ ld_need_dcache /\ ~dcache_rd_ready THEN 1 ELSE 0
  ELSE IF ~ld_need_dcache /\ retire_valid /\ ~dcache_retire_ready THEN 0 ELSE 1

space_available == (Idx(head) - Idx(tail)) % SQ_SIZE

\* Mutant: two stores are let in when just two places are left.
dp_availableAtTwo ==
  IF space_available = 0 THEN IF Msb(tail) # Msb(head) THEN 0 ELSE 2
  ELSE IF space_available >= 2 THEN 2 ELSE 0

dp_available ==
  IF space_available = 0 THEN IF Msb(tail) # Msb(head) THEN 0 ELSE 2
  ELSE IF space_available > 2 THEN 2 ELSE 0

-----------------------------------------------------------------------------
(* The next state.  dp is the sequence of dispatched instructions, issued  *)
(* the places of the window that go to a functional unit, outcome the      *)
(* phase of each branch.                                                   *)

StoresIn(dp) == Cardinality({k \in DOMAIN dp : dp[k].kind = "store"})

\* Mutant: the second instruction gets the position of the first.
tail_posSame(dp, k) == Idx(tail)

\* tail_pos_1 and tail_pos_2.
tail_pos(dp, k) == Idx(Plus(tail, IF k = 2 THEN StoresIn(<<dp[1]>>) ELSE 0))

sq_tbl_n ==
  [i \in Slots |->
    IF ex_st_valid /\ i = ex_st.sq_pos
    THEN [valid |-> TRUE, tag |-> Tag(StPlace), access |-> ex_st.insn.access]
    ELSE IF dcache_retire_ready /\ i = Idx(head) THEN NotValid
    ELSE sq_tbl[i]]

\* The load/store queue's packet for the complete stage.
lsq_cp(k) ==
  \/ ld_valid /\ k = LdPlace
  \/ ~ld_valid /\ ex_st_valid /\ k = StPlace

phase_n(k, issued, outcome) ==
  CASE window[k].phase = "ex_cp_mem" -> "done"
    [] window[k].phase = "executing" -> IF lsq_cp(k) THEN "ex_cp_mem" ELSE "executing"
    [] k \in issued -> "executing"
    [] k \in DOMAIN outcome -> outcome[k]
    [] OTHER -> window[k].phase

window_n(issued, outcome, dp) ==
  LET moved == [k \in DOMAIN window |->
                  [window[k] EXCEPT !.phase = phase_n(k, issued, outcome)]]
      added == [k \in DOMAIN dp |->
                  [insn |-> dp[k], sq_pos |-> tail_pos(dp, k), phase |-> "waiting"]]
  IN SubSeq(moved, retire_count + 1, Len(moved)) \o added

Waiting(kinds) ==
  {k \in DOMAIN window : window[k].phase = "waiting" /\ window[k].insn.kind \in kinds}

\* Loads are issued in order; nothing is issued into a unit that stalls.
CanIssue(k) ==
  IF window[k].insn.kind = "load"
  THEN ~ld_stall_out /\ \A i \in Waiting({"load"}) : k <= i
  ELSE ~st_stall_out

\* At most one memory instruction is issued in a cycle.
Issues == {{}} \cup {{k} : k \in {j \in Waiting({"load", "store"}) : CanIssue(j)}}

\* Two packets on the bus, the memory's before the others'.
Outcomes ==
  UNION {[S -> {"done", "mispredicted"}] :
    S \in {T \in SUBSET Waiting({"branch"}) :
             Cardinality(T) <= IF \E k \in DOMAIN window : window[k].phase = "ex_cp_mem"
                               THEN 1 ELSE 2}}

Dispatches ==
  UNION {[1 .. n -> Insns] : n \in
    {m \in 0 .. dp_available : Len(window) + m <= ROB_SIZE}}

\* The data cache completes only what it is asked for.
Replies == dcache_ready' \in {FALSE, lsq_dcache_packet_out'.what # "nothing"}

Init ==
  /\ head = 0
  /\ tail = 0
  /\ sq_tbl = [i \in Slots |-> NotValid]
  /\ priority_state = 0
  /\ window = <<>>
  /\ rob_head = 0
  /\ dcache_ready = FALSE

Cycle(issued, outcome, dp) ==
  /\ ~squash_signal
  /\ head' = IF dcache_retire_ready THEN Plus(head, 1) ELSE head
  /\ tail' = Plus(tail, StoresIn(dp))
  /\ sq_tbl' = sq_tbl_n
  /\ priority_state' = priority_state_n
  /\ window' = window_n(issued, outcome, dp)
  /\ rob_head' = (rob_head + retire_count) % ROB_SIZE
  /\ Replies

Squash ==
  /\ squash_signal
  /\ head' = 0
  /\ tail' = 0
  /\ sq_tbl' = [i \in Slots |-> NotValid]
  /\ priority_state' = 0
  /\ window' = <<>>
  /\ rob_head' = 0
  /\ Replies

Next ==
  \/ \E issued \in Issues, outcome \in Outcomes, dp \in Dispatches :
       Cycle(issued, outcome, dp)
  \/ Squash

\* The instruction with tag t could leave the station.
Ready(t) ==
  \E k \in Waiting({"load", "store", "branch"}) :
    Tag(k) = t /\ (window[k].insn.kind # "branch" => CanIssue(k))

\* The next edge changes something.
Busy ==
  \/ retire_count > 0 \/ squash_signal
  \/ Waiting({"branch"}) # {}
  \/ \E k \in DOMAIN window : window[k].phase = "ex_cp_mem" \/ lsq_cp(k)
  \/ \E issued \in Issues : issued # {}
  \/ lsq_dcache_packet_out.what # "nothing"
  \/ dp_available > 0 /\ Len(window) < ROB_SIZE

\* The clock ticks while there is something to do (WF_vars(Next), with ENABLED
\* spelled out), the station issues what can be issued in the end, and the
\* data cache completes a request that stays (EveryRequestEnds of DataCache).
Fairness ==
  /\ []<>(~Busy) \/ []<><<TRUE>>_vars
  /\ \A t \in Tags : []<>(~Ready(t))
  /\ []<>(dcache_ready \/ lsq_dcache_packet_out.what = "nothing")

Spec == Init /\ [][Next]_vars
FairSpec == Spec /\ Fairness

-----------------------------------------------------------------------------
StoresBefore(k) == Cardinality({j \in 1 .. k - 1 : window[j].insn.kind = "store"})

\* From head to tail the queue has one place for every store in flight, in
\* program order, and each instruction knows the place of its store, or of
\* the next store behind it; an entry is valid if and only if its store has
\* executed and not yet retired.
QueueMatchesWindow ==
  /\ tail = Plus(head, StoresBefore(Len(window) + 1))
  /\ \A k \in DOMAIN window :
       window[k].sq_pos = Idx(Plus(head, StoresBefore(k)))
  /\ \A k \in DOMAIN window :
       LET entry == sq_tbl[window[k].sq_pos] IN
       window[k].insn.kind = "store" =>
         CASE window[k].phase = "waiting" -> ~entry.valid
           [] window[k].phase \in {"ex_cp_mem", "done"} ->
                entry = [valid |-> TRUE, tag |-> Tag(k), access |-> window[k].insn.access]
           [] OTHER -> entry.valid => entry.tag = Tag(k)
  /\ \A i \in Slots : sq_tbl[i].valid =>
       \E k \in DOMAIN window : window[k].insn.kind = "store" /\ window[k].sq_pos = i

\* The youngest store before the load that writes a byte, in program order.
Writers(b) ==
  {j \in 1 .. LdPlace - 1 :
     /\ window[j].insn.kind = "store"
     /\ window[j].insn.access.word = ex_ld.insn.access.word
     /\ b \in window[j].insn.access.bytes}

Expected(b) ==
  IF Writers(b) = {} THEN Memory
  ELSE Tag(CHOOSE j \in Writers(b) : \A i \in Writers(b) : i <= j)

\* Each byte a load returns is that of the youngest older store that writes
\* it, or the memory's if all of those have retired, wherever the queue's
\* indices wrapped between them; and never the data cache's answer to
\* something else.
LoadsSeeYoungestOlder ==
  ld_valid => \A b \in ex_ld.insn.access.bytes : ld_value(b) = Expected(b)

\* A store leaves the reorder buffer only in the cycle in which the data
\* cache completes the write of this very store: none is skipped by a
\* completion meant for a load, by a second store beside it, or by a squash
\* right behind it.
RetiredStoresAreWritten ==
  \A k \in 1 .. retire_count :
    window[k].insn.kind = "store" =>
      /\ dcache_ready
      /\ lsq_dcache_packet_out =
           [what |-> "store", access |-> window[k].insn.access, tag |-> Tag(k)]

\* What the data cache relies on: a request stays as it is until it is
\* completed, except that a squash takes a load's away and asks for nothing
\* in the next cycle.  A load that was begun is not put behind a store that
\* becomes ready to retire.
RequestsStay ==
  [][lsq_dcache_packet_out.what # "nothing" /\ ~dcache_ready =>
       \/ lsq_dcache_packet_out' = lsq_dcache_packet_out
       \/ /\ lsq_dcache_packet_out.what = "load"
          /\ squash_signal
          /\ lsq_dcache_packet_out'.what = "nothing"]_vars

\* The oldest instruction always leaves: no load waits for a store that
\* waits for it, and no turn of the priority starves either.
OldestLeaves ==
  []<>(window = <<>>) \/ []<><<rob_head' # rob_head>>_rob_head
=============================================================================
