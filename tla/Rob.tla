-------------------------------- MODULE Rob --------------------------------
(***************************************************************************)
(* The reorder buffer (verilog/ROB/ROB.sv) with the retire stage           *)
(* (verilog/RETIRE/rt_stage.sv), which is combinational logic on its two   *)
(* oldest entries, and the count of retired instructions that pipeline.sv  *)
(* derives from the two.  One step is one clock edge.                      *)
(*                                                                         *)
(* The rest of the core is the environment.  Dispatch offers at most       *)
(* dp_available instructions; execution broadcasts the results of          *)
(* dispatched instructions, each once, at most two per cycle, in any       *)
(* order; the load/store queue holds retirement back while it cannot       *)
(* write a store.                                                          *)
(*                                                                         *)
(* insn stands for what dispatch writes into an entry (reg_idx and PC),    *)
(* res for what the common data bus writes (value and NPC): each is        *)
(* represented by the instruction it came from.  id numbers instructions   *)
(* in dispatch order; kind is what retirement tells apart.                 *)
(***************************************************************************)
EXTENDS Integers, FiniteSets

CONSTANTS
  ROB_SIZE,   \* entries of the buffer
  MaxInsn     \* bound: instructions dispatched in one behaviour

ASSUME RobAssumption ==
  /\ ROB_SIZE \in Nat /\ ROB_SIZE >= 2
  /\ MaxInsn \in Nat

VARIABLES
  head,       \* pointers one bit wider than an index
  tail,
  rob,        \* ROB_content
  pending,    \* dispatched instructions, with their tags, still to broadcast
  next,       \* history: the id the next dispatched instruction gets
  oldest,     \* history: the oldest id that pipeline_completed_insts has not
              \* counted as retired
  halted      \* the testbench saw HALTED_ON_WFI and stopped the clock

vars == <<head, tail, rob, pending, next, oldest, halted>>

Slots  == 0 .. ROB_SIZE - 1
Ptrs   == 0 .. 2 * ROB_SIZE - 1
Kinds  == {"alu", "branch", "store", "halt"}
NoInsn == [id |-> 0, kind |-> "alu"]
Insns  == [id : Nat, kind : Kinds]

Entries == [insn : Insns, res : Insns,
            cp_bit : BOOLEAN, ep_bit : BOOLEAN, halt : BOOLEAN]
Empty   == [insn |-> NoInsn, res |-> NoInsn,
            cp_bit |-> FALSE, ep_bit |-> FALSE, halt |-> FALSE]

-----------------------------------------------------------------------------
(* Pointers wrap at twice the size; an index is a pointer without its top  *)
(* bit.                                                                    *)

Plus(p, k) == IF p + k >= 2 * ROB_SIZE THEN p + k - 2 * ROB_SIZE ELSE p + k
Idx(p) == IF p >= ROB_SIZE THEN p - ROB_SIZE ELSE p
Msb(p) == p >= ROB_SIZE

\* The slot of the k-th oldest entry.
Nth(k) == Idx(Plus(head, k))

space_available ==
  IF Idx(head) >= Idx(tail) THEN Idx(head) - Idx(tail)
                            ELSE Idx(head) - Idx(tail) + ROB_SIZE

\* Mutant: the top bits are not compared, a full buffer passes for empty.
dp_availableFullIsEmpty == IF space_available \in {0} \cup 2 .. ROB_SIZE THEN 2 ELSE 1

dp_available ==
  IF space_available = 0 THEN IF Msb(head) # Msb(tail) THEN 0 ELSE 2
  ELSE IF space_available >= 2 THEN 2 ELSE space_available

-----------------------------------------------------------------------------
(* The retire stage, a function of the two oldest entries and of the set   *)
(* of retire_disable bits that are 1.                                      *)

E0 == rob[Nth(0)]
E1 == rob[Nth(1)]

rt_valid0 == E0.cp_bit
\* Mutant: the second port does not look for a WFI on the first.
rt_valid1BesideWfi == E0.cp_bit /\ E1.cp_bit /\ ~E0.ep_bit

rt_valid1 == E0.cp_bit /\ E1.cp_bit /\ ~E0.ep_bit /\ ~E0.halt

\* Mutant: only a branch at the very head squashes.
squash_signalHeadOnly(disable) == disable = {} /\ E0.cp_bit /\ E0.ep_bit

squash_signal(disable) ==
  /\ disable = {}
  /\ \/ E0.cp_bit /\ E0.ep_bit
     \/ E0.cp_bit /\ E1.cp_bit /\ (E0.ep_bit \/ E1.ep_bit)

\* pipeline_completed_insts, summed over the two ports.
completed_insts(disable) ==
  (IF rt_valid0 /\ 0 \notin disable THEN 1 ELSE 0)
    + (IF rt_valid1 /\ 1 \notin disable THEN 1 ELSE 0)

\* pipeline_error_status is HALTED_ON_WFI on either port.
wfi_retires(disable) ==
  \/ E0.cp_bit /\ E0.halt
  \/ 0 \notin disable /\ E0.cp_bit /\ E1.cp_bit /\ ~E0.ep_bit /\ E1.halt

-----------------------------------------------------------------------------
(* The reorder buffer's next state.                                        *)

\* "Judge retire stage": how far the head moves.
retire_count(disable) ==
  IF ~E0.cp_bit \/ 0 \in disable THEN 0
  ELSE IF ~E1.cp_bit \/ E0.ep_bit \/ disable = {1} THEN 1
  ELSE 2

\* Mutant: the second of two retiring entries keeps its completion bit.
RetiresFirstOnly(i, disable) == retire_count(disable) >= 1 /\ i = Nth(0)

Retires(i, disable) ==
  \/ retire_count(disable) >= 1 /\ i = Nth(0)
  \/ retire_count(disable) = 2 /\ i = Nth(1)

\* Mutant: the second of two packets on the bus is not taken.
AfterCDBFirstOnly(i, disable, cdb, taken) ==
  IF \E p \in cdb : p.tag = i /\ \A q \in cdb : i <= q.tag
  THEN LET p == CHOOSE q \in cdb : q.tag = i IN
       [rob[i] EXCEPT !.res = p.insn, !.cp_bit = TRUE,
                      !.ep_bit = p \in taken, !.halt = p.insn.kind = "halt"]
  ELSE [rob[i] EXCEPT !.cp_bit = @ /\ ~Retires(i, disable)]

\* The fields the common data bus writes, for the packets cdb; the branches
\* in taken were mispredicted.
AfterCDB(i, disable, cdb, taken) ==
  IF \E p \in cdb : p.tag = i
  THEN LET p == CHOOSE q \in cdb : q.tag = i IN
       [rob[i] EXCEPT !.res = p.insn, !.cp_bit = TRUE,
                      !.ep_bit = p \in taken, !.halt = p.insn.kind = "halt"]
  ELSE [rob[i] EXCEPT !.cp_bit = @ /\ ~Retires(i, disable)]

\* The k-th instruction dispatch offers in this cycle.
Offered(k, kinds) == [id |-> next + k, kind |-> kinds[k]]

\* Dispatch writes insn only: the completion bit is left as it is found.
rob_n(disable, cdb, taken, n, kinds) ==
  [i \in Slots |->
    IF n >= 1 /\ i = Idx(tail)
    THEN [AfterCDB(i, disable, cdb, taken) EXCEPT !.insn = Offered(0, kinds)]
    ELSE IF n = 2 /\ i = Idx(Plus(tail, 1))
    THEN [AfterCDB(i, disable, cdb, taken) EXCEPT !.insn = Offered(1, kinds)]
    ELSE AfterCDB(i, disable, cdb, taken)]

\* The back end learns the tag of each dispatched instruction.
Enter(n, kinds) ==
  (IF n >= 1 THEN {[tag |-> Idx(tail), insn |-> Offered(0, kinds)]} ELSE {})
    \cup
  (IF n = 2 THEN {[tag |-> Idx(Plus(tail, 1)), insn |-> Offered(1, kinds)]}
            ELSE {})

-----------------------------------------------------------------------------
(* What the rest of the core may do in a cycle.                            *)

\* The load/store queue stops the store at the head, or the one behind it.
Disables ==
  {d \in {{}, {1}, {0, 1}} :
     /\ 0 \in d => rt_valid0 /\ E0.insn.kind = "store"
     /\ d = {1} => rt_valid1 /\ E1.insn.kind = "store"}

Broadcasts == {C \in SUBSET pending : Cardinality(C) <= 2}

Mispredictions(cdb) == SUBSET {p \in cdb : p.insn.kind = "branch"}

CanDispatch(n) == n <= dp_available /\ next + n <= MaxInsn + 1

-----------------------------------------------------------------------------
Init ==
  /\ head = 0
  /\ tail = 0
  /\ rob = [i \in Slots |-> Empty]
  /\ pending = {}
  /\ next = 1
  /\ oldest = 1
  /\ halted = FALSE

\* A clock edge without a squash.
Cycle(disable, cdb, taken, n, kinds) ==
  /\ ~halted
  /\ ~squash_signal(disable)
  /\ CanDispatch(n)
  /\ head' = Plus(head, retire_count(disable))
  /\ tail' = Plus(tail, n)
  /\ rob' = rob_n(disable, cdb, taken, n, kinds)
  /\ pending' = (pending \ cdb) \cup Enter(n, kinds)
  /\ next' = next + n
  /\ oldest' = oldest + completed_insts(disable)
  /\ halted' = wfi_retires(disable)

\* A clock edge with a squash: the buffer and everything in flight are
\* cleared, whatever is dispatched or broadcast in the same cycle.
Squash(disable) ==
  /\ ~halted
  /\ squash_signal(disable)
  /\ head' = 0
  /\ tail' = 0
  /\ rob' = [i \in Slots |-> Empty]
  /\ pending' = {}
  /\ next' = next
  /\ oldest' = IF wfi_retires(disable) THEN oldest + completed_insts(disable)
               ELSE next
  /\ halted' = wfi_retires(disable)

Stopped == halted /\ UNCHANGED vars

Step(disable, cdb) ==
  \E taken \in Mispredictions(cdb), n \in 0 .. 2 :
    \E kinds \in [0 .. n - 1 -> Kinds] : Cycle(disable, cdb, taken, n, kinds)

Next ==
  \/ \E disable \in Disables, cdb \in Broadcasts : Step(disable, cdb)
  \/ \E disable \in Disables : Squash(disable)
  \/ Stopped

\* Every dispatched instruction is broadcast in the end (the back end is
\* fair to each tag), and the load/store queue does not hold retirement
\* back for ever.
Fairness ==
  /\ \A t \in Slots :
       WF_vars(\E disable \in Disables, cdb \in Broadcasts :
                 (\E p \in cdb : p.tag = t) /\ Step(disable, cdb))
  /\ WF_vars(\/ \E cdb \in Broadcasts : Step({}, cdb)
             \/ Squash({}))

Spec == Init /\ [][Next]_vars
FairSpec == Spec /\ Fairness

-----------------------------------------------------------------------------
Count == next - oldest

\* The pointers, the entries and the instructions in flight are well formed.
TypeOK ==
  /\ head \in Ptrs
  /\ tail \in Ptrs
  /\ rob \in [Slots -> Entries]
  /\ pending \subseteq [tag : Slots, insn : Insns]
  /\ next \in Nat \ {0}
  /\ oldest \in Nat \ {0}
  /\ halted \in BOOLEAN

\* While the clock runs, the entries from head to tail are exactly the
\* instructions that dispatch sent and pipeline_completed_insts has not
\* counted, in program order: the head moves by what the retire stage
\* reports, and no entry is overwritten when the pointers wrap or the
\* buffer is full.
WindowInOrder ==
  ~halted =>
    /\ Count \in 0 .. ROB_SIZE
    /\ tail = Plus(head, Count)
    /\ \A k \in 0 .. ROB_SIZE - 1 : k < Count => rob[Nth(k)].insn.id = oldest + k

\* A completion bit is set only in an entry between head and tail, and
\* only by the result of the very instruction the entry holds.  Dispatch
\* never clears the bit, and the retire stage looks at the entry after the
\* head without asking whether it is occupied: both rely on this.
NoStaleCompletion ==
  ~halted =>
    \A k \in 0 .. ROB_SIZE - 1 :
      rob[Nth(k)].cp_bit => k < Count /\ rob[Nth(k)].res = rob[Nth(k)].insn

\* The buffer implements in-order retirement: an instruction retires once,
\* after it finished, after all older ones, and never when it is younger
\* than a mispredicted branch (the halted state, after which nothing is
\* observed, is left out by freezing the abstract state).
doneIds == {oldest + k : k \in {j \in 0 .. Count - 1 : rob[Nth(j)].cp_bit}}
mispredIds == {oldest + k : k \in {j \in 0 .. Count - 1 :
                                     rob[Nth(j)].cp_bit /\ rob[Nth(j)].ep_bit}}

Order == INSTANCE RetireOrder
           WITH Capacity <- ROB_SIZE, Width <- 2,
                done <- doneIds, mispred <- mispredIds

RetiresInOrder == Order!Init /\ [][halted' \/ Order!Next]_(Order!vars)

\* Whatever is dispatched is retired, squashed, or cut off by a WFI.
EveryoneLeaves ==
  \A i \in 1 .. MaxInsn : i < next ~> (oldest > i \/ halted)

\* When the clock stops, the last instruction counted as retired is the
\* WFI: all older instructions were counted, and nothing younger was, even
\* when it was complete and next to it.
WfiRetiresLast ==
  [][halted' /\ ~halted =>
       \E k \in 0 .. 1 :
         rob[Nth(k)].insn = [id |-> oldest' - 1, kind |-> "halt"]]_vars
=============================================================================
