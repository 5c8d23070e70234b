-------------------------------- MODULE Core --------------------------------
(***************************************************************************)
(* The out-of-order core from dispatch to retirement: the reorder buffer,  *)
(* the map table, the reservation station and the register file, wired as  *)
(* in verilog/pipeline.sv and stepped by one clock.                        *)
(*                                                                         *)
(* What an instruction computes is represented by its id, so that an       *)
(* operand tells which instruction it came from: 0 is the value a register *)
(* has at reset.  Between issue and the common data bus the functional     *)
(* units take any time and finish in any order, two at most per cycle.     *)
(* The instructions dispatched are any instructions, within MaxInsn.       *)
(***************************************************************************)
EXTENDS Rob, MapTable, ReservationStation, RegFile

CONSTANTS
  Shapes      \* the instructions dispatch may send: records with the fields
              \* kind, rd_mem, dest and src

\* Stores and WFI have no destination (dp_stage.sv's decoder).
ASSUME CoreAssumption ==
  /\ Shapes \subseteq [kind : Kinds, rd_mem : BOOLEAN, dest : Regs, src : [Ports -> Regs]]
  /\ \A s \in Shapes : s.kind \in {"store", "halt"} => s.dest = Zero

VARIABLES
  reg_idx,    \* the field reg_idx of ROB_content
  executing,  \* instructions issued and not yet broadcast
  latest,     \* history: the youngest writer of each register dispatched
  arch        \* history: the youngest writer of each register retired

coreVars == <<vars, mt, rs, registers, reg_idx, executing, latest, arch>>

-----------------------------------------------------------------------------
(* The retire stage's packets to the map table and the register file.      *)

\* Mutant: the second packet names its register also when it does not retire.
rt1_regAlways == reg_idx[Nth(1)]

rt1_reg == IF E0.cp_bit /\ E1.cp_bit /\ ~E0.ep_bit THEN reg_idx[Nth(1)] ELSE Zero

rt_packet ==
  [i \in 0 .. 1 |->
    IF i = 0 THEN [valid |-> rt_valid0, tag |-> Nth(0), value |-> E0.res.id,
                   retire_reg |-> IF rt_valid0 THEN reg_idx[Nth(0)] ELSE Zero]
             ELSE [valid |-> rt_valid1, tag |-> Nth(1), value |-> E1.res.id,
                   retire_reg |-> rt1_reg]]

rt_tags == {rt_packet[i].tag : i \in {j \in 0 .. 1 : rt_packet[j].valid}}

-----------------------------------------------------------------------------
(* Dispatch.  prog is the sequence of at most two shapes dispatched.       *)

TailSlot(k) == Idx(Plus(tail, k - 1))

mt_dp(prog) ==
  [k \in DOMAIN prog |-> [dest_reg_idx |-> prog[k].dest, Tag |-> TailSlot(k)]]

\* What an operand is when it enters the station (INST1_value_in and
\* INST2_value_in): the reorder buffer's value, the register file's, or a
\* tag to wait for.  The value of a waiting operand is never used.
Captured(k, r, prog) ==
  LET m == Lookup(k, r, mt_dp(prog), rt_tags) IN
  [tag   |-> m.tag,
   waits |-> m.status = "Not_Ready",
   value |-> CASE m.status = "Not_Ready"    -> 0
               [] m.status = "Ready_in_ROB" -> rob[m.tag].res.id
               [] m.status = "Ready_in_RF"  -> RegRead(r, rt_packet)]

\* History: the instruction whose result the program says the k-th
\* instruction of the cycle reads from r.
Wanted(k, r, prog) ==
  IF r = Zero THEN 0
  ELSE IF k = 2 /\ prog[1].dest = r THEN next
  ELSE latest[r]

rs_dp(prog) ==
  [k \in DOMAIN prog |->
    [busy   |-> TRUE,
     rd_mem |-> prog[k].rd_mem,
     op     |-> [tag    |-> TailSlot(k),
                 insn   |-> [id |-> next + k - 1, kind |-> prog[k].kind],
                 wanted |-> [p \in Ports |-> Wanted(k, prog[k].src[p], prog)]],
     src    |-> [p \in Ports |-> Captured(k, prog[k].src[p], prog)]]]

Issued(free) == {[tag |-> rs[i].op.tag, insn |-> rs[i].op.insn] : i \in free}

\* History: latest after the dispatch of prog.
Renamed(prog) ==
  [r \in Regs |->
    IF r # Zero /\ \E k \in DOMAIN prog : prog[k].dest = r
    THEN next + (CHOOSE k \in DOMAIN prog :
                   /\ prog[k].dest = r
                   /\ \A j \in DOMAIN prog : prog[j].dest = r => j <= k) - 1
    ELSE latest[r]]

\* History: arch after the retirements the pipeline counts in this cycle.
Committed(disable) ==
  [r \in Regs |->
    IF r = Zero THEN 0
    ELSE IF completed_insts(disable) = 2 /\ reg_idx[Nth(1)] = r THEN E1.insn.id
    ELSE IF completed_insts(disable) >= 1 /\ reg_idx[Nth(0)] = r THEN E0.insn.id
    ELSE arch[r]]

-----------------------------------------------------------------------------
CoreInit ==
  /\ Init
  /\ MapInit
  /\ RSInit
  /\ RegInit
  /\ reg_idx = [i \in Slots |-> Zero]
  /\ executing = {}
  /\ latest = [r \in Regs |-> 0]
  /\ arch = [r \in Regs |-> 0]

\* The packets of the functional units, with the value each puts on the bus.
cdb_packets(cdb) == {[tag |-> p.tag, value |-> p.insn.id] : p \in cdb}

\* A clock edge without a squash: free are the places issued from.
CoreCycle(disable, cdb, taken, free, prog) ==
  /\ Len(prog) <= slots_left(free)
  /\ Cycle(disable, cdb, taken, Len(prog),
           [k \in 0 .. Len(prog) - 1 |-> prog[k + 1].kind])
  /\ MapEdge(mt_dp(prog), cdb, rt_tags)
  /\ RSEdge(free, rs_dp(prog), cdb_packets(cdb))
  /\ RegEdge(rt_packet)
  /\ reg_idx' = [i \in Slots |->
                  IF \E k \in DOMAIN prog : i = TailSlot(k)
                  THEN prog[CHOOSE k \in DOMAIN prog : i = TailSlot(k)].dest
                  ELSE reg_idx[i]]
  /\ executing' = (executing \ cdb) \cup Issued(free)
  /\ latest' = Renamed(prog)
  /\ arch' = Committed(disable)

\* A clock edge with a squash: only the register file keeps what retires.
CoreSquash(disable) ==
  /\ Squash(disable)
  /\ MapReset
  /\ RSClear
  /\ RegEdge(rt_packet)
  /\ reg_idx' = [i \in Slots |-> Zero]
  /\ executing' = {}
  /\ latest' = Committed(disable)
  /\ arch' = Committed(disable)

CoreStopped == halted /\ UNCHANGED coreVars

\* The issue stage frees at most two ready entries, the bus carries at most
\* two results.
Frees      == {F \in SUBSET {i \in Places : ready(i)} : Cardinality(F) <= 2}
Finishing  == {C \in SUBSET executing : Cardinality(C) <= 2}
Programs   == UNION {[1 .. n -> Shapes] : n \in 0 .. 2}

CoreStep(disable, cdb, free) ==
  \E taken \in Mispredictions(cdb), prog \in Programs :
    CoreCycle(disable, cdb, taken, free, prog)

CoreNext ==
  \/ \E disable \in Disables, cdb \in Finishing, free \in Frees :
       CoreStep(disable, cdb, free)
  \/ \E disable \in Disables : CoreSquash(disable)
  \/ CoreStopped

\* A finished instruction gets the bus in the end, a ready one a functional
\* unit, and the load/store queue lets go of a store.
CoreFairness ==
  /\ \A t \in Slots :
       /\ WF_coreVars(\E disable \in Disables, cdb \in Finishing, free \in Frees :
                        (\E p \in cdb : p.tag = t) /\ CoreStep(disable, cdb, free))
       /\ WF_coreVars(\E disable \in Disables, cdb \in Finishing, free \in Frees :
                        (\E i \in free : rs[i].op.tag = t) /\ CoreStep(disable, cdb, free))
  /\ WF_coreVars(\/ \E cdb \in Finishing, free \in Frees : CoreStep({}, cdb, free)
                 \/ CoreSquash({}))

CoreSpec == CoreInit /\ [][CoreNext]_coreVars
CoreFairSpec == CoreSpec /\ CoreFairness

-----------------------------------------------------------------------------
Busy == {i \in Places : rs[i].busy}

\* Every instruction in flight and not broadcast is in exactly one place:
\* once in the station or in a functional unit.
NoneLost ==
  /\ pending = executing \cup Issued(Busy)
  /\ executing \cap Issued(Busy) = {}

\* The station is packed and in program order, in which allocate, the
\* priority of the issue stage and the blocking of loads trust.
StationInOrder ==
  \A i, j \in Places : i < j /\ rs[j].busy =>
    rs[i].busy /\ rs[i].op.insn.id < rs[j].op.insn.id

\* An operand that does not wait is the result of the instruction that the
\* program says wrote the register last; an operand that waits does so for
\* that instruction, which has yet to broadcast.  Results that arrive, retire
\* or are overwritten in the very cycle of the dispatch are never missed.
OperandsCorrect ==
  \A i \in Busy, p \in Ports :
    LET s == rs[i].src[p]
        w == rs[i].op.wanted[p]
    IN IF s.waits THEN \E q \in pending : q.tag = s.tag /\ q.insn.id = w
       ELSE s.value = w

\* The map table knows where the youngest writer of every register is.
MapTrue ==
  ~halted =>
    \A r \in Regs \ {Zero} :
      CASE mt[r].status = "Not_Ready" ->
             \E q \in pending : q.tag = mt[r].tag /\ q.insn.id = latest[r]
        [] mt[r].status = "Ready_in_ROB" ->
             rob[mt[r].tag].cp_bit /\ rob[mt[r].tag].res.id = latest[r]
        [] mt[r].status = "Ready_in_RF" -> registers[r] = latest[r]

\* The register file is what the retired instructions made it, except for
\* the result of an instruction that is finished and directly behind a store
\* the load/store queue holds back: it is written early, again and again.
RegistersRetired ==
  ~halted =>
    \A r \in Regs \ {Zero} :
      \/ registers[r] = arch[r]
      \/ /\ E0.cp_bit /\ E0.insn.kind = "store"
         /\ rt_valid1 /\ reg_idx[Nth(1)] = r /\ registers[r] = E1.res.id

\* A load never issues while a load dispatched before it is still in the
\* station (the load/store queue relies on the order).
LoadsInOrder ==
  [][\A i, j \in Busy :
       /\ rs[i].rd_mem /\ rs[j].rd_mem
       /\ rs[i].op.insn.id < rs[j].op.insn.id
       /\ \E q \in executing' : q.insn = rs[j].op.insn
       => FALSE]_coreVars
=============================================================================
