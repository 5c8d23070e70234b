------------------------------- MODULE Execute -------------------------------
(***************************************************************************)
(* From the station to the common data bus: the issue stage's two-stage    *)
(* priority selector (verilog/ISSUE), the registers behind it, the two     *)
(* ALUs, the multiplier and the load and store ports (verilog/EXECUTE),    *)
(* and the complete stage's choice of two results per cycle                *)
(* (verilog/COMPLETE/cp_stage.sv).  Values are left out.  Of the reorder   *)
(* buffer remains that a tag is used again only after its instruction and  *)
(* all older ones have broadcast; of the station, its order and what an    *)
(* entry waits for; of the load/store queue, that a load's value comes     *)
(* after any time and that a store completes when no load does.            *)
(***************************************************************************)
EXTENDS Integers, Sequences, FiniteSets

CONSTANTS
  WINDOW,     \* instructions in flight, places of the reorder buffer
  NUM_STAGE,  \* stages of the multiplier
  Distances   \* how far back the instructions lie that others wait for

ASSUME ExecuteAssumption == WINDOW \in Nat \ {0} /\ NUM_STAGE \in Nat \ {0} /\ Distances \subseteq Nat \ {0}

Tags == 0 .. WINDOW - 1
Bubble == -1
Funcs == {"ALU", "MULT", "LD", "ST"}

VARIABLES
  head, count,  \* the window: the oldest tag and how many follow
  rs,           \* the station, oldest first: tag, func and the tag it waits for
  is_ex,        \* the register in front of each unit: a tag or Bubble
  mstage,       \* the stages of the multiplier; the last is its result
  ex_cp,        \* the results of the ALUs and of the memory port
  complete,     \* the tags of the window that have broadcast
  clock         \* the level of the clock, for the fairness

executeVars == <<head, count, rs, is_ex, mstage, ex_cp, complete, clock>>

ExecuteInit ==
  /\ head = 0 /\ count = 0
  /\ rs = <<>>
  /\ is_ex = [u \in {"alu0", "alu1", "mult", "ld", "st"} |-> Bubble]
  /\ mstage = [k \in 1 .. NUM_STAGE |-> Bubble]
  /\ ex_cp = [u \in {"alu0", "alu1", "mem"} |-> Bubble]
  /\ complete = {}
  /\ clock = 0

-----------------------------------------------------------------------------
(* The complete stage: the first two results in this order get the bus.    *)

\* Mutant: the ALUs come before the units that cannot wait.
fu_rdyAluFirst == <<ex_cp["alu0"], ex_cp["alu1"], mstage[NUM_STAGE], ex_cp["mem"]>>

fu_rdy == <<mstage[NUM_STAGE], ex_cp["mem"], ex_cp["alu0"], ex_cp["alu1"]>>

\* Whether fu_rdy[k] gets the bus.
cdb_in_flag(k) ==
  fu_rdy[k] # Bubble /\ Cardinality({j \in 1 .. k - 1 : fu_rdy[j] # Bubble}) < 2
cdb == {fu_rdy[k] : k \in {j \in 1 .. 4 : cdb_in_flag(j)}}

ALU_stall(u) ==
  ex_cp[u] # Bubble /\ \A k \in 1 .. 4 : fu_rdy[k] = ex_cp[u] => ~cdb_in_flag(k)
ALU0_stall == ALU_stall("alu0")
ALU1_stall == ALU_stall("alu1")

-----------------------------------------------------------------------------
(* The load/store queue's stalls; ld_valid: the load's value is there.     *)

ld_stall(ld_valid) == is_ex["ld"] # Bubble /\ ~ld_valid
st_stall(ld_valid) == is_ex["st"] # Bubble /\ ld_valid

-----------------------------------------------------------------------------
(* The issue stage *)

func_unit(i) == IF rs[i].func \in {"LD", "ST"} THEN "MEM" ELSE rs[i].func

\* Mutant: an entry asks to be issued while it still waits for an operand.
reqWaiting(i, ld_valid) ==
  /\ rs[i].func = "LD" => /\ ~ld_stall(ld_valid)
                          /\ \A j \in 1 .. i - 1 : rs[j].func # "LD"
  /\ rs[i].func = "ST" => ~st_stall(ld_valid)

\* The station's ready, less what the load/store queue cannot take.
req(i, ld_valid) ==
  /\ rs[i].waits = Bubble
  /\ rs[i].func = "LD" => /\ ~ld_stall(ld_valid)
                          /\ \A j \in 1 .. i - 1 : rs[j].func # "LD"
  /\ rs[i].func = "ST" => ~st_stall(ld_valid)

\* The oldest of the entries, as a set.
Oldest(S) == {i \in S : \A j \in S : i <= j}

ps_stage_1(ld_valid) ==
  Oldest({i \in DOMAIN rs :
            req(i, ld_valid) /\ ~(func_unit(i) = "ALU" /\ ALU0_stall /\ ALU1_stall)})

\* The units the second selector leaves out, when the first has chosen f.
Masked(f) ==
  IF f = "ALU" THEN IF ALU0_stall \/ ALU1_stall THEN {"ALU"} ELSE {}
  ELSE {f} \cup (IF ALU0_stall /\ ALU1_stall THEN {"ALU"} ELSE {})

gnt(ld_valid) ==
  LET first == ps_stage_1(ld_valid)
  IN  first \cup UNION {Oldest({j \in DOMAIN rs \ {i} :
                                  req(j, ld_valid) /\ func_unit(j) \notin Masked(func_unit(i))})
                        : i \in first}

\* The packet for a unit: its tag, or a bubble.
Packet(S) == IF S = {} THEN Bubble ELSE rs[CHOOSE i \in Oldest(S) : TRUE].tag

issue(free) ==
  LET to(f) == {i \in free : rs[i].func = f}
      alus == to("ALU")
      both == Cardinality(alus) = 2
  IN  [alu0 |-> IF both \/ ~ALU0_stall THEN Packet(alus) ELSE Bubble,
       alu1 |-> IF both THEN Packet(alus \ Oldest(alus))
                ELSE IF ALU0_stall THEN Packet(alus) ELSE Bubble,
       mult |-> Packet(to("MULT")), ld |-> Packet(to("LD")), st |-> Packet(to("ST"))]

-----------------------------------------------------------------------------
(* One clock edge *)

\* Mutant: the registers before a stalled ALU move on.
enabledAlways(u, ld_valid) ==
  /\ u = "ld" => ~ld_stall(ld_valid)
  /\ u = "st" => ~st_stall(ld_valid)

enabled(u, ld_valid) ==
  /\ u \in {"alu0", "alu1"} => ~ALU_stall(u)
  /\ u = "ld" => ~ld_stall(ld_valid)
  /\ u = "st" => ~st_stall(ld_valid)

InStation == {rs[i].tag : i \in DOMAIN rs}
InFlight == {(head + k) % WINDOW : k \in 0 .. count - 1} \ complete

\* The oldest that have broadcast leave the window, two at most.
Retired ==
  LET leaves(k) == k < count /\ (head + k) % WINDOW \in complete
  IN  IF ~leaves(0) THEN 0 ELSE IF ~leaves(1) THEN 1 ELSE 2

TailTag(k) == (head + count + k - 1) % WINDOW

\* The units and their registers, issued being the issue stage's packets.
Advance(ld_valid, issued) ==
  /\ ld_valid => is_ex["ld"] # Bubble
  /\ is_ex' = [u \in DOMAIN is_ex |->
                 IF enabled(u, ld_valid) THEN issued[u] ELSE is_ex[u]]
  /\ mstage' = [k \in 1 .. NUM_STAGE |-> IF k = 1 THEN is_ex["mult"] ELSE mstage[k - 1]]
  /\ ex_cp' = [u \in DOMAIN ex_cp |->
                 IF u = "mem" THEN IF ld_valid THEN is_ex["ld"] ELSE is_ex["st"]
                 ELSE IF enabled(u, ld_valid) THEN is_ex[u] ELSE ex_cp[u]]

Awake(entry, done) == IF entry.waits \in done THEN [entry EXCEPT !.waits = Bubble] ELSE entry

\* The place whose entry moves to place k when the gaps of free, two at most,
\* are closed.
From(k, free) ==
  LET sel_1 == \E i \in free : i <= k
      sel_2 == \E i, j \in free : i < j /\ j <= k + 1
  IN  IF sel_2 THEN k + 2 ELSE IF sel_1 THEN k + 1 ELSE k

Stay(free) == [k \in 1 .. Len(rs) - Cardinality(free) |-> rs[From(k, free)]]

\* The station and the window: free leave the one, retired the other, and new
\* come to both.
Window(free, retired, new, done) ==
  /\ count - retired + Len(new) <= WINDOW
  /\ head' = (head + retired) % WINDOW
  /\ count' = count - retired + Len(new)
  /\ complete' = (complete \ {(head + k) % WINDOW : k \in 0 .. retired - 1}) \cup done
  /\ LET all == Stay(free) \o new
     IN  rs' = [i \in DOMAIN all |-> Awake(all[i], done)]

\* A mispredicted branch retires.
Squash ==
  /\ head' = 0 /\ count' = 0
  /\ rs' = <<>>
  /\ is_ex' = [u \in DOMAIN is_ex |-> Bubble]
  /\ mstage' = [k \in DOMAIN mstage |-> Bubble]
  /\ ex_cp' = [u \in DOMAIN ex_cp |-> Bubble]
  /\ complete' = {}

\* The k-th instruction dispatched: it waits for none, or for one in flight, or
\* for the first of two.
Insns(k) ==
  LET flying == (InFlight \ cdb) \cup (IF k = 2 THEN {TailTag(1)} ELSE {})
      sources == flying \cap {(TailTag(k) - d) % WINDOW : d \in Distances}
  IN  [tag : {TailTag(k)}, func : Funcs, waits : {Bubble} \cup sources]
Dispatched == {<<>>} \cup {<<e>> : e \in Insns(1)} \cup (Insns(1) \X Insns(2))

Clock(ld_valid) ==
  LET free == gnt(ld_valid)
      done == cdb
      retired == Retired
  IN  /\ Advance(ld_valid, issue(free))
      /\ \E new \in Dispatched : Window(free, retired, new, done)

Edge == clock' = 1 - clock

ExecuteNext == Edge /\ ((\E ld_valid \in BOOLEAN : Clock(ld_valid)) \/ Squash)

\* The clock ticks, and a load gets its value in the end.
ExecuteFairness == WF_clock(Edge) /\ \A t \in Tags : []<>(is_ex["ld"] # t)

ExecuteSpec == ExecuteInit /\ [][ExecuteNext]_executeVars /\ ExecuteFairness

-----------------------------------------------------------------------------
Executing == InFlight \ InStation

\* What the registers of the units hold, each under its own name.
UnitRegisters ==
  ({"is_ex"} \X DOMAIN is_ex) \cup ({"mstage"} \X DOMAIN mstage) \cup ({"ex_cp"} \X DOMAIN ex_cp)
Held(r) ==
  CASE r[1] = "is_ex" -> is_ex[r[2]] [] r[1] = "mstage" -> mstage[r[2]] [] r[1] = "ex_cp" -> ex_cp[r[2]]

\* An issued instruction that has not broadcast is in exactly one register of
\* the units, and they hold no other: none is overwritten by a younger one or
\* left behind when stalls hold the registers up.
InOneUnit ==
  \A t \in Tags :
    LET places == {r \in UnitRegisters : Held(r) = t}
    IN  IF t \in Executing THEN \E r \in UnitRegisters : places = {r} ELSE places = {}

Units == INSTANCE FunctionalUnits
           WITH waiting <- InStation,
                ready <- {rs[i].tag : i \in {j \in DOMAIN rs : rs[j].waits = Bubble}},
                executing <- Executing

\* The functional units as Core sees them: an instruction is issued once it waits
\* for nothing, at most two of them in a cycle, and each issued one broadcasts
\* once, again two at most.
SafeUnits == Units!SafeUnits

\* No instruction is put off for ever by the units that have priority over its
\* own: each is issued, and each broadcasts.
FairUnits == Units!UnitsProgress
=============================================================================
