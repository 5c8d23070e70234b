------------------------- MODULE ReservationStation -------------------------
(***************************************************************************)
(* The reservation station (verilog/RS/RS.sv, RS_one.sv, sel_ctl and       *)
(* allocate): a queue in dispatch order that closes the gaps left by the   *)
(* instructions the issue stage frees, and in which every entry listens to *)
(* the common data bus for its missing operands.                           *)
(*                                                                         *)
(* An entry's op stands for the fields that pass through unchanged; src    *)
(* holds for every operand TagN, TagN_valid and rsN_value.  An operand     *)
(* that does not exist (rsN_exist = 0) is one that reads register 0.       *)
(***************************************************************************)
EXTENDS Integers, Sequences, FiniteSets

CONSTANTS
  RS_SIZE,   \* entries of the station
  Ports      \* the operands of an instruction, rs1 and rs2

ASSUME RSAssumption == RS_SIZE \in Nat /\ RS_SIZE >= 2

VARIABLE rs

Places == 0 .. RS_SIZE - 1

Noop == [busy |-> FALSE, op |-> <<>>, rd_mem |-> FALSE,
         src |-> [p \in Ports |-> [tag |-> 0, waits |-> FALSE, value |-> 0]]]

RSInit == rs = [i \in Places |-> Noop]
RSClear == rs' = [i \in Places |-> Noop]

-----------------------------------------------------------------------------
(* Which entries may issue.                                                *)

has_ld_from_above(i) == \E j \in 0 .. i - 1 : rs[j].rd_mem

\* Mutant: loads do not wait for the loads before them.
readyAnyLoad(i) == rs[i].busy /\ \A p \in Ports : ~rs[i].src[p].waits

ready(i) ==
  /\ rs[i].busy
  /\ \A p \in Ports : ~rs[i].src[p].waits
  /\ ~(rs[i].rd_mem /\ has_ld_from_above(i))

-----------------------------------------------------------------------------
(* Closing the gaps: entry i takes over entry i, i + 1 or i + 2.           *)

sel_1(i, free) == \E j \in free : j <= i

sel_2(i, free) == \E j \in 0 .. i : sel_1(j, free) /\ j + 1 \in free

UP_RS_entry(i, free) ==
  LET from == IF sel_2(i, free) THEN i + 2 ELSE IF sel_1(i, free) THEN i + 1 ELSE i
  IN IF from \in Places THEN rs[from] ELSE Noop

empty(i, free) == ~UP_RS_entry(i, free).busy

\* allocate: the places the two dispatched instructions go to.
slot_valid_1(i, free) == empty(i, free) /\ (i = 0 \/ ~empty(i - 1, free))
slot_valid_2(i, free) == i > 0 /\ slot_valid_1(i - 1, free)

\* Mutant: the station is full only when its last place is taken before the
\* gaps are closed.
slots_leftOld(free) ==
  IF rs[RS_SIZE - 1].busy THEN 0 ELSE 2

\* How many instructions dispatch may send (leave_one_slot_empty, slot_full
\* and dp_stage's reading of them).
slots_left(free) ==
  IF ~empty(RS_SIZE - 1, free) THEN 0
  ELSE IF ~empty(RS_SIZE - 2, free) THEN 1
  ELSE 2

-----------------------------------------------------------------------------
(* The next state.                                                         *)

\* Mutant: allocate gives the first place to the second instruction.
N_RS_entrySwapped(i, free, dp) ==
  IF slot_valid_1(i, free) /\ Len(dp) >= 1 THEN dp[Len(dp)]
  ELSE IF slot_valid_2(i, free) /\ Len(dp) = 2 THEN dp[1]
  ELSE UP_RS_entry(i, free)

\* dp is the sequence of new entries.
N_RS_entry(i, free, dp) ==
  IF slot_valid_1(i, free) /\ Len(dp) >= 1 THEN dp[1]
  ELSE IF slot_valid_2(i, free) /\ Len(dp) = 2 THEN dp[2]
  ELSE UP_RS_entry(i, free)

\* Mutant: an entry listens only from the cycle after it was dispatched.
WakesLate(entry, p, cdb) ==
  LET heard == {q \in cdb : entry.src[p].waits /\ q.tag = entry.src[p].tag}
  IN IF (\E i \in Places : rs[i] = entry) THEN heard ELSE {}

\* match1 and match2: the packets an operand has been waiting for.
Wakes(entry, p, cdb) ==
  {q \in cdb : entry.src[p].waits /\ q.tag = entry.src[p].tag}

\* An operand that hears both packets takes neither.
WakeUp(entry, cdb) ==
  [entry EXCEPT !.src = [p \in Ports |->
     IF Cardinality(Wakes(entry, p, cdb)) = 1
     THEN [@[p] EXCEPT !.waits = FALSE,
                       !.value = (CHOOSE q \in Wakes(entry, p, cdb) : TRUE).value]
     ELSE @[p]]]

RSEdge(free, dp, cdb) ==
  rs' = [i \in Places |-> WakeUp(N_RS_entry(i, free, dp), cdb)]
=============================================================================
