------------------------------ MODULE MapTable ------------------------------
(***************************************************************************)
(* The map table (verilog/MapTable/maptable.sv and MapTableRF.sv): for     *)
(* every register the reorder-buffer entry of its youngest writer in       *)
(* flight, and how far that writer has come.                               *)
(*                                                                         *)
(* A packet of the common data bus is a record with a field tag; rt_tags   *)
(* are the tags of the retire stage's valid packets.  The two ports of     *)
(* each carry different tags, so sets of packets stand for the ports.      *)
(* dp is the sequence of the packets dispatched in the cycle, records with *)
(* the fields dest_reg_idx and Tag.                                        *)
(***************************************************************************)
EXTENDS Registers, Integers, Sequences, FiniteSets

VARIABLE mt

Statuses == {"Ready_in_RF", "Not_Ready", "Ready_in_ROB"}
Reset    == [tag |-> 0, status |-> "Ready_in_RF"]

MapInit == mt = [r \in Regs |-> Reset]

\* encoder: the one register whose entry is exactly {tag, status}.  No match
\* when several are.
Matches(r, tag, status) ==
  {q \in Regs : mt[q] = [tag |-> tag, status |-> status]} = {r}

\* wra_cp_en, wrb_cp_en, wra_rt_en and wrb_rt_en, by register.
Completing(r, cdb) == \E p \in cdb : Matches(r, p.tag, "Not_Ready")
Retiring(r, rt_tags) == \E t \in rt_tags : Matches(r, t, "Ready_in_ROB")

\* Read_port: retirement is forwarded, completion is not.
Read_port(r, rt_tags) ==
  IF r = Zero THEN Reset
  ELSE IF Retiring(r, rt_tags) THEN [mt[r] EXCEPT !.status = "Ready_in_RF"]
  ELSE mt[r]

\* Mutant: the second of two instructions does not see the first.
LookupNoForward(k, r, dp, rt_tags) == Read_port(r, rt_tags)

\* What the k-th instruction of the cycle is told about its source r.  The
\* second sees the first one's destination.
Lookup(k, r, dp, rt_tags) ==
  IF k = 2 /\ dp[1].dest_reg_idx # Zero /\ dp[1].dest_reg_idx = r
  THEN [tag |-> dp[1].Tag, status |-> "Not_Ready"]
  ELSE Read_port(r, rt_tags)

\* Mutant: a completion or a retirement also marks the entry a dispatch
\* overwrites in the same cycle.
BlockedNever(r, dp) == FALSE

\* An entry that dispatch writes keeps the status dispatch gives it, except
\* register 0's.
Blocked(r, dp) == r # Zero /\ \E k \in DOMAIN dp : dp[k].dest_reg_idx = r

\* The tag of the youngest dispatched writer of r.
Written(r, dp) == dp[IF Len(dp) = 2 /\ dp[2].dest_reg_idx = r THEN 2 ELSE 1].Tag

\* The write ports, one clock edge.
MapEdge(dp, cdb, rt_tags) ==
  mt' = [r \in Regs |->
          LET dispatched == \E k \in DOMAIN dp : dp[k].dest_reg_idx = r IN
          [tag    |-> IF dispatched THEN Written(r, dp) ELSE mt[r].tag,
           status |-> IF Retiring(r, rt_tags) /\ ~Blocked(r, dp) THEN "Ready_in_RF"
                      ELSE IF Completing(r, cdb) /\ ~Blocked(r, dp) THEN "Ready_in_ROB"
                      ELSE IF dispatched THEN "Not_Ready"
                      ELSE mt[r].status]]

MapReset == mt' = [r \in Regs |-> Reset]
=============================================================================
