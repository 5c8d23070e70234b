------------------------------ MODULE Dispatch ------------------------------
(***************************************************************************)
(* What becomes of an illegal instruction.  The decoder                    *)
(* (verilog/DISPATCH/dp_stage.sv) takes its valid bit, and with it dp_en,  *)
(* away; the instruction buffer counts it as dispatched.  The reorder      *)
(* buffer takes the packets of a cycle by the pattern of their dp_en bits, *)
(* and takes none when the first one's is 0.                               *)
(***************************************************************************)
EXTENDS Rob, Sequences

VARIABLE
  dropped   \* history: the id that follows the first illegal instruction
            \* since the last squash, or 0

dispatchVars == <<vars, dropped>>

\* The kinds of the (at most two) packets of a cycle.
PacketKinds == Kinds \cup {"illegal"}
Packets == UNION {[1 .. n -> PacketKinds] : n \in 0 .. 2}

dp_en(packets, k) == k \in DOMAIN packets /\ packets[k] # "illegal"

\* How many of the packets the reorder buffer takes.
Taken(packets) ==
  IF ~dp_en(packets, 1) THEN 0 ELSE IF ~dp_en(packets, 2) THEN 1 ELSE 2

DispatchInit == Init /\ dropped = 0

DispatchCycle(disable, cdb, taken, packets) ==
  /\ Len(packets) <= dp_available
  /\ Cycle(disable, cdb, taken, Taken(packets),
           [k \in 0 .. Taken(packets) - 1 |-> packets[k + 1]])
  /\ dropped' = IF dropped = 0 /\ \E k \in DOMAIN packets : ~dp_en(packets, k)
                THEN next + Taken(packets)
                ELSE dropped

DispatchSquash(disable) == Squash(disable) /\ dropped' = 0

DispatchNext ==
  \/ \E disable \in Disables, cdb \in Broadcasts :
       \E taken \in Mispredictions(cdb), packets \in Packets :
         DispatchCycle(disable, cdb, taken, packets)
  \/ \E disable \in Disables : DispatchSquash(disable)
  \/ Stopped /\ UNCHANGED dropped

DispatchSpec == DispatchInit /\ [][DispatchNext]_dispatchVars

\* The testbench reports "System halted on illegal instruction": no
\* instruction behind an illegal one retires.
IllegalHalts == ~halted /\ dropped # 0 => oldest <= dropped
=============================================================================
