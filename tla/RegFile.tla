------------------------------ MODULE RegFile ------------------------------
(***************************************************************************)
(* The register file (verilog/DISPATCH/REGFILE/regfile.sv): two write      *)
(* ports, fed by the retire stage, and reads that see the writes of the    *)
(* same cycle.  rt[0] and rt[1] are the retire stage's packets, records    *)
(* with the fields valid, retire_reg and value; port 1 is the younger.     *)
(* A write to register 0 is left out: no read returns it.                  *)
(***************************************************************************)
EXTENDS Registers, Integers

VARIABLE registers

RegInit == registers = [r \in Regs |-> 0]

RegRead(r, rt) ==
  IF r = Zero THEN 0
  ELSE IF rt[1].valid /\ rt[1].retire_reg = r THEN rt[1].value
  ELSE IF rt[0].valid /\ rt[0].retire_reg = r THEN rt[0].value
  ELSE registers[r]

\* Port 0 gives way to port 1 when both name one register, whether or not
\* port 1 writes.
true_wr_idx_0(rt) ==
  IF rt[0].retire_reg = rt[1].retire_reg THEN Zero ELSE rt[0].retire_reg

RegEdge(rt) ==
  registers' = [r \in Regs |->
    IF r = Zero THEN 0
    ELSE IF rt[1].valid /\ rt[1].retire_reg = r THEN rt[1].value
    ELSE IF rt[0].valid /\ true_wr_idx_0(rt) = r THEN rt[0].value
    ELSE registers[r]]
=============================================================================
