------------------------------- MODULE MCCore -------------------------------
(* Core on small instances: registers r0 (ZERO_REG), r1 and r2, operands   *)
(* p1 and p2, and the programs of each run.                                *)
EXTENDS Core

CONSTANTS r0, r1, r2, p1, p2

\* Every instruction of the given kinds on the registers.  Stores and WFI
\* have no destination.
ShapesOf(kinds, loads) ==
  {s \in [kind : kinds, rd_mem : loads, dest : Regs, src : [Ports -> Regs]] :
     /\ s.kind \in {"store", "halt"} => s.dest = Zero
     /\ s.rd_mem => s.kind = "alu"}

AluBranch == ShapesOf({"alu", "branch"}, {FALSE})

\* ALU instructions read anything, or both operands alike when they write
\* r0; branches read r1 with their first operand, or are jumps that read
\* nothing and write the link to r1.
Reading(sources) == [p \in Ports |-> IF p \in sources THEN r1 ELSE Zero]
TwoOperands ==
  {s \in AluBranch :
     /\ s.kind = "alu" /\ s.dest = Zero => s.src[p1] = s.src[p2]
     /\ s.kind = "branch" => s.src = Reading(IF s.dest = r1 THEN {} ELSE {p1})}

\* One operand: loads and other ALU instructions that write r1, branches
\* and stores that read it, and WFI, which reads nothing.
Mixed ==
  {s \in ShapesOf({"alu", "branch", "store", "halt"}, BOOLEAN) :
     /\ s.kind = "alu" => s.dest # Zero
     /\ s.kind \in {"branch", "store"} => s.src[p1] = r1
     /\ s.kind = "halt" => s.src[p1] = Zero}
=============================================================================
