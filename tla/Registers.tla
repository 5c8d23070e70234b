----------------------------- MODULE Registers -----------------------------
(* The architectural registers; register 0 always reads as 0.              *)
CONSTANTS
  Regs,   \* the architectural registers
  Zero    \* ZERO_REG

ASSUME RegistersAssumption == Zero \in Regs
=============================================================================
