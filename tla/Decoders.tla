------------------------------- MODULE Decoders -------------------------------
(***************************************************************************)
(* What the readings of an instruction word in Instructions have to do     *)
(* with one another, as properties of one sample: a word that is decoded,  *)
(* or an instruction that is assembled.                                    *)
(***************************************************************************)
EXTENDS Instructions

CONSTANTS
  Words,       \* the instruction words looked at
  Old,         \* what a Decode's object may hold before
  Assemblies   \* the instructions assembled, with what select leaves uninitialized

Shifts == {"slli", "srli", "srai"}

\* The immediates an instruction can have: all that RISC-V gives it.
ShiftAmounts == 0 .. 31
UpperImmediates == 0 .. 2^20 - 1
JumpOffsets == -(2^20) .. 2^20 - 1
BranchOffsets == {2 * half : half \in -2048 .. 2047}
OtherImmediates == -2048 .. 2047

Takes(op, v) ==
  IF op \in Shifts THEN v \in ShiftAmounts
  ELSE IF op = "jal" THEN v \in JumpOffsets /\ v % 2 = 0
  ELSE IF op \in Uppers THEN v \in UpperImmediates
  ELSE IF op \in Branches THEN v \in BranchOffsets
  ELSE v \in OtherImmediates

ASSUME DecodersAssumption ==
  /\ Words \subseteq [opcode : 0 .. 127, rd : 0 .. 31, funct3 : 0 .. 7,
                      rs1 : 0 .. 31, rs2 : 0 .. 31, funct7 : 0 .. 127]
  /\ \A a \in Assemblies :
       /\ a.op \in Ops /\ Takes(a.op, a.operands.imm_value)
       /\ a.operands \in [rd : 0 .. 31, rs1 : 0 .. 31, rs2 : 0 .. 31, imm_value : Int]

VARIABLE
  sample       \* the part of the software, and its input if it is a function

Encodings ==
  [kind : {"word"}, word : Words, old : Old] \cup [kind : {"assembly"}, of : Assemblies]

DecodersSpec == sample \in Encodings /\ [][UNCHANGED sample]_sample

-----------------------------------------------------------------------------
\* The debugger, the pipeline printer and the processor read every word alike:
\* the same name, the same instructions executed and the others illegal, the same
\* immediate and the same source registers.  (The first two also name what the
\* processor does not execute; the printer calls exactly the no-op "nop".)
DecodersAgree ==
  sample.kind = "word" =>
    LET w == sample.word
        d == Decode(w, sample.old)
        name == IF d.str = "LUI" THEN "lui" ELSE d.str
        executed ==
          \/ d.op # "INVALID" /\ (d.op = "jalr" => w.funct3 = 0)
                              /\ (d.op = "wfi" => w = WFI)
          \/ name \in {"csrrw", "csrrs", "csrrc"}
    IN  /\ print_stage(w, TRUE) \in {name, "nop"}
        /\ Cases(w) = IF executed THEN {name} ELSE {}
        /\ (print_stage(w, TRUE) = "nop") = is_nop(d)
        /\ get_opcode_str(w, "1", sample.old) = IF is_nop(d) THEN "nop" ELSE d.str
        /\ executed => /\ opb_select(name) = d.imm
                       /\ rs1_exist(name) <=> d.riscv # "UType" /\ name # "wfi"
                       /\ rs2_exist(name) <=> d.riscv \in {"RType", "SType"}

\* encode gives the word of every instruction decode has an op_t for back, but
\* it makes bit 31 of a store 0.
EncodeInverts ==
  sample.kind = "word" =>
    LET d == Decode(sample.word, sample.old)
        expected == IF d.imm = "Simm" THEN [sample.word EXCEPT !.funct7 = @ % 64] ELSE sample.word
    IN  d.op # "INVALID" => Encode(d) = expected

\* The offset a jump's fields give if its low 20 bits, u, were put where lui has
\* its immediate.
JumpOfUpper(u) ==
  2 * ((u \div 512) % 1024) + 2048 * ((u \div 256) % 2) + 4096 * (u % 256)
  - 2^20 * (u \div 2^19)

\* The immediate an assembled instruction is decoded to: its own, but a store has
\* lost the sign of its offset, and jal, to which select gives the immediate of
\* lui, jumps elsewhere.
ReadAs(inst) ==
  IF inst.op = "jal" THEN JumpOfUpper(inst.imm_value % 2^20)
  ELSE IF inst.imm = "Simm" THEN inst.imm_value % 2048
  ELSE inst.imm_value

\* An instruction assembled from its op_t and operands is decoded again as that
\* op_t, with those of the registers its format has and the immediate above,
\* whatever the fields select leaves uninitialized hold.
AssembledDecodes ==
  sample.kind = "assembly" =>
    LET a == sample.of
        inst == Assemble(a.op, a.junk, a.operands)
        d == Decode(Encode(inst), [riscv |-> "RType", imm |-> "Rimm", imm_value |-> a.junk])
    IN  /\ d.op = inst.op
        /\ inst.riscv # "SType" => d.rd = inst.rd
        /\ inst.riscv # "UType" => d.rs1 = inst.rs1
        /\ inst.riscv \in {"RType", "SType"} => d.rs2 = inst.rs2
        /\ inst.imm # "Rimm" => d.imm_value = ReadAs(inst)

\* What the debugger's instruction library keeps of what it is given, and what it
\* does not (the sign of a store's offset and the offset of jal), from words
\* through its objects to words and from operands through words to operands.
EncodingsRoundTrip == EncodeInverts /\ AssembledDecodes
=============================================================================
