---------------------------- MODULE Instructions ----------------------------
(***************************************************************************)
(* The three readings of an instruction word that the project keeps: the   *)
(* visual debugger's instruction library (testbench/riscv_inst.h), which   *)
(* also assembles; the pipeline printer (testbench/pipe_print.c); and the  *)
(* processor's own decoder (verilog/DISPATCH/dp_stage.sv, with the         *)
(* patterns of ISA.svh).  A word is the record of its fields opcode, rd,   *)
(* funct3, rs1, rs2 and funct7, from which every format is made; an        *)
(* immediate is the signed value of its 32 bits.                           *)
(***************************************************************************)
EXTENDS Integers, Sequences

Funct12(w) == w.funct7 * 32 + w.rs2
Bit31(w) == w.funct7 \div 64

-----------------------------------------------------------------------------
(* riscv_inst.h: decode *)

BranchStr(w) ==
  <<"beq", "bne", "invalid", "invalid", "blt", "bge", "bltu", "bgeu">>[w.funct3 + 1]

LoadStr(w) ==
  <<"lb", "lh", "lw", "invalid", "lbu", "lhu", "invalid", "invalid">>[w.funct3 + 1]

StoreStr(w) == IF w.funct3 > 2 THEN "invalid" ELSE <<"sb", "sh", "sw">>[w.funct3 + 1]

\* Mutant: a shift to the right by any funct7 is srli.
ImmediateStrIgnoresFunct7(w) ==
  IF w.funct3 = 5 /\ w.funct7 # \h20 THEN "srli"
  ELSE IF w.funct3 = 5 THEN "srai"
  ELSE IF w.funct3 = 1 /\ w.funct7 = 0 THEN "slli"
  ELSE <<"addi", "invalid", "slti", "sltiu", "xori", "invalid", "ori", "andi">>[w.funct3 + 1]

ImmediateStr(w) ==
  CASE w.funct3 = 1 /\ w.funct7 = 0 -> "slli"
    [] w.funct3 = 5 /\ w.funct7 = 0 -> "srli"
    [] w.funct3 = 5 /\ w.funct7 = \h20 -> "srai"
    [] OTHER -> <<"addi", "invalid", "slti", "sltiu",
                  "xori", "invalid", "ori", "andi">>[w.funct3 + 1]

ArithmeticStr(w) ==
  CASE w.funct7 = \h00 ->
         <<"add", "sll", "slt", "sltu", "xor", "srl", "or", "and">>[w.funct3 + 1]
    [] w.funct7 = \h01 ->
         <<"mul", "mulh", "mulhsu", "mulhu", "div", "divu", "rem", "remu">>[w.funct3 + 1]
    [] w.funct7 = \h20 /\ w.funct3 = 0 -> "sub"
    [] w.funct7 = \h20 /\ w.funct3 = 5 -> "sra"
    [] OTHER -> "invalid"

SystemStr(w) ==
  IF w.funct3 # 0
  THEN <<"csrrw", "csrrs", "csrrc", "invalid", "csrrwi", "csrrsi", "csrrci">>[w.funct3]
  ELSE CASE Funct12(w) = \h000 -> "ecall"
         [] Funct12(w) = \h001 -> "ebreak"
         [] Funct12(w) = \h105 -> "wfi"
         [] OTHER -> "system"

Str(w) ==
  CASE w.opcode = \h37 -> "LUI"
    [] w.opcode = \h17 -> "auipc"
    [] w.opcode = \h6f -> "jal"
    [] w.opcode = \h67 -> "jalr"
    [] w.opcode = \h63 -> BranchStr(w)
    [] w.opcode = \h03 -> LoadStr(w)
    [] w.opcode = \h23 -> StoreStr(w)
    [] w.opcode = \h13 -> ImmediateStr(w)
    [] w.opcode = \h33 -> ArithmeticStr(w)
    [] w.opcode = \h0f -> "fence"
    [] w.opcode = \h73 -> SystemStr(w)
    [] OTHER -> "invalid"

\* What decode names but gives no op_t of its own.
Unsupported == {"invalid", "div", "divu", "rem", "remu", "fence", "ecall", "ebreak",
                "system", "csrrw", "csrrs", "csrrc", "csrrwi", "csrrsi", "csrrci"}

Op(str) == IF str \in Unsupported THEN "INVALID"
           ELSE IF str = "LUI" THEN "lui" ELSE str

\* The format and the immediate of an opcode; decode leaves both as they were
\* (in a new object: uninitialized) for the opcodes not listed.
Format(w, old) ==
  CASE w.opcode \in {\h37, \h17} -> <<"UType", "Uimm">>
    [] w.opcode = \h6f -> <<"UType", "Jimm">>
    [] w.opcode \in {\h67, \h03, \h13} -> <<"IType", "Iimm">>
    [] w.opcode = \h63 -> <<"SType", "Bimm">>
    [] w.opcode = \h23 -> <<"SType", "Simm">>
    [] w.opcode = \h33 -> <<"RType", "Rimm">>
    [] w.opcode = \h73 -> <<"PType", "Rimm">>
    [] OTHER -> <<old.riscv, old.imm>>

Analyze(w, imm, old) ==
  CASE imm = "Iimm" -> IF w.opcode = \h13 /\ w.funct3 \in {1, 5} THEN w.rs2
                       ELSE (w.funct7 % 64) * 32 + w.rs2 - 2048 * Bit31(w)
    [] imm = "Simm" -> (w.funct7 % 64) * 32 + w.rd - 2048 * Bit31(w)
    [] imm = "Bimm" -> 2 * (w.rd \div 2 + (w.funct7 % 64) * 16 + (w.rd % 2) * 1024)
                       - 4096 * Bit31(w)
    [] imm = "Uimm" -> w.funct3 + w.rs1 * 8 + w.rs2 * 256 + w.funct7 * 8192
    [] imm = "Jimm" -> 2 * (w.rs2 \div 2 + (w.funct7 % 64) * 16 + (w.rs2 % 2) * 1024
                            + (w.funct3 + w.rs1 * 8) * 2048) - 2^20 * Bit31(w)
    [] OTHER -> old

\* decode, on an object that held old before.
Decode(w, old) ==
  LET form == Format(w, old)
  IN  [str |-> Str(w), op |-> Op(Str(w)), riscv |-> form[1], imm |-> form[2],
       opcode |-> w.opcode, funct3 |-> w.funct3, funct7 |-> w.funct7,
       funct12 |-> Funct12(w), rs1 |-> w.rs1, rs2 |-> w.rs2, rd |-> w.rd,
       imm_value |-> Analyze(w, form[2], old.imm_value)]

is_nop(i) == i.op = "addi" /\ i.rd = 0 /\ i.rs1 = 0 /\ i.imm_value = 0

\* get_opcode_str: what the debugger draws for a stage; valid is "x" for an
\* unknown bit.
get_opcode_str(w, valid, old) ==
  IF valid \in {"x", "0"} THEN "-"
  ELSE IF w = [opcode |-> \h13, rd |-> 0, funct3 |-> 0, rs1 |-> 0, rs2 |-> 0, funct7 |-> 0]
       THEN "nop"
  ELSE Decode(w, old).str

-----------------------------------------------------------------------------
(* riscv_inst.h: select, assign and encode.  select leaves the fields a      *)
(* format does not use uninitialized: junk stands for what they hold.        *)

SelectImmediate(op, junk) ==
  LET funct3 == [addi |-> 0, slti |-> 2, sltiu |-> 3, andi |-> 7, ori |-> 6,
                 xori |-> 4, slli |-> 1, srli |-> 5, srai |-> 5]
      funct7 == [slli |-> \h00, srli |-> \h00, srai |-> \h20]
  IN  [riscv |-> "IType", imm |-> "Iimm", opcode |-> \h13, funct3 |-> funct3[op],
       funct7 |-> IF op \in DOMAIN funct7 THEN funct7[op] ELSE junk, funct12 |-> junk]

\* Mutant: sra is assembled as srl.
SelectArithmeticForgetsSra(op, junk) ==
  LET funct3 == [add |-> 0, slt |-> 2, sltu |-> 3, and |-> 7, or |-> 6, xor |-> 4,
                 sll |-> 1, srl |-> 5, sra |-> 5, sub |-> 0]
  IN  [riscv |-> "RType", imm |-> "Rimm", opcode |-> \h33, funct3 |-> funct3[op],
       funct7 |-> IF op = "sub" THEN \h20 ELSE \h00, funct12 |-> junk]

SelectArithmetic(op, junk) ==
  LET funct3 == [add |-> 0, slt |-> 2, sltu |-> 3, and |-> 7, or |-> 6, xor |-> 4,
                 sll |-> 1, srl |-> 5, sra |-> 5, sub |-> 0]
  IN  [riscv |-> "RType", imm |-> "Rimm", opcode |-> \h33, funct3 |-> funct3[op],
       funct7 |-> IF op \in {"sra", "sub"} THEN \h20 ELSE \h00, funct12 |-> junk]

SelectMultiply(op, junk) ==
  LET funct3 == [mul |-> 0, mulh |-> 1, mulhu |-> 3, mulhsu |-> 2]
  IN  [riscv |-> "RType", imm |-> "Rimm", opcode |-> \h33, funct3 |-> funct3[op],
       funct7 |-> \h01, funct12 |-> junk]

SelectUpper(op, junk) ==
  [riscv |-> "UType", imm |-> "Uimm",
   opcode |-> [lui |-> \h37, auipc |-> \h17, jal |-> \h6f][op],
   funct3 |-> junk, funct7 |-> junk, funct12 |-> junk]

SelectBranch(op, junk) ==
  LET funct3 == [beq |-> 0, bne |-> 1, blt |-> 4, bltu |-> 6, bge |-> 5, bgeu |-> 7]
  IN  [riscv |-> "SType", imm |-> "Bimm", opcode |-> \h63, funct3 |-> funct3[op],
       funct7 |-> junk, funct12 |-> junk]

SelectMemory(op, junk) ==
  LET load == [lb |-> 0, lh |-> 1, lw |-> 2, lbu |-> 4, lhu |-> 5]
      store == [sb |-> 0, sh |-> 1, sw |-> 2]
  IN  IF op \in DOMAIN load
      THEN [riscv |-> "IType", imm |-> "Iimm", opcode |-> \h03, funct3 |-> load[op],
            funct7 |-> junk, funct12 |-> junk]
      ELSE [riscv |-> "SType", imm |-> "Simm", opcode |-> \h23, funct3 |-> store[op],
            funct7 |-> junk, funct12 |-> junk]

Immediates == {"addi", "slti", "sltiu", "andi", "ori", "xori", "slli", "srli", "srai"}
Arithmetics == {"add", "slt", "sltu", "and", "or", "xor", "sll", "srl", "sra", "sub"}
Multiplies == {"mul", "mulh", "mulhu", "mulhsu"}
Uppers == {"lui", "auipc", "jal"}
Branches == {"beq", "bne", "blt", "bltu", "bge", "bgeu"}
Memories == {"lb", "lh", "lw", "lbu", "lhu", "sb", "sh", "sw"}
Ops == Immediates \cup Arithmetics \cup Multiplies \cup Uppers \cup Branches
       \cup Memories \cup {"jalr", "wfi"}

Select(op, junk) ==
  CASE op \in Immediates -> SelectImmediate(op, junk)
    [] op \in Arithmetics -> SelectArithmetic(op, junk)
    [] op \in Multiplies -> SelectMultiply(op, junk)
    [] op \in Uppers -> SelectUpper(op, junk)
    [] op \in Branches -> SelectBranch(op, junk)
    [] op \in Memories -> SelectMemory(op, junk)
    [] op = "jalr" -> [riscv |-> "IType", imm |-> "Iimm", opcode |-> \h67,
                       funct3 |-> 0, funct7 |-> junk, funct12 |-> junk]
    [] op = "wfi" -> [riscv |-> "PType", imm |-> "Rimm", opcode |-> \h73,
                      funct3 |-> 0, funct7 |-> junk, funct12 |-> \h105]

\* assign(select(op)) on an object whose op and operands were set.
Assemble(op, junk, operands) ==
  LET selected == Select(op, junk)
  IN  [op |-> op, riscv |-> selected.riscv, imm |-> selected.imm, opcode |-> selected.opcode,
       funct3 |-> selected.funct3, funct7 |-> selected.funct7, funct12 |-> selected.funct12,
       rd |-> operands.rd, rs1 |-> operands.rs1, rs2 |-> operands.rs2,
       imm_value |-> operands.imm_value]

Fields(opcode, rd, funct3, rs1, rs2, funct7) ==
  [opcode |-> opcode, rd |-> rd, funct3 |-> funct3, rs1 |-> rs1, rs2 |-> rs2,
   funct7 |-> funct7]

EncodeI(i) ==
  IF i.op \in {"slli", "srli", "srai"}
  THEN Fields(i.opcode, i.rd, i.funct3, i.rs1, i.imm_value % 32, i.funct7)
  ELSE Fields(i.opcode, i.rd, i.funct3, i.rs1, i.imm_value % 32, (i.imm_value \div 32) % 128)

\* Mutant: a branch offset is scattered like a store's.
EncodeSAsStore(i) ==
  Fields(i.opcode, i.imm_value % 32, i.funct3, i.rs1, i.rs2, (i.imm_value \div 32) % 64)

EncodeS(i) ==
  IF i.imm = "Simm"
  THEN Fields(i.opcode, i.imm_value % 32, i.funct3, i.rs1, i.rs2, (i.imm_value \div 32) % 64)
  ELSE Fields(i.opcode, ((i.imm_value \div 2048) % 2) + 2 * ((i.imm_value \div 2) % 16),
              i.funct3, i.rs1, i.rs2,
              ((i.imm_value \div 32) % 64) + 64 * ((i.imm_value \div 4096) % 2))

EncodeU(i) ==
  LET v == i.imm_value
  IN  IF i.imm = "Uimm"
      THEN Fields(i.opcode, i.rd, v % 8, (v \div 8) % 32, (v \div 256) % 32, (v \div 8192) % 128)
      ELSE Fields(i.opcode, i.rd, (v \div 4096) % 8, (v \div 32768) % 32,
                  ((v \div 2048) % 2) + 2 * ((v \div 2) % 16),
                  ((v \div 32) % 64) + 64 * ((v \div 2^20) % 2))

Encode(i) ==
  CASE i.riscv = "RType" -> Fields(i.opcode, i.rd, i.funct3, i.rs1, i.rs2, i.funct7)
    [] i.riscv = "IType" -> EncodeI(i)
    [] i.riscv = "SType" -> EncodeS(i)
    [] i.riscv = "UType" -> EncodeU(i)
    [] i.riscv = "PType" -> Fields(i.opcode, i.rd, i.funct3, i.rs1,
                                   i.funct12 % 32, i.funct12 \div 32)

-----------------------------------------------------------------------------
(* pipe_print.c: print_stage, whose int shifts are arithmetic *)

PipeFunct7(w) == w.funct7 - 128 * Bit31(w)

PipeBranch(w) ==
  CASE w.funct3 = 0 -> "beq" [] w.funct3 = 1 -> "bne" [] w.funct3 = 4 -> "blt"
    [] w.funct3 = 5 -> "bge" [] w.funct3 = 6 -> "bltu" [] w.funct3 = 7 -> "bgeu"
    [] OTHER -> "invalid"

PipeMemory(w) ==
  LET load == <<"lb", "lh", "lw", "invalid", "lbu", "lhu">>
      store == <<"sb", "sh", "sw">>
      strs == IF w.opcode = \h03 THEN load ELSE store
  IN  IF w.funct3 < Len(strs) THEN strs[w.funct3 + 1] ELSE "invalid"

PipeImmediate(w) ==
  CASE w.funct3 = 1 -> IF PipeFunct7(w) = 0 THEN "slli" ELSE "invalid"
    [] w.funct3 = 5 /\ PipeFunct7(w) = 0 -> "srli"
    [] w.funct3 = 5 /\ PipeFunct7(w) = \h20 -> "srai"
    [] OTHER -> <<"addi", "invalid", "slti", "sltiu",
                  "xori", "invalid", "ori", "andi">>[w.funct3 + 1]

PipeArithmetic(w) ==
  LET key == PipeFunct7(w) * 16 + w.funct3
  IN  CASE key \in \h000 .. \h007 ->
             <<"add", "sll", "slt", "sltu", "xor", "srl", "or", "and">>[key + 1]
        [] key \in \h010 .. \h017 ->
             <<"mul", "mulh", "mulhsu", "mulhu", "div", "divu", "rem", "remu">>[key - \h00f]
        [] key = \h200 -> "sub"
        [] key = \h205 -> "sra"
        [] OTHER -> "invalid"

PipeSystem(w) ==
  LET funct12 == PipeFunct7(w) * 32 + w.rs2
  IN  IF w.funct3 # 0
      THEN <<"csrrw", "csrrs", "csrrc", "invalid", "csrrwi", "csrrsi", "csrrci">>[w.funct3]
      ELSE CASE funct12 = \h000 -> "ecall"
             [] funct12 = \h001 -> "ebreak"
             [] funct12 = \h105 -> "wfi"
             [] OTHER -> "system"

print_stage(w, valid) ==
  IF ~valid THEN "-"
  ELSE IF w = Fields(\h13, 0, 0, 0, 0, 0) THEN "nop"
  ELSE CASE w.opcode = \h37 -> "lui"
         [] w.opcode = \h17 -> "auipc"
         [] w.opcode = \h6f -> "jal"
         [] w.opcode = \h67 -> "jalr"
         [] w.opcode = \h63 -> PipeBranch(w)
         [] w.opcode \in {\h03, \h23} -> PipeMemory(w)
         [] w.opcode = \h13 -> PipeImmediate(w)
         [] w.opcode = \h33 -> PipeArithmetic(w)
         [] w.opcode = \h0f -> "fence"
         [] w.opcode = \h73 -> PipeSystem(w)
         [] OTHER -> "invalid"

-----------------------------------------------------------------------------
(* dp_stage.sv and ISA.svh: the processor's decoder *)

DontCare == -1   \* the don't-care bits of a casez pattern
Rtype(op, funct3, funct7) == [opcode |-> op, funct3 |-> funct3, funct7 |-> funct7]
Itype(op, funct3) == Rtype(op, funct3, DontCare)
Utype(op) == Rtype(op, DontCare, DontCare)

\* The macros RV32_..., by their names in lower case.
Patterns ==
  [lui |-> Utype(\h37), auipc |-> Utype(\h17), jal |-> Utype(\h6f), jalr |-> Itype(\h67, 0),
   beq |-> Itype(\h63, 0), bne |-> Itype(\h63, 1), blt |-> Itype(\h63, 4),
   bge |-> Itype(\h63, 5), bltu |-> Itype(\h63, 6), bgeu |-> Itype(\h63, 7),
   lb |-> Itype(\h03, 0), lh |-> Itype(\h03, 1), lw |-> Itype(\h03, 2),
   lbu |-> Itype(\h03, 4), lhu |-> Itype(\h03, 5),
   sb |-> Itype(\h23, 0), sh |-> Itype(\h23, 1), sw |-> Itype(\h23, 2),
   addi |-> Itype(\h13, 0), slti |-> Itype(\h13, 2), sltiu |-> Itype(\h13, 3),
   xori |-> Itype(\h13, 4), ori |-> Itype(\h13, 6), andi |-> Itype(\h13, 7),
   slli |-> Rtype(\h13, 1, 0), srli |-> Rtype(\h13, 5, 0), srai |-> Rtype(\h13, 5, \h20),
   add |-> Rtype(\h33, 0, 0), sub |-> Rtype(\h33, 0, \h20), sll |-> Rtype(\h33, 1, 0),
   slt |-> Rtype(\h33, 2, 0), sltu |-> Rtype(\h33, 3, 0), xor |-> Rtype(\h33, 4, 0),
   srl |-> Rtype(\h33, 5, 0), sra |-> Rtype(\h33, 5, \h20), or |-> Rtype(\h33, 6, 0),
   and |-> Rtype(\h33, 7, 0), mul |-> Rtype(\h33, 0, 1), mulh |-> Rtype(\h33, 1, 1),
   mulhsu |-> Rtype(\h33, 2, 1), mulhu |-> Rtype(\h33, 3, 1),
   csrrw |-> Itype(\h73, 1), csrrs |-> Itype(\h73, 2), csrrc |-> Itype(\h73, 3)]

Matches(w, n) ==
  \A f \in {"opcode", "funct3", "funct7"} : Patterns[n][f] \in {w[f], DontCare}

WFI == Fields(\h73, 0, 0, 0, 5, 8)   \* 12'b000100000101, 13'b0, RV32_SYSTEM

\* The cases of the decoder a word falls into; illegal if there is none.
Cases(w) == {n \in DOMAIN Patterns : Matches(w, n)} \cup (IF w = WFI THEN {"wfi"} ELSE {})

opb_select(n) ==
  CASE n \in {"lui", "auipc"} -> "Uimm"
    [] n = "jal" -> "Jimm"
    [] n \in Branches -> "Bimm"
    [] n \in {"sb", "sh", "sw"} -> "Simm"
    [] n \in Immediates \cup {"jalr", "lb", "lh", "lw", "lbu", "lhu"} -> "Iimm"
    [] OTHER -> "Rimm"

rs1_exist(n) == n \notin Uppers \cup {"wfi"}
rs2_exist(n) == n \in Arithmetics \cup Multiplies \cup Branches \cup {"sb", "sh", "sw"}
=============================================================================
