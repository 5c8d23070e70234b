--------------------------- MODULE Software_proofs ---------------------------
(***************************************************************************)
(* Theorems about the software around the processor.  The three readings   *)
(* of an instruction word and the assembler, for every word and every      *)
(* instruction; the visual debugger, for any size of its ring, any dump,   *)
(* any length of the simulation and any keys; and the heap under the       *)
(* priority queue, for any priorities, any order of pushes and pops and a  *)
(* heap of any size.                                                       *)
(***************************************************************************)
EXTENDS Decoders, Debugger, PriorityQueue, FiniteSetTheorems, SequenceTheorems, WellFoundedInduction, TLAPS

(* The encoder.  A word has an op_t if its opcode has a format; the immediate  *)
(* that decode gathers from the fields is scattered over the same fields.      *)

\* A word of 32 bits, and the opcodes decode has an op_t for.
Word == [opcode : 0 .. 127, rd : 0 .. 31, funct3 : 0 .. 7,
         rs1 : 0 .. 31, rs2 : 0 .. 31, funct7 : 0 .. 127]

Opcodes == {\h37, \h17, \h6f, \h67, \h63, \h03, \h23, \h13, \h33, \h73}

\* A word is made of its fields.
LEMMA WordIsFields ==
  ASSUME NEW w \in Word
  PROVE  w = Fields(w.opcode, w.rd, w.funct3, w.rs1, w.rs2, w.funct7)
  BY DEF Word, Fields

\* The format and the immediate of the opcodes that have an instruction.
LEMMA FormatOf ==
  ASSUME NEW w, NEW old
  PROVE  /\ w.opcode \in {\h37, \h17} => Format(w, old) = <<"UType", "Uimm">>
         /\ w.opcode = \h6f => Format(w, old) = <<"UType", "Jimm">>
         /\ w.opcode \in {\h67, \h03, \h13} => Format(w, old) = <<"IType", "Iimm">>
         /\ w.opcode = \h63 => Format(w, old) = <<"SType", "Bimm">>
         /\ w.opcode = \h23 => Format(w, old) = <<"SType", "Simm">>
         /\ w.opcode = \h33 => Format(w, old) = <<"RType", "Rimm">>
         /\ w.opcode = \h73 => Format(w, old) = <<"PType", "Rimm">>
  BY DEF Format

\* What decode fills in.
LEMMA Decoded ==
  ASSUME NEW w, NEW old, NEW riscv, NEW imm, Format(w, old) = <<riscv, imm>>
  PROVE  LET d == Decode(w, old)
         IN  /\ d.str = Str(w) /\ d.op = Op(Str(w)) /\ d.riscv = riscv /\ d.imm = imm
             /\ d.opcode = w.opcode /\ d.funct3 = w.funct3 /\ d.funct7 = w.funct7
             /\ d.funct12 = Funct12(w) /\ d.rs1 = w.rs1 /\ d.rs2 = w.rs2 /\ d.rd = w.rd
             /\ d.imm_value = Analyze(w, imm, old.imm_value)
  BY DEF Decode

\* Only these opcodes have an op_t.
LEMMA OpHasOpcode ==
  ASSUME NEW w, Op(Str(w)) # "INVALID"
  PROVE  w.opcode \in Opcodes
  <1>1. w.opcode \notin Opcodes => Str(w) \in {"fence", "invalid"}
    BY DEF Str, Opcodes
  <1>2. QED  BY <1>1 DEF Op, Unsupported

\* Which name an opcode is given.
LEMMA StrOf ==
  ASSUME NEW w
  PROVE  /\ w.opcode = \h37 => Str(w) = "LUI"
         /\ w.opcode = \h17 => Str(w) = "auipc"
         /\ w.opcode = \h6f => Str(w) = "jal"
         /\ w.opcode = \h67 => Str(w) = "jalr"
         /\ w.opcode = \h63 => Str(w) = BranchStr(w)
         /\ w.opcode = \h03 => Str(w) = LoadStr(w)
         /\ w.opcode = \h23 => Str(w) = StoreStr(w)
         /\ w.opcode = \h13 => Str(w) = ImmediateStr(w)
         /\ w.opcode = \h33 => Str(w) = ArithmeticStr(w)
         /\ w.opcode = \h0f => Str(w) = "fence"
         /\ w.opcode = \h73 => Str(w) = SystemStr(w)
         /\ w.opcode \notin Opcodes \cup {\h0f} => Str(w) = "invalid"
  BY DEF Str, Opcodes

\* The immediates by their kind.
LEMMA AnalyzeOf ==
  ASSUME NEW w, NEW old
  PROVE  /\ Analyze(w, "Iimm", old) =
              IF w.opcode = \h13 /\ w.funct3 \in {1, 5} THEN w.rs2
              ELSE (w.funct7 % 64) * 32 + w.rs2 - 2048 * Bit31(w)
         /\ Analyze(w, "Simm", old) = (w.funct7 % 64) * 32 + w.rd - 2048 * Bit31(w)
         /\ Analyze(w, "Bimm", old) =
              2 * (w.rd \div 2 + (w.funct7 % 64) * 16 + (w.rd % 2) * 1024) - 4096 * Bit31(w)
         /\ Analyze(w, "Uimm", old) = w.funct3 + w.rs1 * 8 + w.rs2 * 256 + w.funct7 * 8192
         /\ Analyze(w, "Jimm", old) =
              2 * (w.rs2 \div 2 + (w.funct7 % 64) * 16 + (w.rs2 % 2) * 1024
                   + (w.funct3 + w.rs1 * 8) * 2048) - 2^20 * Bit31(w)
         /\ Analyze(w, "Rimm", old) = old
  BY DEF Analyze

\* How the formats are encoded.
LEMMA EncodeOf ==
  ASSUME NEW d
  PROVE  /\ d.riscv = "RType" => Encode(d) = Fields(d.opcode, d.rd, d.funct3, d.rs1, d.rs2, d.funct7)
         /\ d.riscv = "IType" => Encode(d) = EncodeI(d)
         /\ d.riscv = "SType" => Encode(d) = EncodeS(d)
         /\ d.riscv = "UType" => Encode(d) = EncodeU(d)
         /\ d.riscv = "PType" => Encode(d) = Fields(d.opcode, d.rd, d.funct3, d.rs1,
                                                    d.funct12 % 32, d.funct12 \div 32)
  BY DEF Encode

\* The table of the instructions with an immediate, with the shifts first.
LEMMA ImmediateStrOf ==
  ASSUME NEW w
  PROVE  ImmediateStr(w) =
           IF w.funct3 = 1 /\ w.funct7 = 0 THEN "slli"
           ELSE IF w.funct3 = 5 /\ w.funct7 = 0 THEN "srli"
           ELSE IF w.funct3 = 5 /\ w.funct7 = \h20 THEN "srai"
           ELSE <<"addi", "invalid", "slti", "sltiu",
                  "xori", "invalid", "ori", "andi">>[w.funct3 + 1]
  BY DEF ImmediateStr

\* The shifts by an immediate are the only instructions with an op_t in their
\* two rows of the table.
LEMMA ShiftsByImmediate ==
  ASSUME NEW w \in Word, w.opcode \in {\h67, \h03, \h13}, Op(Str(w)) # "INVALID"
  PROVE  Op(Str(w)) \in Shifts <=> w.opcode = \h13 /\ w.funct3 \in {1, 5}
  <1>1. CASE w.opcode = \h67
    BY <1>1, StrOf DEF Op, Shifts, Unsupported
  <1>2. CASE w.opcode = \h03
    <2>1. Str(w) = LoadStr(w)
      BY <1>2, StrOf
    <2>2. LoadStr(w) \in {"lb", "lh", "lw", "invalid", "lbu", "lhu"}
      BY SMT DEF LoadStr, Word
    <2>3. QED  BY <1>2, <2>1, <2>2 DEF Op, Shifts, Unsupported
  <1>3. CASE w.opcode = \h13
    <2>1. Str(w) = ImmediateStr(w)
      BY <1>3, StrOf
    <2>2. w.funct3 \in {1, 5} => ImmediateStr(w) \in Shifts \cup {"invalid"}
      BY ImmediateStrOf, SMT DEF Word, Shifts
    <2>3. w.funct3 \notin {1, 5} => ImmediateStr(w) \in {"addi", "slti", "sltiu", "xori", "ori", "andi"}
      BY ImmediateStrOf, SMT DEF Word
    <2>4. QED  BY <1>3, <2>1, <2>2, <2>3 DEF Op, Shifts, Unsupported
  <1>4. QED  BY <1>1, <1>2, <1>3

\* The immediate of an I or S format is split into the fields it was made of;
LEMMA ImmI ==
  ASSUME NEW f \in 0 .. 127, NEW r \in 0 .. 31
  PROVE  LET v == (f % 64) * 32 + r - 2048 * (f \div 64)
         IN  v % 32 = r /\ (v \div 32) % 128 = f /\ (v \div 32) % 64 = f % 64
  BY SMTT(60)

\* so is the offset of a branch;
LEMMA ImmB ==
  ASSUME NEW f \in 0 .. 127, NEW r \in 0 .. 31
  PROVE  LET v == 2 * (r \div 2 + (f % 64) * 16 + (r % 2) * 1024) - 4096 * (f \div 64)
         IN  /\ ((v \div 2048) % 2) + 2 * ((v \div 2) % 16) = r
             /\ ((v \div 32) % 64) + 64 * ((v \div 4096) % 2) = f
  BY SMTT(60)

\* the value of an upper immediate,
UpperValue(a, b, c, f) == a + b * 8 + c * 256 + f * 8192
UpperParts(v, a, b, c, f) ==
  v % 8 = a /\ (v \div 8) % 32 = b /\ (v \div 256) % 32 = c /\ (v \div 8192) % 128 = f

LEMMA ImmU ==
  ASSUME NEW a \in 0 .. 7, NEW b \in 0 .. 31, NEW c \in 0 .. 31, NEW f \in 0 .. 127
  PROVE  UpperParts(UpperValue(a, b, c, f), a, b, c, f)
  <1> DEFINE v == a + b * 8 + c * 256 + f * 8192
  <1>1. v \div 8 = b + 32 * (c + 32 * f)
    BY SMT
  <1>2. v \div 256 = c + 32 * f
    BY SMT
  <1>3. v \div 8192 = f
    BY SMT
  <1>4. v % 8 = a
    BY SMT
  <1> HIDE DEF v
  <1>5. (v \div 8) % 32 = b /\ (v \div 256) % 32 = c /\ (v \div 8192) % 128 = f
    BY <1>1, <1>2, <1>3, SMT
  <1>6. UpperValue(a, b, c, f) = v
    BY DEF UpperValue, v
  <1>7. UpperParts(v, a, b, c, f)
    BY <1>4, <1>5, SMT DEF UpperParts
  <1>8. QED  BY <1>6, <1>7

\* and the offset of a jump.
JumpValue(a, b, c, f) ==
  2 * (c \div 2 + (f % 64) * 16 + (c % 2) * 1024 + (a + b * 8) * 2048) - 2^20 * (f \div 64)
JumpParts(u, a, b, c, f) ==
  /\ (u \div 4096) % 8 = a /\ (u \div 32768) % 32 = b
  /\ ((u \div 2048) % 2) + 2 * ((u \div 2) % 16) = c
  /\ ((u \div 32) % 64) + 64 * ((u \div 2^20) % 2) = f

LEMMA ImmJ ==
  ASSUME NEW a \in 0 .. 7, NEW b \in 0 .. 31, NEW c \in 0 .. 31, NEW f \in 0 .. 127
  PROVE  JumpParts(JumpValue(a, b, c, f), a, b, c, f)
  <1>1. PICK s \in 0 .. 1, g \in 0 .. 63 : f = 64 * s + g /\ s = f \div 64 /\ g = f % 64
    BY SMT
  <1>2. PICK h \in 0 .. 15, l \in 0 .. 1 : c = 2 * h + l /\ h = c \div 2 /\ l = c % 2
    BY SMT
  <1> DEFINE v == 2 * (h + g * 16 + l * 1024 + (a + b * 8) * 2048) - 1048576 * s
  <1>3. v \div 2 = h + 16 * (g + 64 * (l + 2 * (a + 8 * b - 256 * s)))
    BY SMT
  <1>4. v \div 32 = g + 64 * (l + 2 * (a + 8 * b - 256 * s))
    BY SMT
  <1>5. v \div 2048 = l + 2 * (a + 8 * b - 256 * s)
    BY SMT
  <1>6. v \div 4096 = a + 8 * (b - 32 * s)
    BY SMT
  <1>7. v \div 32768 = b - 32 * s
    BY SMT
  <1>8. v \div 1048576 = -s
    BY SMT
  <1> HIDE DEF v
  <1>9. /\ (v \div 4096) % 8 = a /\ (v \div 32768) % 32 = b
        /\ (v \div 2048) % 2 = l /\ (v \div 2) % 16 = h
        /\ (v \div 32) % 64 = g /\ (v \div 1048576) % 2 = s
    BY <1>3, <1>4, <1>5, <1>6, <1>7, <1>8, SMT
  <1>10. /\ (v \div 4096) % 8 = a /\ (v \div 32768) % 32 = b
         /\ ((v \div 2048) % 2) + 2 * ((v \div 2) % 16) = c
         /\ ((v \div 32) % 64) + 64 * ((v \div 1048576) % 2) = f
    BY <1>1, <1>2, <1>9, SMT
  <1>11. v = 2 * (c \div 2 + (f % 64) * 16 + (c % 2) * 1024 + (a + b * 8) * 2048) - 1048576 * (f \div 64)
    BY <1>1, <1>2, SMT DEF v
  <1>12. 2^20 = 1048576
    BY SMT
  <1>13. JumpValue(a, b, c, f) = v
    BY <1>11, <1>12, SMT DEF JumpValue
  <1>14. QED  BY <1>10, <1>12, <1>13, SMT DEF JumpParts

SignedValue(f, r) == (f % 64) * 32 + r - 2048 * (f \div 64)
BranchValue(f, r) == 2 * (r \div 2 + (f % 64) * 16 + (r % 2) * 1024) - 4096 * (f \div 64)

\* The fields encode scatters a branch's and an upper immediate over.
BranchLow(v) == ((v \div 2048) % 2) + 2 * ((v \div 2) % 16)
BranchHigh(v) == ((v \div 32) % 64) + 64 * ((v \div 4096) % 2)
UpperRs1(v) == (v \div 8) % 32
UpperRs2(v) == (v \div 256) % 32
UpperFunct7(v) == (v \div 8192) % 128

\* An immediate split over the fields of its format has its value there.
LEMMA BackI ==
  ASSUME NEW v \in OtherImmediates
  PROVE  SignedValue((v \div 32) % 128, v % 32) = v
  BY SMTT(60) DEF OtherImmediates, SignedValue

\* A store's, whose bit 31 encode drops, loses its sign.
LEMMA BackS ==
  ASSUME NEW v \in OtherImmediates
  PROVE  SignedValue((v \div 32) % 64, v % 32) = v % 2048
  <1>1. v % 2048 = IF v < 0 THEN v + 2048 ELSE v
    BY SMT DEF OtherImmediates
  <1>2. PICK k \in -64 .. 63, r \in 0 .. 31 : v = 32 * k + r /\ v % 32 = r /\ v \div 32 = k
    <2>1. v = 32 * (v \div 32) + (v % 32) /\ v \div 32 \in -64 .. 63 /\ v % 32 \in 0 .. 31
      BY SMT DEF OtherImmediates
    <2>2. QED  BY <2>1
  <1>3. k % 64 = IF v < 0 THEN k + 64 ELSE k
    BY <1>2, SMT
  <1>4. PICK f \in 0 .. 63 : f = k % 64 /\ f % 64 = f /\ f \div 64 = 0
    BY <1>2, SMT
  <1>5. SignedValue(f, r) = f * 32 + r
    BY <1>4, SMT DEF SignedValue
  <1>6. QED  BY <1>1, <1>2, <1>3, <1>4, <1>5, SMT

\* The same of a branch's offset,
LEMMA BackB ==
  ASSUME NEW v \in BranchOffsets
  PROVE  BranchValue(BranchHigh(v), BranchLow(v)) = v
  <1>1. PICK h \in -2048 .. 2047 : v = 2 * h
    BY SMT DEF BranchOffsets
  <1> DEFINE r == ((v \div 2048) % 2) + 2 * ((v \div 2) % 16)
             f == ((v \div 32) % 64) + 64 * ((v \div 4096) % 2)
  <1>2. 2 * (r \div 2 + (f % 64) * 16 + (r % 2) * 1024) - 4096 * (f \div 64) = v
    BY <1>1, SMTT(60)
  <1> HIDE DEF r, f
  <1>3. BranchValue(f, r) = v
    BY <1>2 DEF BranchValue
  <1>4. f = BranchHigh(v) /\ r = BranchLow(v)
    BY DEF f, r, BranchHigh, BranchLow
  <1>5. QED  BY <1>3, <1>4

\* and of an upper immediate.
LEMMA BackU ==
  ASSUME NEW v \in UpperImmediates
  PROVE  UpperValue(v % 8, UpperRs1(v), UpperRs2(v), UpperFunct7(v)) = v
  <1>0. v \in Nat /\ v < 1048576
    BY SMT DEF UpperImmediates
  <1>1. PICK b \in Nat, a \in 0 .. 7 : b < 131072 /\ v = 8 * b + a /\ v % 8 = a /\ v \div 8 = b
    BY <1>0, SMT
  <1>2. PICK c \in Nat, d \in 0 .. 31 : c < 4096 /\ b = 32 * c + d /\ b % 32 = d /\ v \div 256 = c
    BY <1>1, SMT
  <1> DEFINE e == c % 32
             f == c \div 32
  <1>3. e \in 0 .. 31 /\ f \in 0 .. 127 /\ c = 32 * f + e
    BY <1>2, SMT
  <1> HIDE DEF e, f
  <1>4. v = 8192 * f + (256 * e + 8 * d + a) /\ 256 * e + 8 * d + a < 8192
    BY <1>1, <1>2, <1>3, SMT
  <1>5. v \div 8192 = f /\ f % 128 = f
    BY <1>3, <1>4, SMT
  <1>6. c % 32 = e
    BY DEF e
  <1>7. (v \div 8) % 32 = d /\ (v \div 256) % 32 = e /\ (v \div 8192) % 128 = f
    BY <1>1, <1>2, <1>5, <1>6
  <1>8. a + d * 8 + e * 256 + f * 8192 = v
    BY <1>1, <1>2, <1>3, <1>4, SMT
  <1>9. UpperValue(a, d, e, f) = v
    BY <1>8 DEF UpperValue
  <1>10. UpperRs1(v) = d /\ UpperRs2(v) = e /\ UpperFunct7(v) = f
    BY <1>7 DEF UpperRs1, UpperRs2, UpperFunct7
  <1>11. QED  BY <1>1, <1>9, <1>10

\* The low 20 bits of a jump's offset, put where lui has its immediate.
LEMMA BackJ ==
  ASSUME NEW v \in JumpOffsets
  PROVE  JumpValue(v % 8, UpperRs1(v), UpperRs2(v), UpperFunct7(v)) = JumpOfUpper(v % 2^20)
  <1>0. 2^20 = 1048576 /\ 2^19 = 524288
    BY SMT
  <1>1. PICK q \in {-1, 0}, u \in Nat :
          u < 1048576 /\ v = 1048576 * q + u /\ v % 1048576 = u
    <2>1. v \in Int /\ -1048576 <= v /\ v < 1048576
      BY <1>0, SMT DEF JumpOffsets
    <2>2. CASE v < 0
      <3>1. v + 1048576 \in Nat /\ v + 1048576 < 1048576 /\ v % 1048576 = v + 1048576
        BY <2>1, <2>2, SMT
      <3>2. QED  BY <2>1, <3>1, SMT
    <2>3. CASE v >= 0
      <3>1. v % 1048576 = v
        BY <2>1, <2>3, SMT
      <3>2. QED  BY <2>1, <2>3, <3>1, SMT
    <2>4. QED  BY <2>1, <2>2, <2>3, SMT
  <1>2. PICK a \in 0 .. 7, x \in Nat : x < 131072 /\ u = a + 8 * x
    <2>1. u = (u % 8) + 8 * (u \div 8) /\ u % 8 \in 0 .. 7 /\ u \div 8 \in Nat /\ u \div 8 < 131072
      BY <1>1, SMT
    <2>2. QED  BY <2>1
  <1>3. PICK b \in 0 .. 31, y \in Nat : y < 4096 /\ x = b + 32 * y
    <2>1. x = (x % 32) + 32 * (x \div 32) /\ x % 32 \in 0 .. 31 /\ x \div 32 \in Nat /\ x \div 32 < 4096
      BY <1>2, SMT
    <2>2. QED  BY <2>1
  <1>4. PICK c \in 0 .. 31, f \in 0 .. 127 : y = c + 32 * f
    <2>1. y = (y % 32) + 32 * (y \div 32) /\ y % 32 \in 0 .. 31 /\ y \div 32 \in 0 .. 127
      BY <1>3, SMT
    <2>2. QED  BY <2>1
  <1>5. PICK h \in 0 .. 15, l \in 0 .. 1 : c = 2 * h + l /\ h = c \div 2 /\ l = c % 2
    <2>1. c = 2 * (c \div 2) + (c % 2) /\ c \div 2 \in 0 .. 15 /\ c % 2 \in 0 .. 1
      BY SMT
    <2>2. QED  BY <2>1
  <1>6. PICK s \in 0 .. 1, g \in 0 .. 63 : f = 64 * s + g /\ s = f \div 64 /\ g = f % 64
    <2>1. f = 64 * (f \div 64) + (f % 64) /\ f \div 64 \in 0 .. 1 /\ f % 64 \in 0 .. 63
      BY SMT
    <2>2. QED  BY <2>1
  <1>7. v \div 8 = x + 131072 * q
    BY <1>1, <1>2, SMT
  <1>8. v \div 256 = y + 4096 * q
    BY <1>1, <1>2, <1>3, SMT
  <1>9. v \div 8192 = f + 128 * q
    BY <1>1, <1>2, <1>3, <1>4, SMT
  <1>10. (x + 131072 * q) % 32 = b
    BY <1>3, SMT
  <1>11. (y + 4096 * q) % 32 = c
    BY <1>4, SMT
  <1>12. (f + 128 * q) % 128 = f
    BY SMT
  <1>13. v % 8 = a /\ UpperRs1(v) = b /\ UpperRs2(v) = c /\ UpperFunct7(v) = f
    <2>1. v % 8 = a
      BY <1>1, <1>2, SMT
    <2>2. QED
      BY <2>1, <1>7, <1>8, <1>9, <1>10, <1>11, <1>12, SMT DEF UpperRs1, UpperRs2, UpperFunct7
  <1>14. u % 256 = a + 8 * b /\ u \div 256 = c + 32 * f
    BY <1>2, <1>3, <1>4, SMT
  <1>15. (c + 32 * f) % 2 = l
    BY <1>5, SMT
  <1>16. u \div 512 = h + 16 * g + 1024 * s
    BY <1>2, <1>3, <1>4, <1>5, <1>6, SMT
  <1>17. (h + 16 * g + 1024 * s) % 1024 = h + 16 * g
    BY SMT
  <1>18. u \div 524288 = s
    BY <1>2, <1>3, <1>4, <1>6, SMT
  <1>19. JumpOfUpper(u) = 2 * (h + 16 * g) + 2048 * l + 4096 * (a + 8 * b) - 1048576 * s
    BY <1>0, <1>14, <1>15, <1>16, <1>17, <1>18, SMT DEF JumpOfUpper
  <1>20. JumpValue(a, b, c, f) = 2 * (h + g * 16 + l * 1024 + (a + b * 8) * 2048) - 1048576 * s
    BY <1>0, <1>5, <1>6, SMT DEF JumpValue
  <1>21. JumpValue(a, b, c, f) = JumpOfUpper(u)
    BY <1>19, <1>20, SMT
  <1>22. v % 2^20 = u
    BY <1>0, <1>1, SMT
  <1>23. QED  BY <1>13, <1>21, <1>22, Zenon

\* encode undoes decode (riscv_inst.h), for every word that decode gives an op_t.
LEMMA WordAgain ==
  ASSUME NEW w \in Word, NEW old, Op(Str(w)) # "INVALID"
  PROVE  LET d == Decode(w, old)
         IN  Encode(d) = IF d.imm = "Simm" THEN [w EXCEPT !.funct7 = @ % 64] ELSE w
  <1> DEFINE d == Decode(w, old)
  <1>1. /\ w.opcode \in 0 .. 127 /\ w.rd \in 0 .. 31 /\ w.funct3 \in 0 .. 7
        /\ w.rs1 \in 0 .. 31 /\ w.rs2 \in 0 .. 31 /\ w.funct7 \in 0 .. 127
    BY DEF Word
  <1>2. w = Fields(w.opcode, w.rd, w.funct3, w.rs1, w.rs2, w.funct7)
    BY WordIsFields
  <1>3. CASE w.opcode = \h33
    <2>1. Format(w, old) = <<"RType", "Rimm">>
      BY <1>3, FormatOf
    <2>2. d.riscv = "RType" /\ d.imm = "Rimm" /\ Encode(d) = w
      BY <2>1, Decoded, EncodeOf, <1>2
    <2>3. QED  BY <2>2
  <1>4. CASE w.opcode = \h73
    <2>1. Format(w, old) = <<"PType", "Rimm">>
      BY <1>4, FormatOf
    <2>2. /\ d.riscv = "PType" /\ d.imm = "Rimm" /\ d.funct12 = Funct12(w)
          /\ d.opcode = w.opcode /\ d.rd = w.rd /\ d.funct3 = w.funct3 /\ d.rs1 = w.rs1
      BY <2>1, Decoded
    <2>3. Funct12(w) % 32 = w.rs2 /\ Funct12(w) \div 32 = w.funct7
      <3>1. PICK s \in 0 .. 127, r \in 0 .. 31 : s = w.funct7 /\ r = w.rs2
        BY <1>1, Zenon
      <3>2. (s * 32 + r) % 32 = r /\ (s * 32 + r) \div 32 = s
        BY <3>1, SMT
      <3>3. QED  BY <3>1, <3>2, Zenon DEF Funct12
    <2>4. Encode(d) = Fields(d.opcode, d.rd, d.funct3, d.rs1, d.funct12 % 32, d.funct12 \div 32)
      BY <2>2, EncodeOf
    <2>5. QED  BY <2>2, <2>3, <2>4, <1>2
  <1>5. CASE w.opcode \in {\h67, \h03, \h13}
    <2>1. Format(w, old) = <<"IType", "Iimm">>
      BY <1>5, FormatOf
    <2>2. /\ d.riscv = "IType" /\ d.imm = "Iimm" /\ d.op = Op(Str(w))
          /\ d.opcode = w.opcode /\ d.rd = w.rd /\ d.funct3 = w.funct3 /\ d.rs1 = w.rs1
          /\ d.funct7 = w.funct7 /\ d.imm_value = Analyze(w, "Iimm", old.imm_value)
      BY <2>1, Decoded
    <2>3. Encode(d) = EncodeI(d)
      BY <2>2, EncodeOf
    <2>4. CASE d.op \in Shifts
      <3>1. d.imm_value = w.rs2
        BY <2>2, <2>4, <1>5, ShiftsByImmediate, AnalyzeOf
      <3>2. d.imm_value % 32 = w.rs2
        BY <3>1, <1>1, SMT
      <3>3. EncodeI(d) = Fields(d.opcode, d.rd, d.funct3, d.rs1, d.imm_value % 32, d.funct7)
        BY <2>4 DEF EncodeI, Shifts
      <3>4. QED  BY <2>2, <2>3, <3>2, <3>3, <1>2
    <2>5. CASE d.op \notin Shifts
      <3>1. d.imm_value = (w.funct7 % 64) * 32 + w.rs2 - 2048 * (w.funct7 \div 64)
        BY <2>2, <2>5, <1>5, ShiftsByImmediate, AnalyzeOf DEF Bit31
      <3>2. d.imm_value % 32 = w.rs2 /\ (d.imm_value \div 32) % 128 = w.funct7
        BY <3>1, <1>1, ImmI
      <3>3. EncodeI(d) = Fields(d.opcode, d.rd, d.funct3, d.rs1, d.imm_value % 32,
                                (d.imm_value \div 32) % 128)
        BY <2>5 DEF EncodeI, Shifts
      <3>4. QED  BY <2>2, <2>3, <3>2, <3>3, <1>2
    <2>6. QED  BY <2>4, <2>5
  <1>6. CASE w.opcode = \h23
    <2>1. Format(w, old) = <<"SType", "Simm">>
      BY <1>6, FormatOf
    <2>2. /\ d.riscv = "SType" /\ d.imm = "Simm"
          /\ d.opcode = w.opcode /\ d.funct3 = w.funct3 /\ d.rs1 = w.rs1 /\ d.rs2 = w.rs2
          /\ d.imm_value = Analyze(w, "Simm", old.imm_value)
      BY <2>1, Decoded
    <2>3. d.imm_value = (w.funct7 % 64) * 32 + w.rd - 2048 * (w.funct7 \div 64)
      BY <2>2, AnalyzeOf DEF Bit31
    <2>4. d.imm_value % 32 = w.rd /\ (d.imm_value \div 32) % 64 = w.funct7 % 64
      BY <2>3, <1>1, ImmI
    <2>5. Encode(d) = Fields(d.opcode, d.imm_value % 32, d.funct3, d.rs1, d.rs2, (d.imm_value \div 32) % 64)
      BY <2>2, EncodeOf DEF EncodeS
    <2>6. [w EXCEPT !.funct7 = @ % 64] = Fields(w.opcode, w.rd, w.funct3, w.rs1, w.rs2, w.funct7 % 64)
      BY DEF Word, Fields
    <2>7. QED  BY <2>2, <2>4, <2>5, <2>6
  <1>7. CASE w.opcode = \h63
    <2>1. Format(w, old) = <<"SType", "Bimm">>
      BY <1>7, FormatOf
    <2>2. /\ d.riscv = "SType" /\ d.imm = "Bimm"
          /\ d.opcode = w.opcode /\ d.funct3 = w.funct3 /\ d.rs1 = w.rs1 /\ d.rs2 = w.rs2
          /\ d.imm_value = Analyze(w, "Bimm", old.imm_value)
      BY <2>1, Decoded
    <2>3. d.imm_value = 2 * (w.rd \div 2 + (w.funct7 % 64) * 16 + (w.rd % 2) * 1024)
                        - 4096 * (w.funct7 \div 64)
      BY <2>2, AnalyzeOf DEF Bit31
    <2>4. /\ ((d.imm_value \div 2048) % 2) + 2 * ((d.imm_value \div 2) % 16) = w.rd
          /\ ((d.imm_value \div 32) % 64) + 64 * ((d.imm_value \div 4096) % 2) = w.funct7
      BY <2>3, <1>1, ImmB
    <2>5. Encode(d) = Fields(d.opcode, ((d.imm_value \div 2048) % 2) + 2 * ((d.imm_value \div 2) % 16),
                             d.funct3, d.rs1, d.rs2,
                             ((d.imm_value \div 32) % 64) + 64 * ((d.imm_value \div 4096) % 2))
      BY <2>2, EncodeOf DEF EncodeS
    <2>6. QED  BY <2>2, <2>4, <2>5, <1>2
  <1>8. CASE w.opcode \in {\h37, \h17}
    <2>1. Format(w, old) = <<"UType", "Uimm">>
      BY <1>8, FormatOf
    <2>2. /\ d.riscv = "UType" /\ d.imm = "Uimm" /\ d.opcode = w.opcode /\ d.rd = w.rd
          /\ d.imm_value = Analyze(w, "Uimm", old.imm_value)
      BY <2>1, Decoded
    <2>3. d.imm_value = UpperValue(w.funct3, w.rs1, w.rs2, w.funct7)
      BY <2>2, AnalyzeOf DEF UpperValue
    <2>4. /\ d.imm_value % 8 = w.funct3 /\ (d.imm_value \div 8) % 32 = w.rs1
          /\ (d.imm_value \div 256) % 32 = w.rs2 /\ (d.imm_value \div 8192) % 128 = w.funct7
      <3>1. UpperParts(d.imm_value, w.funct3, w.rs1, w.rs2, w.funct7)
        <4> HIDE DEF d
        <4>1. PICK a \in 0 .. 7, b \in 0 .. 31, c \in 0 .. 31, f \in 0 .. 127 :
                a = w.funct3 /\ b = w.rs1 /\ c = w.rs2 /\ f = w.funct7
          BY <1>1
        <4>2. UpperParts(UpperValue(a, b, c, f), a, b, c, f)
          BY ImmU
        <4>3. QED  BY <2>3, <4>1, <4>2
      <3>2. QED  BY <3>1, SMT DEF UpperParts
    <2>5. Encode(d) = Fields(d.opcode, d.rd, d.imm_value % 8, (d.imm_value \div 8) % 32,
                             (d.imm_value \div 256) % 32, (d.imm_value \div 8192) % 128)
      BY <2>2, EncodeOf DEF EncodeU
    <2>6. QED  BY <2>2, <2>4, <2>5, <1>2
  <1>9. CASE w.opcode = \h6f
    <2>1. Format(w, old) = <<"UType", "Jimm">>
      BY <1>9, FormatOf
    <2>2. /\ d.riscv = "UType" /\ d.imm = "Jimm" /\ d.opcode = w.opcode /\ d.rd = w.rd
          /\ d.imm_value = Analyze(w, "Jimm", old.imm_value)
      BY <2>1, Decoded
    <2>3. d.imm_value = JumpValue(w.funct3, w.rs1, w.rs2, w.funct7)
      BY <2>2, AnalyzeOf DEF Bit31, JumpValue
    <2>4. /\ (d.imm_value \div 4096) % 8 = w.funct3 /\ (d.imm_value \div 32768) % 32 = w.rs1
          /\ ((d.imm_value \div 2048) % 2) + 2 * ((d.imm_value \div 2) % 16) = w.rs2
          /\ ((d.imm_value \div 32) % 64) + 64 * ((d.imm_value \div 2^20) % 2) = w.funct7
      <3>1. JumpParts(d.imm_value, w.funct3, w.rs1, w.rs2, w.funct7)
        <4> HIDE DEF d
        <4>1. PICK a \in 0 .. 7, b \in 0 .. 31, c \in 0 .. 31, f \in 0 .. 127 :
                a = w.funct3 /\ b = w.rs1 /\ c = w.rs2 /\ f = w.funct7
          BY <1>1
        <4>2. JumpParts(JumpValue(a, b, c, f), a, b, c, f)
          BY ImmJ
        <4>3. QED  BY <2>3, <4>1, <4>2
      <3>2. QED  BY <3>1, SMT DEF JumpParts
    <2>5. Encode(d) = Fields(d.opcode, d.rd, (d.imm_value \div 4096) % 8, (d.imm_value \div 32768) % 32,
                             ((d.imm_value \div 2048) % 2) + 2 * ((d.imm_value \div 2) % 16),
                             ((d.imm_value \div 32) % 64) + 64 * ((d.imm_value \div 2^20) % 2))
      BY <2>2, EncodeOf DEF EncodeU
    <2>6. QED  BY <2>2, <2>4, <2>5, <1>2
  <1>10. w.opcode \in Opcodes
    BY OpHasOpcode
  <1>11. QED  BY <1>3, <1>4, <1>5, <1>6, <1>7, <1>8, <1>9, <1>10 DEF Opcodes

-----------------------------------------------------------------------------
(* The assembler *)

Loads == {"lb", "lh", "lw", "lbu", "lhu"}
Stores == {"sb", "sh", "sw"}

\* select, by the groups of instructions.
LEMMA SelectOf ==
  ASSUME NEW op, NEW junk
  PROVE  /\ op \in Immediates => Select(op, junk) = SelectImmediate(op, junk)
         /\ op \in Arithmetics => Select(op, junk) = SelectArithmetic(op, junk)
         /\ op \in Multiplies => Select(op, junk) = SelectMultiply(op, junk)
         /\ op \in Uppers => Select(op, junk) = SelectUpper(op, junk)
         /\ op \in Branches => Select(op, junk) = SelectBranch(op, junk)
         /\ op \in Memories => Select(op, junk) = SelectMemory(op, junk)
         /\ op = "jalr" => Select(op, junk) = [riscv |-> "IType", imm |-> "Iimm", opcode |-> \h67,
                                               funct3 |-> 0, funct7 |-> junk, funct12 |-> junk]
         /\ op = "wfi" => Select(op, junk) = [riscv |-> "PType", imm |-> "Rimm", opcode |-> \h73,
                                              funct3 |-> 0, funct7 |-> junk, funct12 |-> \h105]
  BY DEF Select, Immediates, Arithmetics, Multiplies, Uppers, Branches, Memories

\* The tables of the register instructions.
LEMMA ArithmeticStrOf ==
  ASSUME NEW w
  PROVE  ArithmeticStr(w) =
           IF w.funct7 = \h00 THEN <<"add", "sll", "slt", "sltu", "xor", "srl", "or", "and">>[w.funct3 + 1]
           ELSE IF w.funct7 = \h01
           THEN <<"mul", "mulh", "mulhsu", "mulhu", "div", "divu", "rem", "remu">>[w.funct3 + 1]
           ELSE IF w.funct7 = \h20 /\ w.funct3 = 0 THEN "sub"
           ELSE IF w.funct7 = \h20 /\ w.funct3 = 5 THEN "sra"
           ELSE "invalid"
  BY DEF ArithmeticStr

\* The fields select chooses name the instruction again: of two registers,
LEMMA ArithmeticsNamed ==
  ASSUME NEW junk, NEW w
  PROVE  /\ \A op \in Arithmetics :
              LET s == SelectArithmetic(op, junk)
              IN  w.funct3 = s.funct3 /\ w.funct7 = s.funct7 => ArithmeticStr(w) = op
         /\ \A op \in Multiplies :
              LET s == SelectMultiply(op, junk)
              IN  w.funct3 = s.funct3 /\ w.funct7 = s.funct7 => ArithmeticStr(w) = op
  BY ArithmeticStrOf, SMT DEF Arithmetics, Multiplies, SelectArithmetic, SelectMultiply

\* of an immediate, whose funct7 only the shifts keep,
LEMMA ImmediatesNamed ==
  ASSUME NEW junk, NEW w
  PROVE  \A op \in Immediates :
           LET s == SelectImmediate(op, junk)
           IN  /\ s.funct3 \in 0 .. 7 /\ (op \in Shifts <=> s.funct3 \in {1, 5})
               /\ w.funct3 = s.funct3 /\ (op \in Shifts => w.funct7 = s.funct7) => ImmediateStr(w) = op
  BY ImmediateStrOf, SMT DEF Immediates, SelectImmediate, Shifts

\* of the memory,
LEMMA MemoriesNamed ==
  ASSUME NEW junk, NEW w
  PROVE  /\ \A op \in Loads :
              LET s == SelectMemory(op, junk)
              IN  /\ s.riscv = "IType" /\ s.imm = "Iimm" /\ s.opcode = \h03
                  /\ w.funct3 = s.funct3 => LoadStr(w) = op
         /\ \A op \in Stores :
              LET s == SelectMemory(op, junk)
              IN  /\ s.riscv = "SType" /\ s.imm = "Simm" /\ s.opcode = \h23
                  /\ w.funct3 = s.funct3 => StoreStr(w) = op
  BY SMT DEF Loads, Stores, SelectMemory, LoadStr, StoreStr

\* and the branches.
LEMMA BranchesNamed ==
  ASSUME NEW junk, NEW w
  PROVE  \A op \in Branches : w.funct3 = SelectBranch(op, junk).funct3 => BranchStr(w) = op
  BY SMT DEF Branches, SelectBranch, BranchStr

\* The table of the system instructions whose funct3 is 0.
LEMMA SystemStrOf ==
  ASSUME NEW w, w.funct3 = 0
  PROVE  /\ Funct12(w) = \h000 => SystemStr(w) = "ecall"
         /\ Funct12(w) = \h001 => SystemStr(w) = "ebreak"
         /\ Funct12(w) = \h105 => SystemStr(w) = "wfi"
         /\ Funct12(w) \notin {\h000, \h001, \h105} => SystemStr(w) = "system"
  BY DEF SystemStr

\* No op_t is called otherwise than its instruction, but for lui.
LEMMA OpOf ==
  /\ \A op \in Ops : Op(op) = op
  /\ Op("LUI") = "lui"
  BY DEF Op, Unsupported, Ops, Immediates, Arithmetics, Multiplies, Uppers, Branches, Memories

\* What assign leaves in an object.
LEMMA Assembled ==
  ASSUME NEW op, NEW junk, NEW o, NEW s, s = Select(op, junk)
  PROVE  LET inst == Assemble(op, junk, o)
         IN  /\ inst.op = op /\ inst.riscv = s.riscv /\ inst.imm = s.imm /\ inst.opcode = s.opcode
             /\ inst.funct3 = s.funct3 /\ inst.funct7 = s.funct7 /\ inst.funct12 = s.funct12
             /\ inst.rd = o.rd /\ inst.rs1 = o.rs1 /\ inst.rs2 = o.rs2 /\ inst.imm_value = o.imm_value
  BY DEF Assemble

\* The fields of a word put together from them.
LEMMA FieldsOf ==
  ASSUME NEW opcode, NEW rd, NEW funct3, NEW rs1, NEW rs2, NEW funct7
  PROVE  LET w == Fields(opcode, rd, funct3, rs1, rs2, funct7)
         IN  /\ w.opcode = opcode /\ w.rd = rd /\ w.funct3 = funct3
             /\ w.rs1 = rs1 /\ w.rs2 = rs2 /\ w.funct7 = funct7
  BY DEF Fields

\* The immediates, by the groups of instructions.
LEMMA OffsetsOf ==
  ASSUME NEW op, NEW v, Takes(op, v)
  PROVE  /\ op \in Shifts => v \in ShiftAmounts
         /\ op = "jal" => v \in JumpOffsets
         /\ op \in Uppers /\ op # "jal" => v \in UpperImmediates
         /\ op \in Branches => v \in BranchOffsets
         /\ op \notin Shifts \cup Uppers \cup Branches => v \in OtherImmediates
  <1>1. /\ op \in Uppers => op \notin Shifts
        /\ op \in Branches => op \notin Shifts \cup Uppers
        /\ "jal" \in Uppers
    BY DEF Shifts, Uppers, Branches
  <1>2. QED  BY <1>1, Zenon DEF Takes

\* What decoding the assembled instruction has to give back.
ReadBack(inst, d) ==
  /\ d.op = inst.op
  /\ inst.riscv # "SType" => d.rd = inst.rd
  /\ inst.riscv # "UType" => d.rs1 = inst.rs1
  /\ inst.riscv \in {"RType", "SType"} => d.rs2 = inst.rs2
  /\ inst.imm # "Rimm" => d.imm_value = ReadAs(inst)

\* The instructions of two registers: every field is kept.
LEMMA RegisterReadBack ==
  ASSUME NEW op \in Arithmetics \cup Multiplies, NEW junk, NEW o, NEW old
  PROVE  LET inst == Assemble(op, junk, o) IN ReadBack(inst, Decode(Encode(inst), old))
  <1> DEFINE s == Select(op, junk)
             inst == Assemble(op, junk, o)
             w == Encode(inst)
             d == Decode(w, old)
  <1>1. /\ s.riscv = "RType" /\ s.imm = "Rimm" /\ s.opcode = \h33
        /\ op \in Arithmetics => s = SelectArithmetic(op, junk)
        /\ op \in Multiplies => s = SelectMultiply(op, junk)
    BY SelectOf DEF SelectArithmetic, SelectMultiply
  <1>2. /\ inst.op = op /\ inst.riscv = "RType" /\ inst.imm = "Rimm" /\ inst.opcode = \h33
        /\ inst.funct3 = s.funct3 /\ inst.funct7 = s.funct7
    BY <1>1, Assembled
  <1> HIDE DEF s, inst
  <1>3. w = Fields(\h33, inst.rd, s.funct3, inst.rs1, inst.rs2, s.funct7)
    BY <1>2, EncodeOf
  <1>4. /\ w.opcode = \h33 /\ w.rd = inst.rd /\ w.rs1 = inst.rs1 /\ w.rs2 = inst.rs2
        /\ w.funct3 = s.funct3 /\ w.funct7 = s.funct7
    BY <1>3, FieldsOf
  <1> HIDE DEF w
  <1>5. Str(w) = op
    BY <1>1, <1>4, StrOf, ArithmeticsNamed
  <1>6. Format(w, old) = <<"RType", "Rimm">>
    BY <1>4, FormatOf
  <1>7. d.op = Op(Str(w)) /\ d.rd = w.rd /\ d.rs1 = w.rs1 /\ d.rs2 = w.rs2
    BY <1>6, Decoded
  <1>8. d.op = op
    BY <1>5, <1>7, OpOf DEF Ops
  <1>9. ReadBack(inst, d)
    BY <1>2, <1>4, <1>7, <1>8 DEF ReadBack
  <1>10. QED  BY <1>9 DEF inst, w

\* The instructions of an immediate: a shift keeps funct7 and five bits of it, any
\* other gives all twelve to it.
LEMMA ImmediateReadBack ==
  ASSUME NEW op \in Immediates, NEW junk, NEW o, NEW old,
         Takes(op, o.imm_value)
  PROVE  LET inst == Assemble(op, junk, o) IN ReadBack(inst, Decode(Encode(inst), old))
  <1> DEFINE s == Select(op, junk)
             inst == Assemble(op, junk, o)
             w == Encode(inst)
             d == Decode(w, old)
  <1>1. s = SelectImmediate(op, junk) /\ s.riscv = "IType" /\ s.imm = "Iimm" /\ s.opcode = \h13
    BY SelectOf DEF SelectImmediate
  <1>2. /\ inst.op = op /\ inst.riscv = "IType" /\ inst.imm = "Iimm" /\ inst.opcode = \h13
        /\ inst.funct3 = s.funct3 /\ inst.funct7 = s.funct7 /\ inst.imm_value = o.imm_value
    BY <1>1, Assembled
  <1>3. s.funct3 \in 0 .. 7 /\ (op \in Shifts <=> s.funct3 \in {1, 5})
    BY <1>1, ImmediatesNamed
  <1> HIDE DEF s, inst
  <1> DEFINE v == inst.imm_value
  <1>4. w = EncodeI(inst)
    BY <1>2, EncodeOf
  <1>5. w = Fields(\h13, inst.rd, s.funct3, inst.rs1, v % 32,
                   IF op \in Shifts THEN s.funct7 ELSE (v \div 32) % 128)
    BY <1>2, <1>4 DEF EncodeI, Shifts
  <1>6. /\ w.opcode = \h13 /\ w.rd = inst.rd /\ w.rs1 = inst.rs1 /\ w.funct3 = s.funct3
        /\ w.rs2 = v % 32 /\ w.funct7 = IF op \in Shifts THEN s.funct7 ELSE (v \div 32) % 128
    BY <1>5, FieldsOf
  <1> HIDE DEF w
  <1>7. Str(w) = op
    BY <1>1, <1>6, StrOf, ImmediatesNamed
  <1>8. Format(w, old) = <<"IType", "Iimm">>
    BY <1>6, FormatOf
  <1>9. d.op = Op(Str(w)) /\ d.rd = w.rd /\ d.rs1 = w.rs1 /\ d.imm_value = Analyze(w, "Iimm", old.imm_value)
    BY <1>8, Decoded
  <1>10. d.op = op
    BY <1>7, <1>9, OpOf DEF Ops
  <1>11. d.imm_value = v
    <2>1. CASE op \in Shifts
      <3>1. v \in ShiftAmounts
        BY <1>2, <2>1, OffsetsOf, Zenon
      <3>2. v % 32 = v
        BY <3>1, SMT DEF ShiftAmounts
      <3>3. QED  BY <1>3, <1>6, <1>9, <2>1, <3>2, AnalyzeOf
    <2>2. CASE op \notin Shifts
      <3>1. v \in OtherImmediates
        <4>1. op \notin Shifts \cup Uppers \cup Branches
          BY <2>2 DEF Immediates, Uppers, Branches
        <4>2. QED  BY <1>2, <4>1, OffsetsOf, Zenon
      <3>2. d.imm_value = SignedValue(w.funct7, w.rs2)
        BY <1>3, <1>6, <1>9, <2>2, AnalyzeOf DEF Bit31, SignedValue
      <3>3. QED  BY <1>6, <2>2, <3>1, <3>2, BackI, Zenon
    <2>3. QED  BY <2>1, <2>2
  <1>12. ReadAs(inst) = v
    BY <1>2 DEF ReadAs, Immediates
  <1>13. ReadBack(inst, d)
    BY <1>2, <1>6, <1>9, <1>10, <1>11, <1>12 DEF ReadBack
  <1>14. QED  BY <1>13 DEF inst, w

\* The loads and jalr.
LEMMA LoadReadBack ==
  ASSUME NEW op \in Loads \cup {"jalr"}, NEW junk, NEW o, NEW old,
         Takes(op, o.imm_value)
  PROVE  LET inst == Assemble(op, junk, o) IN ReadBack(inst, Decode(Encode(inst), old))
  <1> DEFINE s == Select(op, junk)
             inst == Assemble(op, junk, o)
             w == Encode(inst)
             d == Decode(w, old)
  <1>1. /\ s.riscv = "IType" /\ s.imm = "Iimm"
        /\ op \in Loads => s = SelectMemory(op, junk) /\ s.opcode = \h03
        /\ op = "jalr" => s.opcode = \h67
    <2>1. CASE op \in Loads
      <3>1. s = SelectMemory(op, junk) /\ op # "jalr"
        BY <2>1, SelectOf DEF Loads, Memories
      <3>2. QED  BY <2>1, <3>1, MemoriesNamed
    <2>2. CASE op = "jalr"
      BY <2>2, SelectOf DEF Loads
    <2>3. QED  BY <2>1, <2>2
  <1>2. /\ inst.op = op /\ inst.riscv = "IType" /\ inst.imm = "Iimm" /\ inst.opcode = s.opcode
        /\ inst.funct3 = s.funct3 /\ inst.imm_value = o.imm_value
    BY <1>1, Assembled
  <1> HIDE DEF s, inst
  <1> DEFINE v == inst.imm_value
  <1>3. op \notin Shifts /\ op \in Ops
    BY DEF Shifts, Loads, Ops, Memories
  <1>4. w = Fields(s.opcode, inst.rd, s.funct3, inst.rs1, v % 32, (v \div 32) % 128)
    BY <1>2, <1>3, EncodeOf DEF EncodeI, Shifts
  <1>5. /\ w.opcode = s.opcode /\ w.rd = inst.rd /\ w.rs1 = inst.rs1 /\ w.funct3 = s.funct3
        /\ w.rs2 = v % 32 /\ w.funct7 = (v \div 32) % 128
    BY <1>4, FieldsOf
  <1> HIDE DEF w
  <1>6. Str(w) = op
    BY <1>1, <1>5, StrOf, MemoriesNamed
  <1>7. Format(w, old) = <<"IType", "Iimm">>
    BY <1>1, <1>5, FormatOf
  <1>8. d.op = Op(Str(w)) /\ d.rd = w.rd /\ d.rs1 = w.rs1 /\ d.imm_value = Analyze(w, "Iimm", old.imm_value)
    BY <1>7, Decoded
  <1>9. d.op = op
    BY <1>3, <1>6, <1>8, OpOf
  <1>10. d.imm_value = v
    <2>1. v \in OtherImmediates
      <3>1. op \notin Shifts \cup Uppers \cup Branches
        BY DEF Loads, Shifts, Uppers, Branches
      <3>2. QED  BY <1>2, <3>1, OffsetsOf, Zenon
    <2>2. d.imm_value = SignedValue(w.funct7, w.rs2)
      BY <1>1, <1>5, <1>8, AnalyzeOf DEF Bit31, SignedValue
    <2>3. QED  BY <1>5, <2>1, <2>2, BackI, Zenon
  <1>11. ReadAs(inst) = v
    BY <1>2 DEF ReadAs, Loads
  <1>12. ReadBack(inst, d)
    BY <1>2, <1>5, <1>8, <1>9, <1>10, <1>11 DEF ReadBack
  <1>13. QED  BY <1>12 DEF inst, w

\* The stores.
LEMMA StoreReadBack ==
  ASSUME NEW op \in Stores, NEW junk, NEW o, NEW old,
         Takes(op, o.imm_value)
  PROVE  LET inst == Assemble(op, junk, o) IN ReadBack(inst, Decode(Encode(inst), old))
  <1> DEFINE s == Select(op, junk)
             inst == Assemble(op, junk, o)
             w == Encode(inst)
             d == Decode(w, old)
  <1>1. s = SelectMemory(op, junk) /\ s.riscv = "SType" /\ s.imm = "Simm" /\ s.opcode = \h23
    <2>1. s = SelectMemory(op, junk)
      BY SelectOf DEF Stores, Memories
    <2>2. QED  BY <2>1, MemoriesNamed
  <1>2. /\ inst.op = op /\ inst.riscv = "SType" /\ inst.imm = "Simm" /\ inst.opcode = \h23
        /\ inst.funct3 = s.funct3 /\ inst.imm_value = o.imm_value
    BY <1>1, Assembled
  <1> HIDE DEF s, inst
  <1> DEFINE v == inst.imm_value
  <1>3. w = Fields(\h23, v % 32, s.funct3, inst.rs1, inst.rs2, (v \div 32) % 64)
    BY <1>2, EncodeOf DEF EncodeS
  <1>4. /\ w.opcode = \h23 /\ w.rd = v % 32 /\ w.rs1 = inst.rs1 /\ w.rs2 = inst.rs2
        /\ w.funct3 = s.funct3 /\ w.funct7 = (v \div 32) % 64
    BY <1>3, FieldsOf
  <1> HIDE DEF w
  <1>5. Str(w) = op
    BY <1>1, <1>4, StrOf, MemoriesNamed
  <1>6. Format(w, old) = <<"SType", "Simm">>
    BY <1>4, FormatOf
  <1>7. d.op = Op(Str(w)) /\ d.rs1 = w.rs1 /\ d.rs2 = w.rs2 /\ d.imm_value = Analyze(w, "Simm", old.imm_value)
    BY <1>6, Decoded
  <1>8. d.op = op
    BY <1>5, <1>7, OpOf DEF Ops, Stores, Memories
  <1>9. d.imm_value = v % 2048
    <2>1. v \in OtherImmediates
      <3>1. op \notin Shifts \cup Uppers \cup Branches
        BY DEF Stores, Shifts, Uppers, Branches
      <3>2. QED  BY <1>2, <3>1, OffsetsOf, Zenon
    <2>2. d.imm_value = SignedValue(w.funct7, w.rd)
      BY <1>7, AnalyzeOf DEF Bit31, SignedValue
    <2>3. QED  BY <1>4, <2>1, <2>2, BackS
  <1>10. ReadAs(inst) = v % 2048
    BY <1>2 DEF ReadAs, Stores
  <1>11. ReadBack(inst, d)
    BY <1>2, <1>4, <1>7, <1>8, <1>9, <1>10 DEF ReadBack
  <1>12. QED  BY <1>11 DEF inst, w

\* The branches.
LEMMA BranchReadBack ==
  ASSUME NEW op \in Branches, NEW junk, NEW o, NEW old,
         Takes(op, o.imm_value)
  PROVE  LET inst == Assemble(op, junk, o) IN ReadBack(inst, Decode(Encode(inst), old))
  <1> DEFINE s == Select(op, junk)
             inst == Assemble(op, junk, o)
             w == Encode(inst)
             d == Decode(w, old)
  <1>1. s = SelectBranch(op, junk) /\ s.riscv = "SType" /\ s.imm = "Bimm" /\ s.opcode = \h63
    BY SelectOf DEF SelectBranch
  <1>2. /\ inst.op = op /\ inst.riscv = "SType" /\ inst.imm = "Bimm" /\ inst.opcode = \h63
        /\ inst.funct3 = s.funct3 /\ inst.imm_value = o.imm_value
    BY <1>1, Assembled
  <1> HIDE DEF s, inst
  <1> DEFINE v == inst.imm_value
  <1>3. w = Fields(\h63, BranchLow(v), s.funct3, inst.rs1, inst.rs2, BranchHigh(v))
    BY <1>2, EncodeOf DEF EncodeS, BranchLow, BranchHigh
  <1>4. /\ w.opcode = \h63 /\ w.rs1 = inst.rs1 /\ w.rs2 = inst.rs2 /\ w.funct3 = s.funct3
        /\ w.rd = BranchLow(v) /\ w.funct7 = BranchHigh(v)
    BY <1>3, FieldsOf
  <1> HIDE DEF w
  <1>5. Str(w) = op
    BY <1>1, <1>4, StrOf, BranchesNamed
  <1>6. Format(w, old) = <<"SType", "Bimm">>
    BY <1>4, FormatOf
  <1>7. d.op = Op(Str(w)) /\ d.rs1 = w.rs1 /\ d.rs2 = w.rs2 /\ d.imm_value = Analyze(w, "Bimm", old.imm_value)
    BY <1>6, Decoded
  <1>8. d.op = op
    BY <1>5, <1>7, OpOf DEF Ops
  <1>9. d.imm_value = v
    <2>1. v \in BranchOffsets
      BY <1>2, OffsetsOf, Zenon
    <2>2. d.imm_value = BranchValue(w.funct7, w.rd)
      BY <1>7, AnalyzeOf DEF Bit31, BranchValue
    <2>3. QED  BY <1>4, <2>1, <2>2, BackB, Zenon
  <1>10. ReadAs(inst) = v
    BY <1>2 DEF ReadAs, Branches
  <1>11. ReadBack(inst, d)
    BY <1>2, <1>4, <1>7, <1>8, <1>9, <1>10 DEF ReadBack
  <1>12. QED  BY <1>11 DEF inst, w

\* lui and auipc; and jal, whose immediate select makes a lui's.
LEMMA UpperReadBack ==
  ASSUME NEW op \in Uppers, NEW junk, NEW o, NEW old,
         Takes(op, o.imm_value)
  PROVE  LET inst == Assemble(op, junk, o) IN ReadBack(inst, Decode(Encode(inst), old))
  <1> DEFINE s == Select(op, junk)
             inst == Assemble(op, junk, o)
             w == Encode(inst)
             d == Decode(w, old)
  <1>1. /\ s.riscv = "UType" /\ s.imm = "Uimm"
        /\ s.opcode = IF op = "lui" THEN \h37 ELSE IF op = "auipc" THEN \h17 ELSE \h6f
    <2>1. s = SelectUpper(op, junk)
      BY SelectOf
    <2>2. QED  BY <2>1, SMT DEF SelectUpper, Uppers
  <1>2. /\ inst.op = op /\ inst.riscv = "UType" /\ inst.imm = "Uimm" /\ inst.opcode = s.opcode
        /\ inst.imm_value = o.imm_value
    BY <1>1, Assembled
  <1> HIDE DEF s, inst
  <1> DEFINE v == inst.imm_value
  <1>3. w = Fields(s.opcode, inst.rd, v % 8, UpperRs1(v), UpperRs2(v), UpperFunct7(v))
    BY <1>2, EncodeOf DEF EncodeU, UpperRs1, UpperRs2, UpperFunct7
  <1>4. /\ w.opcode = s.opcode /\ w.rd = inst.rd /\ w.funct3 = v % 8 /\ w.rs1 = UpperRs1(v)
        /\ w.rs2 = UpperRs2(v) /\ w.funct7 = UpperFunct7(v)
    BY <1>3, FieldsOf
  <1> HIDE DEF w
  <1>5. Str(w) = IF op = "lui" THEN "LUI" ELSE op
    BY <1>1, <1>4, StrOf DEF Uppers
  <1>6. Op(Str(w)) = op
    BY <1>5, OpOf DEF Ops
  <1>7. Format(w, old) = IF op = "jal" THEN <<"UType", "Jimm">> ELSE <<"UType", "Uimm">>
    BY <1>1, <1>4, FormatOf DEF Uppers
  <1>8. /\ d.op = Op(Str(w)) /\ d.rd = w.rd
        /\ op # "jal" => d.imm_value = Analyze(w, "Uimm", old.imm_value)
        /\ op = "jal" => d.imm_value = Analyze(w, "Jimm", old.imm_value)
    BY <1>7, Decoded
  <1>9. CASE op = "jal"
    <2>1. v \in JumpOffsets
      BY <1>2, <1>9, OffsetsOf, Zenon
    <2>2. d.imm_value = JumpValue(w.funct3, w.rs1, w.rs2, w.funct7)
      BY <1>8, <1>9, AnalyzeOf DEF Bit31, JumpValue
    <2>3. d.imm_value = JumpOfUpper(v % 2^20)
      BY <1>4, <2>1, <2>2, BackJ, Zenon
    <2>4. ReadAs(inst) = JumpOfUpper(v % 2^20)
      BY <1>2, <1>9 DEF ReadAs
    <2>5. ReadBack(inst, d)
      BY <1>2, <1>4, <1>6, <1>8, <2>3, <2>4 DEF ReadBack
    <2>6. QED  BY <2>5 DEF inst, w
  <1>10. CASE op # "jal"
    <2>1. v \in UpperImmediates
      BY <1>2, <1>10, OffsetsOf, Zenon
    <2>2. d.imm_value = UpperValue(w.funct3, w.rs1, w.rs2, w.funct7)
      BY <1>8, <1>10, AnalyzeOf DEF UpperValue
    <2>3. d.imm_value = v
      BY <1>4, <2>1, <2>2, BackU, Zenon
    <2>4. ReadAs(inst) = v
      BY <1>2, <1>10 DEF ReadAs
    <2>5. ReadBack(inst, d)
      BY <1>2, <1>4, <1>6, <1>8, <2>3, <2>4 DEF ReadBack
    <2>6. QED  BY <2>5 DEF inst, w
  <1>11. QED  BY <1>9, <1>10

\* wfi, which has no operands.
LEMMA SystemReadBack ==
  ASSUME NEW junk, NEW o, NEW old
  PROVE  LET inst == Assemble("wfi", junk, o) IN ReadBack(inst, Decode(Encode(inst), old))
  <1> DEFINE s == Select("wfi", junk)
             inst == Assemble("wfi", junk, o)
             w == Encode(inst)
             d == Decode(w, old)
  <1>1. /\ inst.op = "wfi" /\ inst.riscv = "PType" /\ inst.imm = "Rimm" /\ inst.opcode = \h73
        /\ inst.funct3 = 0 /\ inst.funct12 = \h105
    BY SelectOf, Assembled
  <1> HIDE DEF inst
  <1>2. w = Fields(\h73, inst.rd, 0, inst.rs1, \h105 % 32, \h105 \div 32)
    BY <1>1, EncodeOf
  <1>3. /\ w.opcode = \h73 /\ w.rd = inst.rd /\ w.rs1 = inst.rs1 /\ w.funct3 = 0
        /\ w.rs2 = \h105 % 32 /\ w.funct7 = \h105 \div 32
    BY <1>2, FieldsOf
  <1> HIDE DEF w
  <1>4. Funct12(w) = \h105
    BY <1>3, SMT DEF Funct12
  <1>5. Str(w) = "wfi"
    BY <1>3, <1>4, StrOf, SystemStrOf
  <1>6. Format(w, old) = <<"PType", "Rimm">>
    BY <1>3, FormatOf
  <1>7. d.op = Op(Str(w)) /\ d.rd = w.rd /\ d.rs1 = w.rs1
    BY <1>6, Decoded
  <1>8. d.op = "wfi"
    BY <1>5, <1>7, OpOf DEF Ops
  <1>9. ReadBack(inst, d)
    BY <1>1, <1>3, <1>7, <1>8 DEF ReadBack
  <1>10. QED  BY <1>9 DEF inst, w

\* assign, encode and decode (riscv_inst.h) give back the instruction, with the
\* immediate ReadAs says.
LEMMA InstructionAgain ==
  ASSUME NEW op \in Ops, NEW junk, NEW o, NEW old, Takes(op, o.imm_value)
  PROVE  LET inst == Assemble(op, junk, o) IN ReadBack(inst, Decode(Encode(inst), old))
  <1>1. \/ op \in Arithmetics \cup Multiplies \/ op \in Immediates \/ op \in Loads \cup {"jalr"}
        \/ op \in Stores \/ op \in Branches \/ op \in Uppers \/ op = "wfi"
    BY DEF Ops, Loads, Stores, Memories
  <1>2. QED
    BY <1>1, RegisterReadBack, ImmediateReadBack, LoadReadBack, StoreReadBack, BranchReadBack,
       UpperReadBack, SystemReadBack

\* Every sample is one the constants allow.
LEMMA Sampled ==
  ASSUME sample \in Encodings
  PROVE  /\ sample.kind = "word" => sample.word \in Word
         /\ sample.kind = "assembly" =>
              sample.of.op \in Ops /\ Takes(sample.of.op, sample.of.operands.imm_value)
  <1>1. CASE sample \in [kind : {"word"}, word : Words, old : Old]
    BY <1>1, DecodersAssumption DEF Word
  <1>2. CASE sample \in [kind : {"assembly"}, of : Assemblies]
    BY <1>2, DecodersAssumption
  <1>3. QED  BY <1>1, <1>2 DEF Encodings

\* EncodingsRoundTrip, of every word and of every instruction with any operands it
\* can have (riscv_inst.h): encode gives a decoded word back, but for bit 31 of a
\* store, which it clears; and decode gives back the instruction and the operands
\* that assign and encode were given, but for the offset of a store, of which it
\* gives the low 11 bits, and that of jal, of which it gives the low 20 bits,
\* scattered as JumpOfUpper says.
THEOREM EncodingsRoundTripHolds == DecodersSpec => []EncodingsRoundTrip
  <1>1. sample \in Encodings => EncodingsRoundTrip
    <2> SUFFICES ASSUME sample \in Encodings PROVE EncodingsRoundTrip
      OBVIOUS
    <2>1. EncodeInverts
      <3> SUFFICES ASSUME sample.kind = "word", Decode(sample.word, sample.old).op # "INVALID"
                   PROVE  LET d == Decode(sample.word, sample.old)
                          IN  Encode(d) = IF d.imm = "Simm" THEN [sample.word EXCEPT !.funct7 = @ % 64]
                                          ELSE sample.word
        BY DEF EncodeInverts
      <3>1. sample.word \in Word
        BY Sampled
      <3>2. Op(Str(sample.word)) # "INVALID"
        BY DEF Decode
      <3>3. QED  BY <3>1, <3>2, WordAgain
    <2>2. AssembledDecodes
      <3> SUFFICES ASSUME sample.kind = "assembly"
                   PROVE  LET a == sample.of
                              inst == Assemble(a.op, a.junk, a.operands)
                          IN  ReadBack(inst, Decode(Encode(inst), [riscv |-> "RType", imm |-> "Rimm",
                                                                   imm_value |-> a.junk]))
        BY DEF AssembledDecodes, ReadBack
      <3>1. sample.of.op \in Ops /\ Takes(sample.of.op, sample.of.operands.imm_value)
        BY Sampled
      <3>2. QED  BY <3>1, InstructionAgain
    <2>3. QED  BY <2>1, <2>2 DEF EncodingsRoundTrip
  <1>2. EncodingsRoundTrip /\ UNCHANGED sample => EncodingsRoundTrip'
    BY DEF EncodingsRoundTrip, EncodeInverts, AssembledDecodes
  <1>3. QED  BY <1>1, <1>2, PTL DEF DecodersSpec

-----------------------------------------------------------------------------
(* The processor's decoder *)

\* What it is to match the pattern of an R, an I and a U format.
LEMMA RtypeMatches ==
  ASSUME NEW w \in Word, NEW n, NEW op \in Nat, NEW a \in Nat, NEW b \in Nat, Patterns[n] = Rtype(op, a, b)
  PROVE  Matches(w, n) <=> w.opcode = op /\ w.funct3 = a /\ w.funct7 = b
  BY DEF Matches, Rtype, DontCare, Word
LEMMA ItypeMatches ==
  ASSUME NEW w \in Word, NEW n, NEW op \in Nat, NEW a \in Nat, Patterns[n] = Itype(op, a)
  PROVE  Matches(w, n) <=> w.opcode = op /\ w.funct3 = a
  BY DEF Matches, Rtype, Itype, DontCare, Word
LEMMA UtypeMatches ==
  ASSUME NEW w \in Word, NEW n, NEW op \in Nat, Patterns[n] = Utype(op)
  PROVE  Matches(w, n) <=> w.opcode = op
  BY DEF Matches, Rtype, Utype, DontCare, Word

\* A word matches the pattern of an instruction exactly if its opcode is the
\* instruction's and the library's table for it names the instruction.
LEMMA ArithmeticsMatch ==
  ASSUME NEW w \in Word, NEW n \in Arithmetics \cup Multiplies
  PROVE  Matches(w, n) <=> w.opcode = \h33 /\ ArithmeticStr(w) = n
  <1>1. /\ Patterns.add = Rtype(\h33, 0, 0) /\ Patterns.sub = Rtype(\h33, 0, \h20)
        /\ Patterns.sll = Rtype(\h33, 1, 0) /\ Patterns.slt = Rtype(\h33, 2, 0)
        /\ Patterns.sltu = Rtype(\h33, 3, 0) /\ Patterns.xor = Rtype(\h33, 4, 0)
        /\ Patterns.srl = Rtype(\h33, 5, 0) /\ Patterns.sra = Rtype(\h33, 5, \h20)
        /\ Patterns.or = Rtype(\h33, 6, 0) /\ Patterns.and = Rtype(\h33, 7, 0)
        /\ Patterns.mul = Rtype(\h33, 0, 1) /\ Patterns.mulh = Rtype(\h33, 1, 1)
        /\ Patterns.mulhsu = Rtype(\h33, 2, 1) /\ Patterns.mulhu = Rtype(\h33, 3, 1)
    BY DEF Patterns
  <1>2. w.funct3 \in 0 .. 7 /\ w.funct7 \in 0 .. 127
    BY DEF Word
  <1>3. \E a, b \in Nat : /\ Patterns[n] = Rtype(\h33, a, b)
                          /\ ArithmeticStr(w) = n <=> w.funct3 = a /\ w.funct7 = b
    BY <1>1, <1>2, ArithmeticStrOf, SMTT(60) DEF Arithmetics, Multiplies
  <1>4. QED  BY <1>3, RtypeMatches

LEMMA ImmediatesMatch ==
  ASSUME NEW w \in Word, NEW n \in Immediates
  PROVE  Matches(w, n) <=> w.opcode = \h13 /\ ImmediateStr(w) = n
  <1>1. /\ Patterns.addi = Itype(\h13, 0) /\ Patterns.slti = Itype(\h13, 2)
        /\ Patterns.sltiu = Itype(\h13, 3) /\ Patterns.xori = Itype(\h13, 4)
        /\ Patterns.ori = Itype(\h13, 6) /\ Patterns.andi = Itype(\h13, 7)
        /\ Patterns.slli = Rtype(\h13, 1, 0) /\ Patterns.srli = Rtype(\h13, 5, 0)
        /\ Patterns.srai = Rtype(\h13, 5, \h20)
    BY DEF Patterns
  <1>2. w.funct3 \in 0 .. 7 /\ w.funct7 \in 0 .. 127
    BY DEF Word
  <1>3. CASE n \in Shifts
    <2>1. \E a, b \in Nat : /\ Patterns[n] = Rtype(\h13, a, b)
                            /\ ImmediateStr(w) = n <=> w.funct3 = a /\ w.funct7 = b
      <3>1. CASE n = "slli"
        <4>1. Patterns[n] = Rtype(\h13, 1, 0)
          BY <1>1, <3>1
        <4>2. ImmediateStr(w) = n <=> w.funct3 = 1 /\ w.funct7 = 0
          BY <1>2, <3>1, ImmediateStrOf
        <4>3. QED  BY <4>1, <4>2
      <3>2. CASE n = "srli"
        <4>1. Patterns[n] = Rtype(\h13, 5, 0)
          BY <1>1, <3>2
        <4>2. ImmediateStr(w) = n <=> w.funct3 = 5 /\ w.funct7 = 0
          BY <1>2, <3>2, ImmediateStrOf
        <4>3. QED  BY <4>1, <4>2
      <3>3. CASE n = "srai"
        <4>1. Patterns[n] = Rtype(\h13, 5, \h20)
          BY <1>1, <3>3
        <4>2. ImmediateStr(w) = n <=> w.funct3 = 5 /\ w.funct7 = \h20
          BY <1>2, <3>3, ImmediateStrOf
        <4>3. QED  BY <4>1, <4>2
      <3>4. QED  BY <1>3, <3>1, <3>2, <3>3 DEF Shifts
    <2>2. QED  BY <2>1, RtypeMatches
  <1>4. CASE n \notin Shifts
    <2>1. \E a \in Nat : Patterns[n] = Itype(\h13, a) /\ (ImmediateStr(w) = n <=> w.funct3 = a)
      BY <1>1, <1>2, <1>4, ImmediateStrOf, SMTT(60) DEF Shifts, Immediates
    <2>2. QED  BY <2>1, ItypeMatches
  <1>5. QED  BY <1>3, <1>4

LEMMA BranchesMatch ==
  ASSUME NEW w \in Word, NEW n \in Branches
  PROVE  Matches(w, n) <=> w.opcode = \h63 /\ BranchStr(w) = n
  <1>1. /\ Patterns.beq = Itype(\h63, 0) /\ Patterns.bne = Itype(\h63, 1)
        /\ Patterns.blt = Itype(\h63, 4) /\ Patterns.bge = Itype(\h63, 5)
        /\ Patterns.bltu = Itype(\h63, 6) /\ Patterns.bgeu = Itype(\h63, 7)
    BY DEF Patterns
  <1>2. w.funct3 \in 0 .. 7
    BY DEF Word
  <1>3. \E a \in Nat : Patterns[n] = Itype(\h63, a) /\ (BranchStr(w) = n <=> w.funct3 = a)
    BY <1>1, <1>2, SMTT(60) DEF Branches, BranchStr
  <1>4. QED  BY <1>3, ItypeMatches

LEMMA MemoriesMatch ==
  ASSUME NEW w \in Word
  PROVE  /\ \A n \in Loads : Matches(w, n) <=> w.opcode = \h03 /\ LoadStr(w) = n
         /\ \A n \in Stores : Matches(w, n) <=> w.opcode = \h23 /\ StoreStr(w) = n
  <1>1. /\ Patterns.lb = Itype(\h03, 0) /\ Patterns.lh = Itype(\h03, 1) /\ Patterns.lw = Itype(\h03, 2)
        /\ Patterns.lbu = Itype(\h03, 4) /\ Patterns.lhu = Itype(\h03, 5)
        /\ Patterns.sb = Itype(\h23, 0) /\ Patterns.sh = Itype(\h23, 1) /\ Patterns.sw = Itype(\h23, 2)
    BY DEF Patterns
  <1>2. w.funct3 \in 0 .. 7
    BY DEF Word
  <1>3. \A n \in Loads : \E a \in Nat : Patterns[n] = Itype(\h03, a) /\ (LoadStr(w) = n <=> w.funct3 = a)
    BY <1>1, <1>2, SMTT(60) DEF Loads, LoadStr
  <1>4. \A n \in Stores : \E a \in Nat : Patterns[n] = Itype(\h23, a) /\ (StoreStr(w) = n <=> w.funct3 = a)
    BY <1>1, <1>2, SMTT(60) DEF Stores, StoreStr
  <1>5. QED  BY <1>3, <1>4, ItypeMatches

\* The instructions the processor executes and the library has no op_t for.
Csrs == {"csrrw", "csrrs", "csrrc"}

LEMMA OthersMatch ==
  ASSUME NEW w \in Word
  PROVE  /\ Matches(w, "lui") <=> w.opcode = \h37
         /\ Matches(w, "auipc") <=> w.opcode = \h17
         /\ Matches(w, "jal") <=> w.opcode = \h6f
         /\ Matches(w, "jalr") <=> w.opcode = \h67 /\ w.funct3 = 0
         /\ \A n \in Csrs : Matches(w, n) <=> w.opcode = \h73 /\ SystemStr(w) = n
  <1>1. /\ Patterns.lui = Utype(\h37) /\ Patterns.auipc = Utype(\h17) /\ Patterns.jal = Utype(\h6f)
        /\ Patterns.jalr = Itype(\h67, 0)
        /\ Patterns.csrrw = Itype(\h73, 1) /\ Patterns.csrrs = Itype(\h73, 2)
        /\ Patterns.csrrc = Itype(\h73, 3)
    BY DEF Patterns
  <1>2. w.funct3 \in 0 .. 7
    BY DEF Word
  <1>3. w.funct3 = 0 => SystemStr(w) \notin Csrs
    BY SystemStrOf DEF Csrs
  <1>4. w.funct3 # 0 =>
          SystemStr(w) = <<"csrrw", "csrrs", "csrrc", "invalid", "csrrwi", "csrrsi", "csrrci">>[w.funct3]
    BY DEF SystemStr
  <1>5. \A n \in Csrs : \E a \in Nat : Patterns[n] = Itype(\h73, a) /\ (SystemStr(w) = n <=> w.funct3 = a)
    BY <1>1, <1>2, <1>3, <1>4, SMTT(60) DEF Csrs
  <1>6. \A n \in Csrs : Matches(w, n) <=> w.opcode = \h73 /\ SystemStr(w) = n
    BY <1>5, ItypeMatches
  <1>7. Matches(w, "jalr") <=> w.opcode = \h67 /\ w.funct3 = 0
    BY <1>1, ItypeMatches
  <1>8. QED  BY <1>1, <1>6, <1>7, UtypeMatches
\* The processor executes what the library has an op_t for, but for the words it
\* reads more strictly, and three instructions more; by the name both give it.
Mnemonic(w) == IF Str(w) = "LUI" THEN "lui" ELSE Str(w)
Executed(w) ==
  \/ Op(Str(w)) # "INVALID" /\ (Op(Str(w)) = "jalr" => w.funct3 = 0)
                            /\ (Op(Str(w)) = "wfi" => w = WFI)
  \/ Mnemonic(w) \in Csrs

\* The groups the patterns are of.
LEMMA PatternNames ==
  DOMAIN Patterns = Immediates \cup Arithmetics \cup Multiplies \cup Uppers \cup Branches
                    \cup Loads \cup Stores \cup {"jalr"} \cup Csrs
  BY DEF Patterns, Immediates, Arithmetics, Multiplies, Uppers, Branches, Loads, Stores, Csrs

\* The names that are neither executed nor decoded.
Undecoded == Unsupported \ Csrs

\* The names decode gives the words of an opcode.
LEMMA StrAmong ==
  ASSUME NEW w \in Word
  PROVE  /\ w.opcode = \h63 => Str(w) \in Branches \cup Undecoded
         /\ w.opcode = \h03 => Str(w) \in Loads \cup Undecoded
         /\ w.opcode = \h23 => Str(w) \in Stores \cup Undecoded
         /\ w.opcode = \h13 => Str(w) \in Immediates \cup Undecoded
         /\ w.opcode = \h33 => Str(w) \in Arithmetics \cup Multiplies \cup Undecoded
         /\ w.opcode = \h73 => Str(w) \in Csrs \cup {"wfi"} \cup Undecoded
         /\ w.opcode \notin Opcodes => Str(w) \in Undecoded
  <1>1. w.funct3 \in 0 .. 7 /\ w.funct7 \in 0 .. 127
    BY DEF Word
  <1>2. {"invalid", "div", "divu", "rem", "remu", "fence", "ecall", "ebreak", "system", "csrrwi",
         "csrrsi", "csrrci"} \subseteq Undecoded
    BY DEF Undecoded, Unsupported, Csrs
  <1>3. w.opcode = \h63 => Str(w) \in Branches \cup {"invalid"}
    BY <1>1, StrOf, SMT DEF BranchStr, Branches
  <1>4. w.opcode = \h03 => Str(w) \in Loads \cup {"invalid"}
    BY <1>1, StrOf, SMT DEF LoadStr, Loads
  <1>5. w.opcode = \h23 => Str(w) \in Stores \cup {"invalid"}
    BY <1>1, StrOf, SMT DEF StoreStr, Stores
  <1>6. w.opcode = \h13 => Str(w) \in Immediates \cup {"invalid"}
    BY <1>1, StrOf, ImmediateStrOf, SMT DEF Immediates
  <1>7. w.opcode = \h33 => Str(w) \in Arithmetics \cup Multiplies \cup {"invalid", "div", "divu", "rem", "remu"}
    BY <1>1, StrOf, ArithmeticStrOf, SMT DEF Arithmetics, Multiplies
  <1>8. w.opcode = \h73 => Str(w) \in Csrs \cup {"wfi", "invalid", "ecall", "ebreak", "system", "csrrwi",
                                              "csrrsi", "csrrci"}
    <2>1. CASE w.funct3 = 0
      BY <2>1, StrOf, SystemStrOf
    <2>2. CASE w.funct3 # 0
      <3>1. SystemStr(w) = <<"csrrw", "csrrs", "csrrc", "invalid", "csrrwi", "csrrsi", "csrrci">>[w.funct3]
        BY <2>2 DEF SystemStr
      <3>2. SystemStr(w) \in Csrs \cup {"wfi", "invalid", "ecall", "ebreak", "system", "csrrwi",
                                     "csrrsi", "csrrci"}
        BY <1>1, <2>2, <3>1, SMT DEF Csrs
      <3>3. QED  BY <3>2, StrOf
    <2>3. QED  BY <2>1, <2>2
  <1>9. w.opcode \notin Opcodes => Str(w) \in {"invalid", "fence"}
    BY StrOf DEF Opcodes
  <1>10. QED  BY <1>2, <1>3, <1>4, <1>5, <1>6, <1>7, <1>8, <1>9

\* Which group of instructions a word of each opcode can match.
LEMMA MatchesAmong ==
  ASSUME NEW w \in Word, NEW n \in DOMAIN Patterns, Matches(w, n)
  PROVE  /\ w.opcode \in Opcodes
         /\ Mnemonic(w) = n /\ (n = "jalr" => w.funct3 = 0)
  <1>1. CASE n \in Immediates
    <2>1. w.opcode = \h13 /\ Str(w) = n
      BY <1>1, ImmediatesMatch, StrOf
    <2>2. n \notin {"LUI", "lui", "jalr"}
      BY <1>1 DEF Immediates
    <2>3. QED  BY <2>1, <2>2 DEF Mnemonic, Opcodes
  <1>2. CASE n \in Arithmetics \cup Multiplies
    <2>1. w.opcode = \h33 /\ Str(w) = n
      BY <1>2, ArithmeticsMatch, StrOf
    <2>2. n \notin {"LUI", "lui", "jalr"}
      BY <1>2 DEF Arithmetics, Multiplies
    <2>3. QED  BY <2>1, <2>2 DEF Mnemonic, Opcodes
  <1>3. CASE n \in Branches
    <2>1. w.opcode = \h63 /\ Str(w) = n
      BY <1>3, BranchesMatch, StrOf
    <2>2. n \notin {"LUI", "lui", "jalr"}
      BY <1>3 DEF Branches
    <2>3. QED  BY <2>1, <2>2 DEF Mnemonic, Opcodes
  <1>4. CASE n \in Loads \cup Stores
    <2>1. w.opcode \in {\h03, \h23} /\ Str(w) = n
      BY <1>4, MemoriesMatch, StrOf
    <2>2. n \notin {"LUI", "lui", "jalr"}
      BY <1>4 DEF Loads, Stores
    <2>3. QED  BY <2>1, <2>2 DEF Mnemonic, Opcodes
  <1>5. CASE n \in Csrs
    <2>1. w.opcode = \h73 /\ Str(w) = n
      BY <1>5, OthersMatch, StrOf
    <2>2. n \notin {"LUI", "lui", "jalr"}
      BY <1>5 DEF Csrs
    <2>3. QED  BY <2>1, <2>2 DEF Mnemonic, Opcodes
  <1>6. CASE n \in Uppers \cup {"jalr"}
    <2>1. n \in {"lui", "auipc", "jal", "jalr"}
      BY <1>6 DEF Uppers
    <2>2. QED  BY <2>1, OthersMatch, StrOf DEF Mnemonic, Opcodes
  <1>7. QED  BY <1>1, <1>2, <1>3, <1>4, <1>5, <1>6, PatternNames

\* Only one opcode is named "LUI",
LEMMA StrIsLui ==
  ASSUME NEW w \in Word PROVE Str(w) = "LUI" <=> w.opcode = \h37
  <1>1. "LUI" \notin Undecoded \cup Branches \cup Loads \cup Stores \cup Immediates
                    \cup Arithmetics \cup Multiplies \cup Csrs \cup {"wfi"}
    BY DEF Undecoded, Unsupported, Immediates, Arithmetics, Multiplies, Branches, Loads, Stores, Csrs
  <1>2. QED  BY <1>1, StrAmong, StrOf DEF Opcodes

\* and none "nop".
LEMMA StrIsNotNop ==
  ASSUME NEW w \in Word PROVE Str(w) # "nop"
  <1>1. "nop" \notin Undecoded \cup Branches \cup Loads \cup Stores \cup Immediates
                    \cup Arithmetics \cup Multiplies \cup Csrs \cup {"wfi"}
    BY DEF Undecoded, Unsupported, Immediates, Arithmetics, Multiplies, Branches, Loads, Stores, Csrs
  <1>2. QED  BY <1>1, StrAmong, StrOf DEF Opcodes

\* The word matches the pattern of its name, if there is one.
LEMMA MnemonicMatches ==
  ASSUME NEW w \in Word, Mnemonic(w) \in DOMAIN Patterns, Mnemonic(w) = "jalr" => w.funct3 = 0
  PROVE  Matches(w, Mnemonic(w))
  <1> DEFINE n == Mnemonic(w)
  <1>1. n \notin Undecoded /\ n # "wfi"
    <2>1. \A m \in DOMAIN Patterns : m \notin Undecoded /\ m # "wfi"
      BY PatternNames DEF Undecoded, Unsupported, Immediates, Arithmetics, Multiplies, Uppers, Branches,
         Loads, Stores, Csrs
    <2>2. QED  BY <2>1
  <1>2. Str(w) = "LUI" => w.opcode = \h37
    BY StrIsLui
  <1>3. CASE Str(w) = "LUI"
    BY <1>2, <1>3, OthersMatch DEF Mnemonic
  <1>4. CASE Str(w) # "LUI"
    <2>1. n = Str(w)
      BY <1>4 DEF Mnemonic
    <2>2. w.opcode \in Opcodes
      BY <1>1, <2>1, StrAmong
    <2>3. CASE w.opcode \in {\h17, \h6f, \h67, \h37}
      BY <1>4, <2>1, <2>3, StrOf, OthersMatch
    <2>4. CASE w.opcode = \h63
      BY <1>1, <2>1, <2>4, StrOf, StrAmong, BranchesMatch
    <2>5. CASE w.opcode = \h03
      BY <1>1, <2>1, <2>5, StrOf, StrAmong, MemoriesMatch
    <2>6. CASE w.opcode = \h23
      BY <1>1, <2>1, <2>6, StrOf, StrAmong, MemoriesMatch
    <2>7. CASE w.opcode = \h13
      BY <1>1, <2>1, <2>7, StrOf, StrAmong, ImmediatesMatch
    <2>8. CASE w.opcode = \h33
      BY <1>1, <2>1, <2>8, StrOf, StrAmong, ArithmeticsMatch
    <2>9. CASE w.opcode = \h73
      BY <1>1, <2>1, <2>9, StrOf, StrAmong, OthersMatch
    <2>10. QED  BY <2>2, <2>3, <2>4, <2>5, <2>6, <2>7, <2>8, <2>9 DEF Opcodes
  <1>5. QED  BY <1>3, <1>4

\* The cases of the processor's decoder are those the library names.
LEMMA CasesOf ==
  ASSUME NEW w \in Word
  PROVE  Cases(w) = IF Executed(w) THEN {Mnemonic(w)} ELSE {}
  <1>1. {n \in DOMAIN Patterns : Matches(w, n)} =
          IF Mnemonic(w) \in DOMAIN Patterns /\ (Mnemonic(w) = "jalr" => w.funct3 = 0)
          THEN {Mnemonic(w)} ELSE {}
    BY MatchesAmong, MnemonicMatches
  <1>2. \A m \in DOMAIN Patterns : m # "wfi" /\ m # "LUI" /\ m \notin Undecoded /\ m # "INVALID"
    BY PatternNames DEF Undecoded, Unsupported, Immediates, Arithmetics, Multiplies, Uppers, Branches,
       Loads, Stores, Csrs
  <1>3. w = WFI => Str(w) = "wfi"
    <2>1. w = WFI => w.opcode = \h73 /\ w.funct3 = 0 /\ w.rs2 = 5 /\ w.funct7 = 8
      BY FieldsOf DEF WFI
    <2>2. w = WFI => Funct12(w) = \h105
      BY <2>1, SMT DEF Funct12
    <2>3. QED  BY <2>1, <2>2, StrOf, SystemStrOf
  <1>4. Str(w) \in DOMAIN Patterns \cup {"LUI", "wfi"} \cup Undecoded
    <2>1. {"auipc", "jal", "jalr"} \subseteq DOMAIN Patterns
      BY PatternNames DEF Uppers
    <2>2. w.opcode \in {\h37, \h17, \h6f, \h67} => Str(w) \in DOMAIN Patterns \cup {"LUI"}
      BY <2>1, StrOf
    <2>3. w.opcode \notin {\h37, \h17, \h6f, \h67} => Str(w) \in DOMAIN Patterns \cup {"wfi"} \cup Undecoded
      BY StrAmong, PatternNames DEF Opcodes
    <2>4. QED  BY <2>2, <2>3
  <1>5. "lui" \in DOMAIN Patterns /\ "wfi" \notin DOMAIN Patterns
    BY <1>2, PatternNames DEF Uppers
  <1>6. CASE Str(w) = "LUI"
    <2>1. Mnemonic(w) = "lui" /\ Op(Str(w)) = "lui"
      BY <1>6, OpOf DEF Mnemonic
    <2>2. Executed(w) /\ w # WFI
      BY <1>3, <1>6, <2>1 DEF Executed
    <2>3. QED  BY <1>1, <1>5, <2>1, <2>2 DEF Cases
  <1>7. CASE Str(w) = "wfi"
    <2>1. Mnemonic(w) = "wfi" /\ Op(Str(w)) = "wfi" /\ Mnemonic(w) \notin Csrs
      BY <1>7 DEF Mnemonic, Op, Unsupported, Csrs
    <2>2. Executed(w) <=> w = WFI
      BY <2>1 DEF Executed
    <2>3. QED  BY <1>1, <1>5, <2>1, <2>2 DEF Cases
  <1>8. CASE Str(w) \in Undecoded
    <2>1. Mnemonic(w) = Str(w) /\ Op(Str(w)) = "INVALID" /\ Mnemonic(w) \notin Csrs
      BY <1>8 DEF Mnemonic, Op, Undecoded, Unsupported
    <2>2. ~Executed(w) /\ w # WFI /\ Mnemonic(w) \notin DOMAIN Patterns
      <3>1. "wfi" \notin Undecoded
        BY DEF Undecoded, Unsupported
      <3>2. QED  BY <1>2, <1>3, <1>8, <2>1, <3>1 DEF Executed
    <2>3. QED  BY <1>1, <2>2 DEF Cases
  <1>9. CASE Str(w) \in Csrs
    <2>1. Mnemonic(w) = Str(w) /\ Mnemonic(w) \in DOMAIN Patterns
      BY <1>9, PatternNames DEF Mnemonic, Csrs
    <2>2. Executed(w) /\ w # WFI /\ Mnemonic(w) # "jalr"
      BY <1>2, <1>3, <1>9, <2>1 DEF Executed, Csrs
    <2>3. QED  BY <1>1, <2>1, <2>2 DEF Cases
  <1>10. CASE Str(w) \in DOMAIN Patterns \ Csrs
    <2>1. Mnemonic(w) = Str(w) /\ w # WFI
      BY <1>2, <1>3, <1>10 DEF Mnemonic
    <2>2. Op(Str(w)) = Str(w) /\ Str(w) # "INVALID"
      BY <1>2, <1>10, OpOf DEF Op, Undecoded
    <2>3. Executed(w) <=> (Mnemonic(w) = "jalr" => w.funct3 = 0)
      BY <1>2, <1>10, <2>1, <2>2 DEF Executed
    <2>4. QED  BY <1>1, <1>10, <2>1, <2>3 DEF Cases
  <1>11. QED  BY <1>4, <1>6, <1>7, <1>8, <1>9, <1>10

-----------------------------------------------------------------------------
(* The pipeline printer *)

\* The printer's funct7 is signed.
LEMMA PipeSigned ==
  ASSUME NEW w \in Word
  PROVE  /\ PipeFunct7(w) \in -64 .. 63
         /\ PipeFunct7(w) = IF w.funct7 < 64 THEN w.funct7 ELSE w.funct7 - 128
  BY SMT DEF PipeFunct7, Bit31, Word

\* The signs make no difference to any of the printer's tables.
LEMMA PipeBranchSame ==
  ASSUME NEW w \in Word PROVE PipeBranch(w) = BranchStr(w)
  <1>1. w.funct3 \in 0 .. 7
    BY DEF Word
  <1>2. PipeBranch(w) = IF w.funct3 = 0 THEN "beq" ELSE IF w.funct3 = 1 THEN "bne"
                        ELSE IF w.funct3 = 4 THEN "blt" ELSE IF w.funct3 = 5 THEN "bge"
                        ELSE IF w.funct3 = 6 THEN "bltu" ELSE IF w.funct3 = 7 THEN "bgeu" ELSE "invalid"
    <2>1. /\ ~(0 = 1) /\ ~(0 = 4) /\ ~(0 = 5) /\ ~(0 = 6) /\ ~(0 = 7) /\ ~(1 = 4) /\ ~(1 = 5)
          /\ ~(1 = 6) /\ ~(1 = 7) /\ ~(4 = 5) /\ ~(4 = 6) /\ ~(4 = 7) /\ ~(5 = 6) /\ ~(5 = 7) /\ ~(6 = 7)
      BY SMT
    <2>2. QED  BY <2>1 DEF PipeBranch
  <1>3. QED  BY <1>1, <1>2, SMT DEF BranchStr

LEMMA PipeMemorySame ==
  ASSUME NEW w \in Word
  PROVE  /\ w.opcode = \h03 => PipeMemory(w) = LoadStr(w)
         /\ w.opcode = \h23 => PipeMemory(w) = StoreStr(w)
  BY SMT DEF PipeMemory, LoadStr, StoreStr, Word

LEMMA PipeImmediateSame ==
  ASSUME NEW w \in Word PROVE PipeImmediate(w) = ImmediateStr(w)
  <1>1. w.funct3 \in 0 .. 7 /\ w.funct7 \in 0 .. 127
    BY DEF Word
  <1>2. PipeFunct7(w) = 0 <=> w.funct7 = 0
    BY <1>1, PipeSigned, SMT
  <1>3. PipeFunct7(w) = \h20 <=> w.funct7 = \h20
    BY <1>1, PipeSigned, SMT
  <1>4. 0 # \h20 /\ 1 # 5
    BY SMT
  <1>5. PipeImmediate(w) =
          IF w.funct3 = 1 THEN IF w.funct7 = 0 THEN "slli" ELSE "invalid"
          ELSE IF w.funct3 = 5 /\ w.funct7 = 0 THEN "srli"
          ELSE IF w.funct3 = 5 /\ w.funct7 = \h20 THEN "srai"
          ELSE <<"addi", "invalid", "slti", "sltiu",
                 "xori", "invalid", "ori", "andi">>[w.funct3 + 1]
    BY <1>2, <1>3, <1>4 DEF PipeImmediate
  <1>6. QED  BY <1>1, <1>5, ImmediateStrOf, SMT

LEMMA PipeSystemSame ==
  ASSUME NEW w \in Word PROVE PipeSystem(w) = SystemStr(w)
  <1>1. w.funct3 \in 0 .. 7 /\ w.funct7 \in 0 .. 127 /\ w.rs2 \in 0 .. 31
    BY DEF Word
  <1> DEFINE f == PipeFunct7(w) * 32 + w.rs2
  <1>2. /\ f = \h000 <=> Funct12(w) = \h000
        /\ f = \h001 <=> Funct12(w) = \h001
        /\ f = \h105 <=> Funct12(w) = \h105
    <2>1. CASE w.funct7 < 64
      BY <2>1, PipeSigned DEF Funct12
    <2>2. CASE ~(w.funct7 < 64)
      <3>1. PICK q \in Int : q = PipeFunct7(w) /\ q = w.funct7 - 128
        BY <1>1, <2>2, PipeSigned, SMT
      <3>2. q * 32 + w.rs2 \in Int /\ q * 32 + w.rs2 < 0
        BY <1>1, <3>1, SMT
      <3>3. f \in Int /\ f < 0
        BY <3>1, <3>2
      <3>4. Funct12(w) \in Int /\ Funct12(w) > \h105
        <4>1. PICK s \in Int, r \in Int : s = w.funct7 /\ r = w.rs2 /\ s >= 64 /\ r >= 0
          BY <1>1, <2>2, SMT
        <4>2. s * 32 + r \in Int /\ s * 32 + r > \h105
          BY <4>1, SMT
        <4>3. QED  BY <4>1, <4>2 DEF Funct12
      <3> HIDE DEF f
      <3>5. QED  BY <3>3, <3>4, SMT
    <2>3. QED  BY <2>1, <2>2
  <1>3. CASE w.funct3 # 0
    BY <1>3 DEF PipeSystem, SystemStr
  <1>4. CASE w.funct3 = 0
    <2>1. \h000 # \h001 /\ \h000 # \h105 /\ \h001 # \h105
      BY SMT
    <2> HIDE DEF f
    <2>2. PipeSystem(w) = CASE f = \h000 -> "ecall" [] f = \h001 -> "ebreak" [] f = \h105 -> "wfi"
                            [] OTHER -> "system"
      BY <1>4 DEF PipeSystem, f
    <2>3. /\ f = \h000 => PipeSystem(w) = "ecall"
          /\ f = \h001 => PipeSystem(w) = "ebreak"
          /\ f = \h105 => PipeSystem(w) = "wfi"
          /\ f \notin {\h000, \h001, \h105} => PipeSystem(w) = "system"
      BY <2>1, <2>2
    <2>4. QED  BY <1>2, <1>4, <2>3, SystemStrOf
  <1>5. QED  BY <1>3, <1>4

LEMMA PipeArithmeticSame ==
  ASSUME NEW w \in Word PROVE PipeArithmetic(w) = ArithmeticStr(w)
  <1> DEFINE key == PipeFunct7(w) * 16 + w.funct3
  <1>1. w.funct3 \in 0 .. 7 /\ w.funct7 \in 0 .. 127
    BY DEF Word
  <1>2. PipeArithmetic(w) =
          IF key \in \h000 .. \h007
          THEN <<"add", "sll", "slt", "sltu", "xor", "srl", "or", "and">>[key + 1]
          ELSE IF key \in \h010 .. \h017
          THEN <<"mul", "mulh", "mulhsu", "mulhu", "div", "divu", "rem", "remu">>[key - \h00f]
          ELSE IF key = \h200 THEN "sub" ELSE IF key = \h205 THEN "sra" ELSE "invalid"
    <2>1. /\ \A k \in \h000 .. \h007 : k \notin \h010 .. \h017 /\ k # \h200 /\ k # \h205
          /\ \A k \in \h010 .. \h017 : k # \h200 /\ k # \h205
          /\ \h200 # \h205
      BY SMT
    <2>2. PipeArithmetic(w) =
            CASE key \in \h000 .. \h007 ->
                   <<"add", "sll", "slt", "sltu", "xor", "srl", "or", "and">>[key + 1]
              [] key \in \h010 .. \h017 ->
                   <<"mul", "mulh", "mulhsu", "mulhu", "div", "divu", "rem", "remu">>[key - \h00f]
              [] key = \h200 -> "sub"
              [] key = \h205 -> "sra"
              [] OTHER -> "invalid"
      BY DEF PipeArithmetic
    <2> HIDE DEF key
    <2> DEFINE small == \h000 .. \h007
               multiply == \h010 .. \h017
    <2>3. /\ key \in small => key \notin multiply /\ key # \h200 /\ key # \h205
          /\ key \in multiply => key # \h200 /\ key # \h205
      BY <2>1
    <2> HIDE DEF small, multiply
    <2>4. QED  BY <2>1, <2>2, <2>3 DEF small, multiply
  <1>3. /\ w.funct7 = 0 => key = w.funct3
        /\ w.funct7 = 1 => key = 16 + w.funct3
        /\ w.funct7 = \h20 => key = \h200 + w.funct3
        /\ w.funct7 \notin {0, 1, \h20} => key \notin 0 .. 23 \cup {\h200, \h205}
        /\ key \in Int
    <2>1. PICK q \in Int : q = PipeFunct7(w) /\ q = IF w.funct7 < 64 THEN w.funct7 ELSE w.funct7 - 128
      BY <1>1, PipeSigned, SMT
    <2>2. PICK k \in Int : k = q * 16 + w.funct3
      BY <1>1, <2>1, SMT
    <2>3. /\ w.funct7 = 0 => k = w.funct3
          /\ w.funct7 = 1 => k = 16 + w.funct3
          /\ w.funct7 = \h20 => k = \h200 + w.funct3
      BY <1>1, <2>1, <2>2, SMT
    <2>4. w.funct7 \notin {0, 1, \h20} => k \notin 0 .. 23 \cup {\h200, \h205}
      <3> SUFFICES ASSUME w.funct7 \notin {0, 1, \h20}
                   PROVE  k < 0 \/ (k > 23 /\ k < \h200) \/ k > \h205
        BY <2>2, SMT
      <3>1. q < 0 \/ (q > 1 /\ q < \h20) \/ q > \h20
        BY <1>1, <2>1, SMT
      <3>2. QED  BY <1>1, <2>1, <2>2, <3>1, SMT
    <2>5. key = k
      BY <2>1, <2>2
    <2>6. QED  BY <2>2, <2>3, <2>4, <2>5
  <1> HIDE DEF key
  <1>4. CASE w.funct7 = 0
    BY <1>1, <1>2, <1>3, <1>4, ArithmeticStrOf, SMT
  <1>5. CASE w.funct7 = 1
    BY <1>1, <1>2, <1>3, <1>5, ArithmeticStrOf, SMT
  <1>6. CASE w.funct7 = \h20
    BY <1>1, <1>2, <1>3, <1>6, ArithmeticStrOf, SMT
  <1>7. CASE w.funct7 \notin {0, 1, \h20}
    BY <1>1, <1>2, <1>3, <1>7, ArithmeticStrOf, SMT
  <1>8. QED  BY <1>4, <1>5, <1>6, <1>7

\* What the pipeline printer calls a word.
LEMMA PrintStageOf ==
  ASSUME NEW w \in Word
  PROVE  print_stage(w, TRUE) = IF w = Fields(\h13, 0, 0, 0, 0, 0) THEN "nop" ELSE Mnemonic(w)
  <1> SUFFICES ASSUME w # Fields(\h13, 0, 0, 0, 0, 0)
               PROVE  print_stage(w, TRUE) = Mnemonic(w)
    BY DEF print_stage
  <1> DEFINE p == print_stage(w, TRUE)
  <1>1. /\ w.opcode = \h37 => p = "lui"
        /\ w.opcode = \h17 => p = "auipc"
        /\ w.opcode = \h6f => p = "jal"
        /\ w.opcode = \h67 => p = "jalr"
        /\ w.opcode = \h63 => p = PipeBranch(w)
        /\ w.opcode \in {\h03, \h23} => p = PipeMemory(w)
        /\ w.opcode = \h13 => p = PipeImmediate(w)
        /\ w.opcode = \h33 => p = PipeArithmetic(w)
        /\ w.opcode = \h0f => p = "fence"
        /\ w.opcode = \h73 => p = PipeSystem(w)
        /\ w.opcode \notin Opcodes \cup {\h0f} => p = "invalid"
    BY DEF print_stage, Opcodes
  <1> HIDE DEF p
  <1>2. w.opcode \notin {\h37} => p = Str(w)
    <2>1. CASE w.opcode \in {\h17, \h6f, \h67, \h0f}
      BY <1>1, <2>1, StrOf
    <2>2. CASE w.opcode = \h63
      BY <1>1, <2>2, StrOf, PipeBranchSame
    <2>3. CASE w.opcode \in {\h03, \h23}
      BY <1>1, <2>3, StrOf, PipeMemorySame
    <2>4. CASE w.opcode = \h13
      BY <1>1, <2>4, StrOf, PipeImmediateSame
    <2>5. CASE w.opcode = \h33
      BY <1>1, <2>5, StrOf, PipeArithmeticSame
    <2>6. CASE w.opcode = \h73
      BY <1>1, <2>6, StrOf, PipeSystemSame
    <2>7. CASE w.opcode \notin Opcodes \cup {\h0f}
      BY <1>1, <2>7, StrOf
    <2>8. QED  BY <2>1, <2>2, <2>3, <2>4, <2>5, <2>6, <2>7 DEF Opcodes
  <1>3. Str(w) = "LUI" <=> w.opcode = \h37
    BY StrIsLui
  <1>4. QED  BY <1>1, <1>2, <1>3 DEF Mnemonic, p

-----------------------------------------------------------------------------
(* The three together *)

NOP == Fields(\h13, 0, 0, 0, 0, 0)

\* A signed immediate is 0 only if its fields are.
LEMMA SignedZero ==
  ASSUME NEW f \in 0 .. 127, NEW r \in 0 .. 31
  PROVE  SignedValue(f, r) = 0 <=> r = 0 /\ f = 0
  BY SMT DEF SignedValue

\* Only one word is decoded as a no-op.
LEMMA NopIsOneWord ==
  ASSUME NEW w \in Word, NEW old
  PROVE  is_nop(Decode(w, old)) <=> w = NOP
  <1> DEFINE d == Decode(w, old)
  <1>1. /\ w.opcode \in 0 .. 127 /\ w.rd \in 0 .. 31 /\ w.funct3 \in 0 .. 7
        /\ w.rs1 \in 0 .. 31 /\ w.rs2 \in 0 .. 31 /\ w.funct7 \in 0 .. 127
    BY DEF Word
  <1>2. w = NOP <=> /\ w.opcode = \h13 /\ w.rd = 0 /\ w.funct3 = 0
                    /\ w.rs1 = 0 /\ w.rs2 = 0 /\ w.funct7 = 0
    BY WordIsFields, FieldsOf DEF NOP
  <1>3. d.op = Op(Str(w)) /\ d.rd = w.rd /\ d.rs1 = w.rs1
    BY DEF Decode
  <1>4. d.op = "addi" <=> w.opcode = \h13 /\ w.funct3 = 0
    <2>1. d.op = "addi" <=> Str(w) = "addi"
      BY <1>3 DEF Op, Unsupported
    <2>2. Str(w) = "addi" => w.opcode = \h13
      <3>1. /\ "addi" \in DOMAIN Patterns
            /\ "addi" \in Immediates /\ "addi" # "jalr" /\ "addi" # "LUI"
        BY PatternNames DEF Immediates
      <3>2. Str(w) = "addi" => Matches(w, "addi")
        BY <3>1, MnemonicMatches DEF Mnemonic
      <3>3. QED  BY <3>1, <3>2, ImmediatesMatch
    <2>3. w.opcode = \h13 => (Str(w) = "addi" <=> w.funct3 = 0)
      <3>1. ImmediateStr(w) = "addi" <=> w.funct3 = 0
        BY <1>1, ImmediateStrOf, SMT
      <3>2. QED  BY <3>1, StrOf
    <2>4. QED  BY <2>1, <2>2, <2>3
  <1>5. CASE w.opcode = \h13 /\ w.funct3 = 0
    <2>1. Format(w, old) = <<"IType", "Iimm">>
      BY <1>5, FormatOf
    <2>2. d.imm_value = SignedValue(w.funct7, w.rs2)
      <3>1. w.funct3 \notin {1, 5}
        BY <1>5, SMT
      <3>2. QED  BY <2>1, <3>1, Decoded, AnalyzeOf DEF Bit31, SignedValue
    <2> HIDE DEF d
    <2>3. d.imm_value = 0 <=> w.rs2 = 0 /\ w.funct7 = 0
      BY <1>1, <2>2, SignedZero
    <2>4. is_nop(d) <=> w = NOP
      BY <1>2, <1>3, <1>4, <1>5, <2>3 DEF is_nop
    <2>5. QED  BY <2>4 DEF d
  <1>6. CASE ~(w.opcode = \h13 /\ w.funct3 = 0)
    BY <1>2, <1>4, <1>6 DEF is_nop
  <1>7. QED  BY <1>5, <1>6

\* What the processor's decoder selects for an instruction.
LEMMA Selected ==
  /\ opb_select("lui") = "Uimm" /\ opb_select("auipc") = "Uimm" /\ opb_select("jal") = "Jimm"
  /\ opb_select("jalr") = "Iimm" /\ opb_select("wfi") = "Rimm"
  /\ \A n \in Branches : opb_select(n) = "Bimm"
  /\ \A n \in Stores : opb_select(n) = "Simm"
  /\ \A n \in Immediates \cup Loads : opb_select(n) = "Iimm"
  /\ \A n \in Arithmetics \cup Multiplies \cup Csrs : opb_select(n) = "Rimm"
  BY DEF opb_select, Branches, Stores, Immediates, Loads, Arithmetics, Multiplies, Csrs

\* The source registers it says an instruction has.
LEMMA SourcesOf ==
  /\ \A n \in Uppers \cup {"wfi"} : ~rs1_exist(n) /\ ~rs2_exist(n)
  /\ \A n \in Immediates \cup Loads \cup Csrs \cup {"jalr"} : rs1_exist(n) /\ ~rs2_exist(n)
  /\ \A n \in Branches \cup Stores \cup Arithmetics \cup Multiplies : rs1_exist(n) /\ rs2_exist(n)
  BY DEF rs1_exist, rs2_exist, Uppers, Branches, Stores, Immediates, Loads, Arithmetics, Multiplies, Csrs

\* An instruction executed is of the group of its opcode.
LEMMA ExecutedAmong ==
  ASSUME NEW w \in Word, Executed(w)
  PROVE  /\ w.opcode \in Opcodes
         /\ w.opcode = \h63 => Mnemonic(w) \in Branches
         /\ w.opcode = \h03 => Mnemonic(w) \in Loads
         /\ w.opcode = \h23 => Mnemonic(w) \in Stores
         /\ w.opcode = \h13 => Mnemonic(w) \in Immediates
         /\ w.opcode = \h33 => Mnemonic(w) \in Arithmetics \cup Multiplies
         /\ w.opcode = \h73 => Mnemonic(w) \in Csrs \cup {"wfi"}
  <1>1. Str(w) \notin Undecoded
    <2>1. Str(w) \in Undecoded => Mnemonic(w) = Str(w) /\ Op(Str(w)) = "INVALID" /\ Mnemonic(w) \notin Csrs
      BY DEF Mnemonic, Op, Undecoded, Unsupported
    <2>2. QED  BY <2>1 DEF Executed
  <1>2. w.opcode # \h37 => Mnemonic(w) = Str(w)
    BY StrIsLui DEF Mnemonic
  <1>3. \h37 \notin {\h63, \h03, \h23, \h13, \h33, \h73}
    BY SMT
  <1>4. QED  BY <1>1, <1>2, <1>3, StrAmong

\* The immediate and the sources of what is executed are those of its format.
LEMMA SelectionsAgree ==
  ASSUME NEW w \in Word, NEW old, Executed(w)
  PROVE  LET d == Decode(w, old)
         IN  /\ opb_select(Mnemonic(w)) = d.imm
             /\ rs1_exist(Mnemonic(w)) <=> d.riscv # "UType" /\ Mnemonic(w) # "wfi"
             /\ rs2_exist(Mnemonic(w)) <=> d.riscv \in {"RType", "SType"}
  <1> DEFINE d == Decode(w, old)
  <1>1. "wfi" \notin Branches \cup Loads \cup Stores \cup Immediates \cup Arithmetics \cup Multiplies
                     \cup Csrs
    BY DEF Branches, Loads, Stores, Immediates, Arithmetics, Multiplies, Csrs
  <1>2. ASSUME NEW riscv, NEW imm, Format(w, old) = <<riscv, imm>>
        PROVE  d.riscv = riscv /\ d.imm = imm
    BY <1>2, Decoded
  <1>3. CASE w.opcode = \h63
    <2>1. d.riscv = "SType" /\ d.imm = "Bimm"
      BY <1>2, <1>3, FormatOf
    <2>2. QED  BY <1>1, <1>3, <2>1, ExecutedAmong, Selected, SourcesOf
  <1>4. CASE w.opcode = \h03
    <2>1. d.riscv = "IType" /\ d.imm = "Iimm"
      BY <1>2, <1>4, FormatOf
    <2>2. QED  BY <1>1, <1>4, <2>1, ExecutedAmong, Selected, SourcesOf
  <1>5. CASE w.opcode = \h23
    <2>1. d.riscv = "SType" /\ d.imm = "Simm"
      BY <1>2, <1>5, FormatOf
    <2>2. QED  BY <1>1, <1>5, <2>1, ExecutedAmong, Selected, SourcesOf
  <1>6. CASE w.opcode = \h13
    <2>1. d.riscv = "IType" /\ d.imm = "Iimm"
      BY <1>2, <1>6, FormatOf
    <2>2. QED  BY <1>1, <1>6, <2>1, ExecutedAmong, Selected, SourcesOf
  <1>7. CASE w.opcode = \h33
    <2>1. d.riscv = "RType" /\ d.imm = "Rimm"
      BY <1>2, <1>7, FormatOf
    <2>2. QED  BY <1>1, <1>7, <2>1, ExecutedAmong, Selected, SourcesOf
  <1>8. CASE w.opcode = \h73
    <2>1. d.riscv = "PType" /\ d.imm = "Rimm"
      BY <1>2, <1>8, FormatOf
    <2>2. QED  BY <1>1, <1>8, <2>1, ExecutedAmong, Selected, SourcesOf
  <1>9. CASE w.opcode \in {\h37, \h17, \h6f}
    <2>1. d.riscv = "UType" /\ d.imm = IF w.opcode = \h6f THEN "Jimm" ELSE "Uimm"
      <3>1. \h6f \notin {\h37, \h17}
        BY SMT
      <3>2. QED  BY <1>2, <1>9, <3>1, FormatOf
    <2>2. Mnemonic(w) = IF w.opcode = \h6f THEN "jal" ELSE IF w.opcode = \h37 THEN "lui" ELSE "auipc"
      <3>1. \h6f # \h37
        BY SMT
      <3>2. QED  BY <1>9, <3>1, StrOf DEF Mnemonic
    <2>3. Mnemonic(w) \in Uppers
      BY <2>2 DEF Uppers
    <2>4. QED  BY <2>1, <2>2, <2>3, Selected, SourcesOf
  <1>10. CASE w.opcode = \h67
    <2>1. d.riscv = "IType" /\ d.imm = "Iimm"
      BY <1>2, <1>10, FormatOf
    <2>2. Mnemonic(w) = "jalr"
      BY <1>10, StrOf DEF Mnemonic
    <2>3. QED  BY <2>1, <2>2, Selected, SourcesOf
  <1>11. w.opcode \in Opcodes
    BY ExecutedAmong
  <1>12. QED  BY <1>3, <1>4, <1>5, <1>6, <1>7, <1>8, <1>9, <1>10, <1>11 DEF Opcodes

\* DecodersAgree: the debugger (riscv_inst.h), the pipeline printer
\* (pipe_print.c) and the processor (dp_stage.sv, ISA.svh) read every word alike.
THEOREM DecodersAgreeHolds == DecodersSpec => []DecodersAgree
  <1>1. sample \in Encodings => DecodersAgree
    <2> SUFFICES ASSUME sample \in Encodings, sample.kind = "word" PROVE DecodersAgree
      BY DEF DecodersAgree
    <2> DEFINE w == sample.word
               d == Decode(w, sample.old)
    <2>1. w \in Word
      BY Sampled
    <2>2. d.str = Str(w) /\ d.op = Op(Str(w))
      BY DEF Decode
    <2>3. print_stage(w, TRUE) \in {Mnemonic(w), "nop"}
      BY <2>1, PrintStageOf
    <2>4. Cases(w) = IF Executed(w) THEN {Mnemonic(w)} ELSE {}
      BY <2>1, CasesOf
    <2>5. is_nop(d) <=> w = NOP
      BY <2>1, NopIsOneWord
    <2>6. (print_stage(w, TRUE) = "nop") = is_nop(d)
      <3>1. Mnemonic(w) # "nop"
        BY <2>1, StrIsNotNop DEF Mnemonic
      <3>2. is_nop(d) \in BOOLEAN
        BY DEF is_nop
      <3>3. QED  BY <2>1, <2>5, <3>1, <3>2, PrintStageOf DEF NOP
    <2>7. get_opcode_str(w, "1", sample.old) = IF is_nop(d) THEN "nop" ELSE d.str
      <3>1. "1" \notin {"x", "0"}
        OBVIOUS
      <3>2. QED  BY <2>5, <3>1 DEF get_opcode_str, NOP, Fields
    <2>8. Executed(w) => /\ opb_select(Mnemonic(w)) = d.imm
                         /\ rs1_exist(Mnemonic(w)) <=> d.riscv # "UType" /\ Mnemonic(w) # "wfi"
                         /\ rs2_exist(Mnemonic(w)) <=> d.riscv \in {"RType", "SType"}
      BY <2>1, SelectionsAgree
    <2> HIDE DEF w
    <2>9. QED  BY <2>2, <2>3, <2>4, <2>6, <2>7, <2>8 DEF DecodersAgree, Executed, Mnemonic, Csrs, w
  <1>2. DecodersAgree /\ UNCHANGED sample => DecodersAgree'
    BY DEF DecodersAgree
  <1>3. QED  BY <1>1, <1>2, PTL DEF DecodersSpec

-----------------------------------------------------------------------------
(* The visual debugger *)

N == NUM_HISTORY
L == Len(Dump)

\* The k-th line of the dump of edge e, and what of it is left after p lines.
Line(k, e) == [prefix |-> IF k <= L THEN Dump[k] ELSE "break", value |-> e]
Rest(p, e) == [k \in 1 .. L + 1 - p |-> Line(p + k, e)]

\* How many of the first p lines of a dump have prefix g.
Count(g, p) == Cardinality({k \in 1 .. p : Dump[k] = g})

DebuggerTypes ==
  /\ history_num \in Slots /\ hist_num_temp \in Slots
  /\ done_received \in {0, 1} /\ edge \in Nat
  /\ contents \in [Slots -> [Signals -> Nat]]
  /\ reg_num \in [Groups -> Nat]
  /\ goto_flag \in {0, 1} /\ cycle_flag \in {0, 1} /\ stop_time \in Nat /\ i \in 0 .. N
  /\ pc \in {"read", "key", "exit"}
  /\ screen.slot \in Slots

\* The simulation runs exactly while nothing is drawn.
EchoesAtPrompt == <<echo_data, running>> \in {<<1, 0>>, <<0, 1>>}

\* The dump of edge e in a slot, every signal of it.
Taken(e) == [f \in Signals |-> e]

\* The latest m + 1 of n dumps are in the ring.
RingHolds(n, m) ==
  \A k \in 0 .. m : k < n => contents[(history_num - 1 - k) % N] = Taken(n - k)

\* p lines of a dump have been read into the slot they go to.
SlotHolds(p) ==
  /\ \A g \in Groups : reg_num[g] = Count(g, p)
  /\ \A k \in 1 .. p : Dump[k] \in Scalars => contents[history_num][<<Dump[k], 0>>] = edge
  /\ \A g \in Groups : \A j \in 0 .. reg_num[g] - 1 : contents[history_num][<<g, j>>] = edge

\* Between dumps: both pipes are empty, or the debugger has asked for the next
\* dump, or the testbench has said that there is none.
Between ==
  /\ \/ tb = "run" /\ writepipe = <<>> /\ readpipe = <<>>
     \/ tb = "wait" /\ writepipe = <<>> /\ readpipe = <<"n">>
     \/ tb = "done" /\ writepipe = <<[prefix |-> "DONE", value |-> edge]>> /\ readpipe = <<>>
  /\ SlotHolds(0) /\ RingHolds(edge, N - 1)

\* The testbench waits, and p lines of its dump have been read; the oldest slot
\* of a full ring is the one they go to.
Kept(p) == IF p = 0 THEN N - 1 ELSE N - 2
Within(p) ==
  /\ tb = "wait" /\ writepipe = Rest(p, edge) /\ readpipe = <<>> /\ edge > 0
  /\ p > 0 => pc = "read"
  /\ SlotHolds(p) /\ RingHolds(edge - 1, Kept(p))

InStep == pc = "exit" \/ done_received = 1 \/ Between \/ \E p \in 0 .. L : Within(p)

DebuggerInv == DebuggerTypes /\ EchoesAtPrompt /\ InStep /\ CursorIsShown

\* The child has died of the slot before the first, which DONE took it to.
DiedAtEnd ==
  /\ pc = "crashed" /\ done_received = 1 /\ running = 0
  /\ history_num = -1 /\ screen.slot = -1

USE DebuggerAssumption DEF N

-----------------------------------------------------------------------------
(* Remainders, and what a signal is. *)

\* A remainder one ring's length to either side.
LEMMA Ring ==
  ASSUME NEW a \in Int, -N <= a, a <= N
  PROVE  a % N = IF a < 0 THEN a + N ELSE IF a = N THEN 0 ELSE a
  <1> N \in Nat \ {0, 1}
    OBVIOUS
  <1>1. CASE a < 0 /\ a # -N
    BY <1>1
  <1>2. CASE a \in {-N, N}
    BY <1>2
  <1>3. CASE a >= 0 /\ a # N
    BY <1>3
  <1>4. QED  BY <1>1, <1>2, <1>3

LEMMA Negated ==
  ASSUME NEW a \in Int, NEW b \in Int, a = 0 - b
  PROVE  -a = b
  OBVIOUS

LEMMA RemOfNegative ==
  ASSUME NEW a \in Int, NEW b \in Int, a = 0 - b, a < 0, b % N = b
  PROVE  Rem(a, N) = a
  <1>1. -a = b /\ -b = a
    BY Negated
  <1>2. QED  BY <1>1 DEF Rem

\* The slot before one, as C's remainder gives it: -1 before the first.
LEMMA SlotBefore ==
  ASSUME NEW h \in Slots
  PROVE  Rem(h - 1, N) = h - 1
  <1> N \in Nat \ {0, 1} /\ h \in Int /\ 0 <= h /\ h < N
    BY DEF Slots
  <1>1. CASE h = 0
    <2>1. PICK b \in Int : b = 1
      OBVIOUS
    <2>2. PICK a \in Int : a = h - 1
      OBVIOUS
    <2>3. a = 0 - b /\ a < 0 /\ b % N = b
      BY <1>1, <2>1, <2>2, Ring
    <2>4. QED  BY <2>2, <2>3, RemOfNegative
  <1>2. CASE h > 0
    <2>1. (h - 1) % N = h - 1
      BY <1>2, Ring
    <2>2. QED  BY <1>2, <2>1 DEF Rem
  <1>3. QED  BY <1>1, <1>2

\* A set of natural numbers that has members has a least one.
LEMMA Least ==
  ASSUME NEW S \in SUBSET Nat, S # {}
  PROVE  \E x \in S : \A y \in S : x <= y
  <1>1. PICK x \in S : \A y \in S : ~(<<y, x>> \in OpToRel(<, Nat))
    BY NatLessThanWellFounded, WFMin
  <1>2. \A y \in S : x <= y
    <2> SUFFICES ASSUME NEW y \in S, ~(x <= y) PROVE FALSE
      OBVIOUS
    <2>1. <<y, x>> \in Nat \X Nat /\ y < x
      OBVIOUS
    <2>2. <<y, x>> \in OpToRel(<, Nat)
      BY <2>1 DEF OpToRel
    <2>3. QED  BY <1>1, <2>2
  <1>3. QED  BY <1>2

LEMMA DumpFacts ==
  /\ L \in Nat /\ DOMAIN Dump = 1 .. L
  /\ ToSet(Dump) = {Dump[k] : k \in 1 .. L}
  /\ \A k \in 1 .. L : /\ Dump[k] \in ToSet(Dump)
                       /\ Dump[k] \notin {"break", "DONE"}
  /\ \A g \in Groups : g \in ToSet(Dump) /\ g \notin Scalars
  /\ Scalars \cap {"break", "DONE"} = {}
  <1>1. L \in Nat /\ DOMAIN Dump = 1 .. L
    BY DEF L
  <1>2. ToSet(Dump) = {Dump[k] : k \in 1 .. L}
    BY <1>1 DEF ToSet
  <1>3. \A k \in 1 .. L : Dump[k] \in ToSet(Dump)
    BY <1>2
  <1>4. ToSet(Dump) \cap {"break", "DONE"} = {}
    BY DebuggerAssumption
  <1>5. QED  BY <1>1, <1>2, <1>3, <1>4 DEF Groups, Scalars

LEMMA CountStep ==
  ASSUME NEW g
  PROVE  /\ Count(g, 0) = 0
         /\ \A p \in 0 .. L : Count(g, p) \in Nat /\ Count(g, p) <= Count(g, L)
         /\ \A p \in 0 .. L - 1 :
              Count(g, p + 1) = IF Dump[p + 1] = g THEN Count(g, p) + 1 ELSE Count(g, p)
  <1> DEFINE At(p) == {k \in 1 .. p : Dump[k] = g}
  <1>0. L \in Nat
    BY DumpFacts
  <1>1. At(0) = {}
    OBVIOUS
  <1>2. \A p \in 0 .. L : IsFiniteSet(At(p)) /\ Cardinality(At(p)) \in Nat
    <2> TAKE p \in 0 .. L
    <2>1. IsFiniteSet(1 .. p)
      BY <1>0, FS_Interval
    <2>2. At(p) \subseteq 1 .. p
      OBVIOUS
    <2>3. QED  BY <2>1, <2>2, FS_Subset, FS_CardinalityType
  <1>3. \A p \in 0 .. L : Cardinality(At(p)) <= Cardinality(At(L))
    <2> TAKE p \in 0 .. L
    <2>1. At(p) \subseteq At(L)
      BY <1>0
    <2>2. IsFiniteSet(At(L))
      BY <1>0, <1>2
    <2>3. QED  BY <2>1, <2>2, FS_Subset
  <1>4. \A p \in 0 .. L - 1 : Cardinality(At(p + 1)) =
           IF Dump[p + 1] = g THEN Cardinality(At(p)) + 1 ELSE Cardinality(At(p))
    <2> TAKE p \in 0 .. L - 1
    <2>0. p \in 0 .. L /\ p \in Nat
      BY <1>0
    <2>1. CASE Dump[p + 1] = g
      <3>1. At(p + 1) = At(p) \cup {p + 1} /\ p + 1 \notin At(p)
        BY <2>0, <2>1
      <3>2. QED  BY <2>0, <2>1, <3>1, <1>2, FS_AddElement
    <2>2. CASE Dump[p + 1] # g
      <3>1. At(p + 1) = At(p)
        BY <2>0, <2>2
      <3>2. QED  BY <2>2, <3>1
    <2>3. QED  BY <2>1, <2>2
  <1>5. QED  BY <1>1, <1>2, <1>3, <1>4, FS_EmptySet DEF Count

\* What is left of a dump, a line at a time.
LEMMA RestFacts ==
  ASSUME NEW e, NEW p \in 0 .. L
  PROVE  /\ Rest(p, e) # <<>> /\ Head(Rest(p, e)) = Line(p + 1, e)
         /\ Tail(Rest(p, e)) = Rest(p + 1, e)
         /\ Rest(L + 1, e) = <<>>
  <1>0. L \in Nat /\ p \in Nat /\ p <= L
    BY DumpFacts
  <1> DEFINE Records == {Line(k, e) : k \in 1 .. L + 1}
  <1>1. \A q \in 0 .. L + 1 : /\ Rest(q, e) \in Seq(Records)
                              /\ Len(Rest(q, e)) = L + 1 - q
                              /\ \A k \in 1 .. L + 1 - q : Rest(q, e)[k] = Line(q + k, e)
    <2> TAKE q \in 0 .. L + 1
    <2>0. q \in Nat /\ q <= L + 1 /\ L + 1 - q \in Nat
      BY <1>0
    <2>1. \A k \in 1 .. L + 1 - q : q + k \in 1 .. L + 1
      BY <1>0, <2>0
    <2>2. Rest(q, e) \in [1 .. L + 1 - q -> Records]
      BY <2>1 DEF Rest
    <2> HIDE DEF Records
    <2>3. Rest(q, e) \in Seq(Records)
      BY <2>0, <2>2, SeqDef
    <2>4. Len(Rest(q, e)) = L + 1 - q
      BY <2>0, <2>2, <2>3, LenProperties
    <2>5. QED  BY <2>3, <2>4 DEF Rest
  <1> HIDE DEF Records
  <1>2. /\ p \in 0 .. L + 1 /\ p + 1 \in 0 .. L + 1 /\ L + 1 \in 0 .. L + 1
        /\ L + 1 - (p + 1) = L - p /\ L + 1 - (L + 1) = 0 /\ L + 1 - p >= 1
    BY <1>0
  <1>3. Rest(p, e) # <<>> /\ Head(Rest(p, e)) = Line(p + 1, e)
    <2>1. Rest(p, e) \in Seq(Records) /\ Len(Rest(p, e)) = L + 1 - p /\ Len(Rest(p, e)) >= 1
      BY <1>1, <1>2
    <2>2. Rest(p, e) # <<>> /\ Head(Rest(p, e)) = Rest(p, e)[1]
      BY <2>1, EmptySeq, HeadTailProperties
    <2>3. QED  BY <2>2, <1>0, <1>1, <1>2
  <1>4. Tail(Rest(p, e)) = Rest(p + 1, e)
    <2> DEFINE t == Tail(Rest(p, e))
               r == Rest(p + 1, e)
    <2>1. Rest(p, e) \in Seq(Records) /\ Len(Rest(p, e)) = L + 1 - p /\ Rest(p, e) # <<>>
      BY <1>1, <1>2, <1>3
    <2>2. t \in Seq(Records) /\ Len(t) = L - p
          /\ \A k \in 1 .. Len(t) : t[k] = Rest(p, e)[k + 1]
      BY <2>1, <1>0, HeadTailProperties
    <2>3. r \in Seq(Records) /\ Len(r) = L - p
      BY <1>1, <1>2
    <2>4. \A k \in 1 .. L - p : t[k] = r[k]
      <3> TAKE k \in 1 .. L - p
      <3>1. k + 1 \in 1 .. L + 1 - p /\ k \in 1 .. L + 1 - (p + 1)
        BY <1>0
      <3>2. p + (k + 1) = (p + 1) + k
        BY <1>0
      <3>3. t[k] = Line(p + (k + 1), e) /\ r[k] = Line((p + 1) + k, e)
        BY <3>1, <2>2, <1>1, <1>2
      <3>4. QED  BY <3>2, <3>3
    <2> HIDE DEF t, r
    <2>5. t = r
      BY <2>2, <2>3, <2>4, SeqEqual
    <2>6. QED  BY <2>5 DEF t, r
  <1>5. Rest(L + 1, e) = <<>>
    BY <1>0, <1>1, <1>2, EmptySeq
  <1>6. QED  BY <1>3, <1>4, <1>5

\* What DumpEdge writes to an empty pipe.
LEMMA Dumped ==
  ASSUME NEW e
  PROVE  <<>> \o [k \in 1 .. Len(Dump) |-> [prefix |-> Dump[k], value |-> e]]
           \o << [prefix |-> "break", value |-> e] >> = Rest(0, e)
  <1> DEFINE Records == {Line(k, e) : k \in 1 .. L + 1}
             d == [k \in 1 .. L |-> Line(k, e)]
             b == << Line(L + 1, e) >>
  <1>0. L \in Nat
    BY DumpFacts
  <1>1. [k \in 1 .. Len(Dump) |-> [prefix |-> Dump[k], value |-> e]] = d
    BY DEF L, Line
  <1>2. Line(L + 1, e) = [prefix |-> "break", value |-> e]
    BY <1>0 DEF Line
  <1>3. d \in [1 .. L -> Records] /\ Line(L + 1, e) \in Records
    <2>1. L + 1 \in 1 .. L + 1 /\ \A k \in 1 .. L : k \in 1 .. L + 1
      BY <1>0
    <2>2. \A k \in 1 .. L + 1 : Line(k, e) \in Records
      OBVIOUS
    <2> HIDE DEF Records
    <2>3. QED  BY <2>1, <2>2
  <1>4. \A k \in 1 .. L : d[k] = Line(k, e)
    OBVIOUS
  <1> HIDE DEF Records, d
  <1>5. d \in Seq(Records) /\ Len(d) = L
    <2>1. d \in Seq(Records)
      BY <1>0, <1>3, SeqDef
    <2>2. QED  BY <2>1, <1>0, <1>3, LenProperties
  <1>6. <<>> \o d = d
    BY <1>5, ConcatEmptySeq
  <1>7. /\ b \in Seq(Records) /\ Len(b) = 1 /\ b[1] = Line(L + 1, e)
    BY <1>3
  <1> DEFINE s == d \o b
  <1>8. /\ s \in Seq(Records) /\ Len(s) = L + 1
        /\ \A k \in 1 .. L + 1 : s[k] = IF k <= L THEN d[k] ELSE b[k - L]
    BY <1>0, <1>5, <1>7, ConcatProperties
  <1> HIDE DEF b, s
  <1>9. \A k \in 1 .. L + 1 : s[k] = Line(k, e)
    <2> TAKE k \in 1 .. L + 1
    <2>1. CASE k <= L
      BY <1>0, <1>4, <1>8, <2>1
    <2>2. CASE ~(k <= L)
      <3>1. k = L + 1 /\ k - L = 1
        BY <1>0, <2>2
      <3>2. QED  BY <3>1, <2>2, <1>7, <1>8
    <2>3. QED  BY <2>1, <2>2
  <1>10. s = [k \in 1 .. L + 1 |-> Line(k, e)]
    <2>1. s \in [1 .. L + 1 -> Records]
      BY <1>0, <1>8, LenProperties
    <2>2. QED  BY <2>1, <1>9
  <1>11. Rest(0, e) = [k \in 1 .. L + 1 |-> Line(k, e)]
    BY <1>0 DEF Rest
  <1>12. QED  BY <1>1, <1>2, <1>6, <1>10, <1>11 DEF s, b

\* The signals: the scalars of a dump, and of each group as many registers as the
\* dump has lines of it.
LEMMA SignalFacts ==
  /\ \A k \in 1 .. L : Dump[k] \in Scalars => <<Dump[k], 0>> \in Signals
  /\ \A g \in Groups : \A j \in 0 .. Count(g, L) - 1 : <<g, j>> \in Signals
  /\ \A f \in Signals :
       \/ \E k \in 1 .. L : Dump[k] \in Scalars /\ f = <<Dump[k], 0>>
       \/ \E g \in Groups : \E j \in 0 .. Count(g, L) - 1 : f = <<g, j>>
  <1>1. \A k \in 1 .. L : Dump[k] \in Scalars => <<Dump[k], 0>> \in Signals
    BY DumpFacts DEF Signals
  <1>2. Registers = UNION {{g} \X (0 .. Count(g, L) - 1) : g \in Groups}
    BY DumpFacts DEF Registers, Count
  <1>3. \A g \in Groups : \A j \in 0 .. Count(g, L) - 1 : <<g, j>> \in Signals
    BY <1>2 DEF Signals
  <1>4. ASSUME NEW f \in Signals
        PROVE  \/ \E k \in 1 .. L : Dump[k] \in Scalars /\ f = <<Dump[k], 0>>
               \/ \E g \in Groups : \E j \in 0 .. Count(g, L) - 1 : f = <<g, j>>
    <2>1. CASE f \in (ToSet(Dump) \cap Scalars) \X {0}
      <3>1. PICK s \in ToSet(Dump) \cap Scalars : f = <<s, 0>>
        BY <2>1
      <3>2. PICK k \in 1 .. L : s = Dump[k]
        BY DumpFacts
      <3>3. QED  BY <3>1, <3>2
    <2>2. CASE f \in Registers
      BY <2>2, <1>2
    <2>3. QED  BY <2>1, <2>2 DEF Signals
  <1>5. QED  BY <1>1, <1>3, <1>4

-----------------------------------------------------------------------------
(* The testbench's steps, and the start. *)

LEMMA DebuggerInitInv ==
  ASSUME DebuggerInit
  PROVE  DebuggerInv
  <1> USE DEF DebuggerInit, Nothing
  <1>1. 0 \in Slots /\ N \in Nat \ {0, 1}
    BY DEF Slots
  <1>2. DebuggerTypes
    <2>1. contents \in [Slots -> [Signals -> Nat]]
      OBVIOUS
    <2>2. reg_num \in [Groups -> Nat]
      OBVIOUS
    <2>3. screen.slot \in Slots
      BY <1>1
    <2>4. QED  BY <1>1, <2>1, <2>2, <2>3 DEF DebuggerTypes
  <1>3. EchoesAtPrompt
    BY DEF EchoesAtPrompt
  <1>4. SlotHolds(0)
    <2>1. \A g \in Groups : reg_num[g] = 0 /\ Count(g, 0) = 0
      BY CountStep
    <2>2. QED  BY <2>1 DEF SlotHolds
  <1>5. RingHolds(edge, N - 1)
    BY <1>1 DEF RingHolds
  <1>6. Between
    BY <1>4, <1>5 DEF Between
  <1>7. CursorIsShown
    BY DEF CursorIsShown
  <1>8. QED  BY <1>2, <1>3, <1>6, <1>7 DEF DebuggerInv, InStep

LEMMA DumpEdgeInv ==
  ASSUME DebuggerInv, DumpEdge
  PROVE  DebuggerInv'
  <1> USE DEF DumpEdge, userVars, inputVars, ringVars
  <1>1. DebuggerTypes /\ EchoesAtPrompt /\ CursorIsShown /\ InStep
    BY DEF DebuggerInv
  <1>2. DebuggerTypes' /\ EchoesAtPrompt' /\ CursorIsShown'
    BY <1>1 DEF DebuggerTypes, EchoesAtPrompt, CursorIsShown
  <1>3. InStep'
    <2>1. CASE pc = "exit" \/ done_received = 1
      BY <2>1 DEF InStep
    <2>2. CASE Between
      <3>1. writepipe = <<>> /\ readpipe = <<>>
        BY <2>2 DEF Between
      <3>2. writepipe' = Rest(0, edge')
        BY <3>1, Dumped
      <3>3. SlotHolds(0)'
        <4>1. \A g \in Groups : reg_num[g] = 0 /\ Count(g, 0) = 0
          BY <2>2, CountStep DEF Between, SlotHolds
        <4>2. QED  BY <4>1 DEF SlotHolds
      <3>4. RingHolds(edge - 1, Kept(0))'
        <4>1. edge' - 1 = edge
          BY <1>1 DEF DebuggerTypes
        <4>2. RingHolds(edge, N - 1)
          BY <2>2 DEF Between
        <4>3. QED  BY <4>1, <4>2 DEF RingHolds, Kept
      <3>5. edge' > 0
        BY <1>1 DEF DebuggerTypes
      <3>6. Within(0)'
        <4>1. tb' = "wait" /\ readpipe' = <<>>
          BY <3>1
        <4> HIDE DEF DumpEdge
        <4>2. QED  BY <4>1, <3>2, <3>3, <3>4, <3>5 DEF Within
      <3>7. 0 \in 0 .. L
        BY DumpFacts
      <3>8. QED  BY <3>6, <3>7 DEF InStep
    <2>3. CASE \E p \in 0 .. L : Within(p)
      BY <2>3 DEF Within
    <2>4. QED  BY <2>1, <2>2, <2>3, <1>1 DEF InStep
  <1>4. QED  BY <1>2, <1>3 DEF DebuggerInv

LEMMA SendDoneInv ==
  ASSUME DebuggerInv, SendDone
  PROVE  DebuggerInv'
  <1> USE DEF SendDone, userVars, inputVars, ringVars
  <1>1. DebuggerTypes /\ EchoesAtPrompt /\ CursorIsShown /\ InStep
    BY DEF DebuggerInv
  <1>2. DebuggerTypes' /\ EchoesAtPrompt' /\ CursorIsShown'
    BY <1>1 DEF DebuggerTypes, EchoesAtPrompt, CursorIsShown
  <1>3. InStep'
    <2>1. CASE pc = "exit" \/ done_received = 1
      BY <2>1 DEF InStep
    <2>2. CASE Between
      <3>1. writepipe = <<>> /\ readpipe = <<>>
        BY <2>2 DEF Between
      <3>2. writepipe' = <<[prefix |-> "DONE", value |-> edge']>>
        BY <3>1
      <3>3. SlotHolds(0)' /\ RingHolds(edge, N - 1)'
        BY <2>2 DEF Between, SlotHolds, RingHolds
      <3>4. Between'
        BY <3>1, <3>2, <3>3 DEF Between
      <3>5. QED  BY <3>4 DEF InStep
    <2>3. CASE \E p \in 0 .. L : Within(p)
      BY <2>3 DEF Within
    <2>4. QED  BY <2>1, <2>2, <2>3, <1>1 DEF InStep
  <1>4. QED  BY <1>2, <1>3 DEF DebuggerInv

LEMMA waitforresponseInv ==
  ASSUME DebuggerInv, waitforresponse
  PROVE  DebuggerInv'
  <1> USE DEF waitforresponse, userVars, inputVars, ringVars
  <1>1. DebuggerTypes /\ EchoesAtPrompt /\ CursorIsShown /\ InStep
    BY DEF DebuggerInv
  <1>2. DebuggerTypes' /\ EchoesAtPrompt' /\ CursorIsShown'
    BY <1>1 DEF DebuggerTypes, EchoesAtPrompt, CursorIsShown
  <1>3. InStep'
    <2>1. CASE pc = "exit" \/ done_received = 1
      BY <2>1 DEF InStep
    <2>2. CASE Between
      <3>1. tb = "wait" /\ writepipe = <<>> /\ readpipe = <<"n">>
        BY <2>2 DEF Between
      <3>2. tb' = "run" /\ readpipe' = <<>>
        BY <3>1
      <3>3. SlotHolds(0)' /\ RingHolds(edge, N - 1)'
        BY <2>2 DEF Between, SlotHolds, RingHolds
      <3>4. Between'
        BY <3>1, <3>2, <3>3 DEF Between
      <3>5. QED  BY <3>4 DEF InStep
    <2>3. CASE \E p \in 0 .. L : Within(p)
      BY <2>3 DEF Within
    <2>4. QED  BY <2>1, <2>2, <2>3, <1>1 DEF InStep
  <1>4. QED  BY <1>2, <1>3 DEF DebuggerInv

-----------------------------------------------------------------------------
(* The debugger reads a line of a dump. *)

LEMMA StoredFacts ==
  ASSUME NEW values \in [Signals -> Nat], NEW f \in Signals, NEW v \in Nat
  PROVE  /\ Stored(values, f, v) \in [Signals -> Nat]
         /\ \A g \in Signals : Stored(values, f, v)[g] = IF g = f THEN v ELSE values[g]
  <1>1. DOMAIN values \cup {f} = Signals
    OBVIOUS
  <1>2. Stored(values, f, v) = [g \in Signals |-> IF g = f THEN v ELSE values[g]]
    BY <1>1 DEF Stored
  <1>3. QED  BY <1>2

\* The k-th slot behind the next one to be written is another one.
LEMMA Behind ==
  ASSUME NEW h \in Slots, NEW k \in 0 .. N - 1
  PROVE  /\ (h - 1 - k) % N \in Slots
         /\ (h - 1 - k) % N = IF h - 1 - k < 0 THEN h - 1 - k + N ELSE h - 1 - k
         /\ k <= N - 2 => (h - 1 - k) % N # h
  <1>1. /\ N \in Nat \ {0, 1} /\ h \in Int /\ 0 <= h /\ h <= N - 1
        /\ k \in Int /\ 0 <= k /\ k <= N - 1
    BY DEF Slots
  <1>2. h - 1 - k \in Int /\ -N <= h - 1 - k /\ h - 1 - k <= N /\ h - 1 - k # N
    BY <1>1
  <1>3. (h - 1 - k) % N = IF h - 1 - k < 0 THEN h - 1 - k + N ELSE h - 1 - k
    BY <1>2, Ring
  <1>4. QED  BY <1>1, <1>3 DEF Slots

\* A value stored in the slot being filled leaves the others alone.
LEMMA StoredValue ==
  ASSUME DebuggerTypes, NEW p \in 0 .. L - 1, Within(p), NEW f \in Signals,
         contents' = [contents EXCEPT ![history_num] = Stored(@, f, edge)]
  PROVE  /\ contents' \in [Slots -> [Signals -> Nat]]
         /\ \A g \in Signals : contents'[history_num][g] =
                                 IF g = f THEN edge ELSE contents[history_num][g]
         /\ \A k \in 0 .. N - 2 :
              k < edge - 1 => contents'[(history_num - 1 - k) % N] = Taken(edge - 1 - k)
  <1> DEFINE h == history_num
             s == Stored(contents[h], f, edge)
  <1>1. h \in Slots /\ contents \in [Slots -> [Signals -> Nat]] /\ edge \in Nat
    BY DEF DebuggerTypes
  <1>2. /\ s \in [Signals -> Nat]
        /\ \A g \in Signals : s[g] = IF g = f THEN edge ELSE contents[h][g]
    BY <1>1, StoredFacts
  <1>3. /\ contents' \in [Slots -> [Signals -> Nat]]
        /\ contents'[h] = s
        /\ \A x \in Slots : x # h => contents'[x] = contents[x]
    <2> HIDE DEF s
    <2>1. contents' = [contents EXCEPT ![h] = s]
      BY DEF s
    <2> HIDE DEF h
    <2>2. QED  BY <1>1, <1>2, <2>1
  <1>4. ASSUME NEW k \in 0 .. N - 2, k < edge - 1
        PROVE  contents'[(h - 1 - k) % N] = Taken(edge - 1 - k)
    <2>1. k \in 0 .. N - 1 /\ k \in 0 .. Kept(p) /\ k <= N - 2
      BY DEF Kept
    <2>2. (h - 1 - k) % N \in Slots /\ (h - 1 - k) % N # h
      BY <1>1, <2>1, Behind
    <2>3. contents[(h - 1 - k) % N] = Taken(edge - 1 - k)
      BY <2>1, <1>4 DEF Within, RingHolds
    <2>4. QED  BY <2>2, <2>3, <1>3
  <1>5. QED  BY <1>2, <1>3, <1>4

LEMMA ValueRead ==
  ASSUME DebuggerTypes, NEW p \in 0 .. L - 1, Within(p), processinput(Line(p + 1, edge)),
         UNCHANGED <<history_num, edge>>
  PROVE  /\ contents' \in [Slots -> [Signals -> Nat]] /\ reg_num' \in [Groups -> Nat]
         /\ SlotHolds(p + 1)'
         /\ RingHolds(edge - 1, Kept(p + 1))'
  <1> DEFINE x == Dump[p + 1]
             h == history_num
  <1>0. /\ L \in Nat /\ p \in Nat /\ p + 1 \in 1 .. L /\ p \in 0 .. L /\ p + 1 \in 0 .. L
        /\ h \in Slots /\ edge \in Nat /\ reg_num \in [Groups -> Nat]
        /\ h' = h /\ edge' = edge
    <2>1. L \in Nat
      BY DumpFacts
    <2>2. p \in Nat /\ p + 1 \in 1 .. L /\ p \in 0 .. L /\ p + 1 \in 0 .. L
      BY <2>1
    <2>3. h \in Slots /\ edge \in Nat /\ reg_num \in [Groups -> Nat]
      BY DEF DebuggerTypes
    <2>4. QED  BY <2>1, <2>2, <2>3
  <1>1. Line(p + 1, edge).prefix = x /\ Line(p + 1, edge).value = edge
    BY <1>0 DEF Line
  <1>2. /\ x \in ToSet(Dump) /\ x \notin {"break", "DONE"}
        /\ x \in Groups <=> x \notin Scalars
    BY <1>0, DumpFacts DEF Groups
  <1>3. /\ \A g \in Groups : reg_num[g] = Count(g, p)
        /\ \A k \in 1 .. p : Dump[k] \in Scalars => contents[h][<<Dump[k], 0>>] = edge
        /\ \A g \in Groups : \A j \in 0 .. reg_num[g] - 1 : contents[h][<<g, j>>] = edge
    BY DEF Within, SlotHolds
  <1>4. \A g \in Groups : /\ Count(g, p) \in Nat /\ Count(g, p + 1) \in Nat
                          /\ Count(g, p + 1) <= Count(g, L)
                          /\ Count(g, p + 1) = IF x = g THEN Count(g, p) + 1 ELSE Count(g, p)
    BY <1>0, CountStep
  <1> HIDE DEF x, h
  <1>5. PICK f \in Signals :
          /\ contents' = [contents EXCEPT ![h] = Stored(@, f, edge)]
          /\ IF x \in Scalars THEN f = <<x, 0>> /\ reg_num' = reg_num
             ELSE /\ f = <<x, reg_num[x]>>
                  /\ reg_num' = [reg_num EXCEPT ![x] = @ + 1]
    <2>1. CASE x \in Scalars
      <3>1. <<x, 0>> \in Signals
        BY <1>0, <2>1, SignalFacts DEF x
      <3>2. contents' = [contents EXCEPT ![h] = Stored(@, <<x, 0>>, edge)] /\ reg_num' = reg_num
        BY <1>1, <1>2, <2>1 DEF processinput, h
      <3>3. QED  BY <2>1, <3>1, <3>2
    <2>2. CASE x \notin Scalars
      <3>1. reg_num[x] \in 0 .. Count(x, L) - 1
        <4>1. reg_num[x] = Count(x, p) /\ Count(x, p) + 1 <= Count(x, L) /\ Count(x, L) \in Nat
          BY <1>0, <1>2, <1>3, <1>4, <2>2, CountStep
        <4>2. QED  BY <1>2, <1>4, <2>2, <4>1
      <3>2. <<x, reg_num[x]>> \in Signals
        BY <1>2, <2>2, <3>1, SignalFacts
      <3>3. /\ contents' = [contents EXCEPT ![h] = Stored(@, <<x, reg_num[x]>>, edge)]
            /\ reg_num' = [reg_num EXCEPT ![x] = @ + 1]
        BY <1>1, <1>2, <2>2 DEF processinput, h
      <3>4. QED  BY <2>2, <3>2, <3>3
    <2>3. QED  BY <2>1, <2>2
  <1>6. /\ contents' \in [Slots -> [Signals -> Nat]]
        /\ \A y \in Signals : contents'[h][y] = IF y = f THEN edge ELSE contents[h][y]
        /\ \A k \in 0 .. N - 2 :
             k < edge - 1 => contents'[(h - 1 - k) % N] = Taken(edge - 1 - k)
    BY <1>5, StoredValue DEF h
  <1>7. reg_num' \in [Groups -> Nat] /\ \A g \in Groups : reg_num'[g] = Count(g, p + 1)
    <2>1. CASE x \in Scalars
      BY <1>0, <1>2, <1>3, <1>4, <1>5, <2>1
    <2>2. CASE x \notin Scalars
      <3>1. reg_num' = [reg_num EXCEPT ![x] = reg_num[x] + 1] /\ x \in Groups
        BY <1>2, <1>5, <2>2
      <3>2. \A g \in Groups : reg_num'[g] = IF g = x THEN reg_num[g] + 1 ELSE reg_num[g]
        BY <1>0, <3>1
      <3>3. reg_num' \in [Groups -> Nat]
        BY <1>0, <3>1
      <3>4. \A g \in Groups : reg_num'[g] = Count(g, p + 1)
        BY <1>3, <1>4, <3>2
      <3>5. QED  BY <3>3, <3>4
    <2>3. QED  BY <2>1, <2>2
  <1>8. \A k \in 1 .. p + 1 : Dump[k] \in Scalars => contents'[h][<<Dump[k], 0>>] = edge
    <2> TAKE k \in 1 .. p + 1
    <2> HAVE Dump[k] \in Scalars
    <2>1. k \in 1 .. L
      BY <1>0
    <2>2. <<Dump[k], 0>> \in Signals
      BY <2>1, SignalFacts
    <2>3. CASE k = p + 1
      BY <2>2, <2>3, <1>5, <1>6 DEF x
    <2>4. CASE k # p + 1
      <3>1. k \in 1 .. p
        BY <1>0, <2>4
      <3>2. QED  BY <2>2, <3>1, <1>3, <1>6
    <2>5. QED  BY <2>3, <2>4
  <1>9. \A g \in Groups : \A j \in 0 .. reg_num'[g] - 1 : contents'[h][<<g, j>>] = edge
    <2> TAKE g \in Groups
    <2> TAKE j \in 0 .. reg_num'[g] - 1
    <2>1. /\ reg_num'[g] = IF x = g THEN reg_num[g] + 1 ELSE reg_num[g]
          /\ reg_num[g] \in Nat /\ reg_num'[g] <= Count(g, L)
      BY <1>3, <1>4, <1>7
    <2>2. Count(g, L) \in Nat
      BY <1>0, CountStep
    <2>3. <<g, j>> \in Signals
      BY <2>1, <2>2, SignalFacts
    <2>4. CASE j \in 0 .. reg_num[g] - 1
      BY <2>3, <2>4, <1>3, <1>6
    <2>5. CASE j \notin 0 .. reg_num[g] - 1
      <3>1. x = g /\ j = reg_num[g]
        BY <2>1, <2>5
      <3>2. <<g, j>> = f
        BY <3>1, <1>2, <1>5
      <3>3. QED  BY <2>3, <3>2, <1>6
    <2>6. QED  BY <2>4, <2>5
  <1>10. SlotHolds(p + 1)'
    BY <1>0, <1>7, <1>8, <1>9 DEF SlotHolds, h
  <1>11. RingHolds(edge - 1, Kept(p + 1))'
    <2>1. Kept(p + 1) = N - 2
      BY <1>0 DEF Kept
    <2>2. QED  BY <1>0, <1>6, <2>1 DEF RingHolds, h
  <1>12. QED  BY <1>6, <1>7, <1>10, <1>11

\* What the main loop draws is a slot of the ring, or DONE has ended a run and the
\* next slot is 0.
LEMMA SlotDrawn ==
  ASSUME DebuggerTypes, NEW done \in {0, 1}
  PROVE  LET stop == StopsAtEnd(done)
             slot == IF stop THEN Rem(history_num - 1, N) ELSE history_num
         IN  /\ stop \in BOOLEAN /\ (done = 0 => ~stop) /\ slot \in Int
             /\ slot \notin Slots => stop /\ slot = -1
             /\ done = 0 => slot = history_num
  <1>1. StopsAtEnd(done) \in BOOLEAN /\ (done = 0 => ~StopsAtEnd(done))
    BY DEF StopsAtEnd
  <1>2. N \in Nat \ {0, 1} /\ history_num \in Slots
    BY DEF DebuggerTypes
  <1>3. Rem(history_num - 1, N) = history_num - 1
    BY <1>2, SlotBefore
  <1>4. QED  BY <1>1, <1>2, <1>3 DEF Slots

\* The main loop ends at a prompt whose windows show where the user is, or with the
\* child's death.
LEMMA IterationFacts ==
  ASSUME DebuggerTypes, EchoesAtPrompt, NEW done \in {0, 1}, Iteration(done), pc' # "crashed"
  PROVE  /\ history_num' \in Slots /\ hist_num_temp' \in Slots /\ pc' = "key"
         /\ screen'.slot \in Slots
         /\ EchoesAtPrompt' /\ CursorIsShown'
         /\ UNCHANGED <<goto_flag, cycle_flag, stop_time, i>>
         /\ done = 0 => /\ history_num' = (history_num + 1) % N
                        /\ readpipe' = Append(readpipe, "n")
  <1> DEFINE stop == StopsAtEnd(done)
             h == history_num
             slot == IF stop THEN Rem(h - 1, N) ELSE h
  <1>1. /\ N \in Nat \ {0, 1} /\ screen.slot \in Slots
        /\ <<echo_data, running>> \in {<<1, 0>>, <<0, 1>>}
    BY DEF DebuggerTypes, EchoesAtPrompt
  <1>2. /\ running' = IF stop THEN 0 ELSE running
        /\ echo_data' = IF stop THEN 1 ELSE echo_data
        /\ slot \in Slots
        /\ screen' = IF echo_data' = 1 THEN Drawn(slot) ELSE screen
        /\ history_num' = (slot + 1) % N
        /\ hist_num_temp' = IF history_num' = 0 THEN N - 1 ELSE history_num' - 1
        /\ readpipe' = IF AsksForNext(done) THEN Append(readpipe, "n") ELSE readpipe
        /\ pc' = "key"
    BY DEF Iteration, Dies, Prompts
  <1>3. stop \in BOOLEAN /\ (done = 0 => slot = h)
    BY SlotDrawn
  <1> HIDE DEF stop, slot
  <1>4. slot \in Int /\ 0 <= slot /\ slot <= N - 1
    BY <1>1, <1>2 DEF Slots
  <1>5. history_num' = IF slot = N - 1 THEN 0 ELSE slot + 1
    <2>1. PICK b \in Int : b = slot + 1 /\ 0 <= b /\ b <= N
      BY <1>1, <1>4
    <2>2. b % N = IF b = N THEN 0 ELSE b
      <3>1. -N <= b /\ ~(b < 0)
        BY <1>1, <2>1
      <3>2. QED  BY <2>1, <3>1, Ring
    <2>3. b = N <=> slot = N - 1
      BY <1>1, <1>4, <2>1
    <2>4. QED  BY <1>2, <2>1, <2>2, <2>3, Zenon
  <1>6. hist_num_temp' = slot
    BY <1>1, <1>2, <1>4, <1>5
  <1>7. history_num' \in Slots /\ hist_num_temp' \in Slots
    BY <1>1, <1>2, <1>4, <1>5, <1>6 DEF Slots
  <1>8. EchoesAtPrompt'
    BY <1>1, <1>2, <1>3 DEF EchoesAtPrompt
  <1>9. Drawn(slot).slot = slot
    BY DEF Drawn
  <1>10. screen'.slot \in Slots
    BY <1>1, <1>2, <1>9
  <1>11. CursorIsShown'
    <2> SUFFICES ASSUME running' = 0 PROVE screen'.slot = hist_num_temp'
      BY DEF CursorIsShown
    <2>1. echo_data' = 1
      BY <1>8 DEF EchoesAtPrompt
    <2>2. QED  BY <1>2, <1>6, <1>9, <2>1
  <1>12. done = 0 => AsksForNext(done)
    BY DEF AsksForNext
  <1>13. UNCHANGED <<goto_flag, cycle_flag, stop_time, i>>
    BY DEF Iteration
  <1>14. QED  BY <1>2, <1>3, <1>5, <1>7, <1>8, <1>10, <1>11, <1>12, <1>13

LEMMA DeathFacts ==
  ASSUME DebuggerTypes, NEW done \in {0, 1}, Iteration(done), pc' = "crashed"
  PROVE  done = 1 /\ running' = 0 /\ history_num' = -1 /\ screen'.slot = -1
  <1> DEFINE stop == StopsAtEnd(done)
             slot == IF stop THEN Rem(history_num - 1, N) ELSE history_num
  <1>1. /\ running' = IF stop THEN 0 ELSE running
        /\ slot \notin Slots /\ history_num' = slot
        /\ screen' = [screen EXCEPT !.slot = slot]
    BY DEF Iteration, Dies, Prompts
  <1>2. stop \in BOOLEAN /\ (done = 0 => ~stop) /\ (slot \notin Slots => stop /\ slot = -1)
    BY SlotDrawn
  <1> HIDE DEF stop, slot
  <1>3. stop /\ slot = -1 /\ done = 1
    BY <1>1, <1>2
  <1>4. screen'.slot = -1
    BY <1>1, <1>3
  <1>5. QED  BY <1>1, <1>3, <1>4

\* A dump that has been read to its end fills the slot, and the ring turns.
LEMMA BreakRead ==
  ASSUME DebuggerTypes, Within(L), processinput(Line(L + 1, edge)), Iteration(0),
         EchoesAtPrompt, writepipe' = Tail(writepipe), UNCHANGED <<tb, edge>>
  PROVE  /\ contents' \in [Slots -> [Signals -> Nat]] /\ reg_num' \in [Groups -> Nat]
         /\ Between'
  <1> DEFINE h == history_num
  <1>0. /\ L \in Nat /\ L \in 0 .. L /\ h \in Slots /\ edge \in Nat
        /\ contents \in [Slots -> [Signals -> Nat]]
        /\ N \in Nat \ {0, 1}
    <2>1. L \in Nat
      BY DumpFacts
    <2>2. L \in 0 .. L
      BY <2>1
    <2>3. h \in Slots /\ edge \in Nat /\ contents \in [Slots -> [Signals -> Nat]]
      BY DEF DebuggerTypes
    <2>4. QED  BY <2>1, <2>2, <2>3
  <1>1. Line(L + 1, edge).prefix = "break"
    BY <1>0 DEF Line
  <1>2. reg_num' = [g \in Groups |-> 0] /\ contents' = contents
    BY <1>1, DumpFacts DEF processinput, ResetCounters, Groups
  <1>3. history_num' = (h + 1) % N /\ readpipe' = Append(readpipe, "n") /\ history_num' \in Slots
    <2>1. pc' # "crashed"
      BY DeathFacts
    <2>2. QED  BY <2>1, IterationFacts
  <1>4. tb' = "wait" /\ readpipe' = <<"n">>
    BY <1>3 DEF Within
  <1>5. writepipe' = <<>>
    BY <1>0, RestFacts DEF Within
  <1>6. SlotHolds(0)'
    <2>1. \A g \in Groups : reg_num'[g] = 0 /\ Count(g, 0) = 0
      BY <1>2, CountStep
    <2>2. QED  BY <2>1 DEF SlotHolds
  <1>7. contents[h] = Taken(edge)
    <2>1. \A f \in Signals : contents[h][f] = edge
      <3> TAKE f \in Signals
      <3>1. CASE \E k \in 1 .. L : Dump[k] \in Scalars /\ f = <<Dump[k], 0>>
        BY <3>1 DEF Within, SlotHolds
      <3>2. CASE \E g \in Groups : \E j \in 0 .. Count(g, L) - 1 : f = <<g, j>>
        BY <3>2 DEF Within, SlotHolds
      <3>3. QED  BY <3>1, <3>2, SignalFacts
    <2>2. contents[h] \in [Signals -> Nat]
      BY <1>0
    <2>3. QED  BY <2>1, <2>2 DEF Taken
  <1>8. RingHolds(edge, N - 1)'
    <2> SUFFICES ASSUME NEW k \in 0 .. N - 1, k < edge
                 PROVE  contents[(history_num' - 1 - k) % N] = Taken(edge - k)
      BY <1>2 DEF RingHolds
    <2>1. /\ h \in Int /\ 0 <= h /\ h <= N - 1 /\ k \in Int /\ 0 <= k /\ k <= N - 1
      BY <1>0 DEF Slots
    <2>2. history_num' = IF h = N - 1 THEN 0 ELSE h + 1
      <3>1. (h + 1) % N = IF h + 1 = N THEN 0 ELSE h + 1
        <4>1. h + 1 \in Int /\ -N <= h + 1 /\ h + 1 <= N /\ ~(h + 1 < 0)
          BY <1>0, <2>1
        <4>2. QED  BY <4>1, Ring
      <3>2. QED  BY <1>0, <2>1, <3>1, <1>3
    <2>3. (history_num' - 1 - k) % N = IF h - k < 0 THEN h - k + N ELSE h - k
      <3> DEFINE h1 == history_num'
                 r == (h1 - 1 - k) % N
      <3>1. r = IF h1 - 1 - k < 0 THEN h1 - 1 - k + N ELSE h1 - 1 - k
        BY <1>3, Behind
      <3>2. h1 = IF h = N - 1 THEN 0 ELSE h + 1
        BY <2>2
      <3> HIDE DEF h1, r
      <3>3. r = IF h - k < 0 THEN h - k + N ELSE h - k
        <4>1. CASE h = N - 1
          BY <4>1, <1>0, <2>1, <3>1, <3>2
        <4>2. CASE h # N - 1
          BY <4>2, <1>0, <2>1, <3>1, <3>2
        <4>3. QED  BY <4>1, <4>2
      <3>4. QED  BY <3>3 DEF h1, r
    <2>4. CASE k = 0
      BY <2>1, <2>3, <2>4, <1>0, <1>7
    <2>5. CASE k # 0
      <3>1. k - 1 \in 0 .. Kept(L) /\ k - 1 \in 0 .. N - 1 /\ k - 1 < edge - 1
        BY <2>1, <2>5, <1>0 DEF Kept
      <3>2. contents[(h - 1 - (k - 1)) % N] = Taken(edge - 1 - (k - 1))
        BY <3>1 DEF Within, RingHolds
      <3>3. (h - 1 - (k - 1)) % N = IF h - k < 0 THEN h - k + N ELSE h - k
        <4>1. h - 1 - (k - 1) = h - k
          BY <2>1
        <4> DEFINE j == k - 1
        <4>2. (h - 1 - j) % N = IF h - 1 - j < 0 THEN h - 1 - j + N ELSE h - 1 - j
          BY <1>0, <3>1, Behind
        <4>3. QED  BY <4>1, <4>2
      <3>4. edge - 1 - (k - 1) = edge - k
        BY <1>0, <2>1
      <3>5. QED  BY <2>3, <3>2, <3>3, <3>4
    <2>6. QED  BY <2>4, <2>5
  <1>9. Between'
    BY <1>4, <1>5, <1>6, <1>8 DEF Between
  <1>10. QED  BY <1>0, <1>2, <1>9

LEMMA ReadLineInv ==
  ASSUME DebuggerInv, ReadLine
  PROVE  DebuggerInv' \/ DiedAtEnd'
  <1> DEFINE line == Head(writepipe)
  <1>1. DebuggerTypes /\ EchoesAtPrompt /\ CursorIsShown /\ InStep
    BY DEF DebuggerInv
  <1>2. /\ pc = "read" /\ done_received = 0 /\ writepipe # <<>>
        /\ processinput(line)
        /\ done_received' = IF line.prefix = "DONE" THEN 1 ELSE 0
        /\ line.prefix \in {"break", "DONE"} => Iteration(done_received')
        /\ line.prefix \notin {"break", "DONE"} =>
             UNCHANGED <<userVars, history_num, time_wrapped, screen, pc, readpipe>>
        /\ writepipe' = Tail(writepipe)
        /\ tb' = tb /\ edge' = edge
    BY DEF ReadLine, tbVars
  <1>3. L \in Nat /\ L \in 0 .. L
    BY DumpFacts
  <1>4. done_received' \in {0, 1} /\ edge' \in Nat
    BY <1>1, <1>2 DEF DebuggerTypes
  <1>5. CASE Between
    <2>1. line = [prefix |-> "DONE", value |-> edge]
      BY <1>2, <1>5 DEF Between
    <2>2. line.prefix = "DONE"
      BY <2>1
    <2>3. done_received' = 1 /\ Iteration(1)
      BY <1>2, <2>2
    <2>4. UNCHANGED inputVars
      BY <1>2, <2>2, DumpFacts DEF processinput
    <2>5. CASE pc' = "crashed"
      BY <1>1, <2>3, <2>5, DeathFacts DEF DiedAtEnd
    <2>6. CASE pc' # "crashed"
      <3>1. /\ history_num' \in Slots /\ hist_num_temp' \in Slots /\ pc' = "key"
            /\ screen'.slot \in Slots
            /\ EchoesAtPrompt' /\ CursorIsShown'
            /\ UNCHANGED <<goto_flag, cycle_flag, stop_time, i>>
        BY <1>1, <2>3, <2>6, IterationFacts
      <3>2. DebuggerTypes'
        BY <1>1, <1>4, <2>4, <3>1 DEF DebuggerTypes, inputVars
      <3>3. InStep'
        BY <2>3 DEF InStep
      <3>4. QED  BY <3>1, <3>2, <3>3 DEF DebuggerInv
    <2>7. QED  BY <2>5, <2>6
  <1>6. CASE Within(L)
    <2>1. line = Line(L + 1, edge) /\ line.prefix = "break"
      BY <1>3, <1>6, RestFacts DEF Within, Line
    <2>2. done_received' = 0 /\ Iteration(0)
      BY <1>2, <2>1
    <2>3. /\ contents' \in [Slots -> [Signals -> Nat]] /\ reg_num' \in [Groups -> Nat]
          /\ Between'
      BY <1>1, <1>2, <1>6, <2>1, <2>2, BreakRead
    <2>4. /\ history_num' \in Slots /\ hist_num_temp' \in Slots /\ pc' = "key"
          /\ screen'.slot \in Slots
          /\ EchoesAtPrompt' /\ CursorIsShown'
          /\ UNCHANGED <<goto_flag, cycle_flag, stop_time, i>>
      <3>1. pc' # "crashed"
        BY <1>1, <2>2, DeathFacts
      <3>2. QED  BY <1>1, <2>2, <3>1, IterationFacts
    <2>5. DebuggerTypes'
      BY <1>1, <1>4, <2>3, <2>4 DEF DebuggerTypes
    <2>6. QED  BY <2>3, <2>4, <2>5 DEF DebuggerInv, InStep
  <1>7. ASSUME NEW p \in 0 .. L - 1, Within(p)
        PROVE  DebuggerInv'
    <2>1. /\ p \in 0 .. L /\ p + 1 \in 0 .. L /\ p + 1 \in 1 .. L /\ p + 1 > 0
      BY <1>3
    <2>2. line = Line(p + 1, edge) /\ Tail(writepipe) = Rest(p + 1, edge)
      BY <2>1, <1>7, RestFacts DEF Within
    <2>3. line.prefix = Dump[p + 1] /\ Dump[p + 1] \notin {"break", "DONE"}
      <3>1. p + 1 <= L /\ Line(p + 1, edge).prefix = Dump[p + 1]
        BY <1>3, <2>1 DEF Line
      <3>2. Dump[p + 1] \notin {"break", "DONE"}
        BY <2>1, DumpFacts
      <3> HIDE DEF line
      <3>3. QED  BY <2>2, <3>1, <3>2
    <2>4. /\ done_received' = 0
          /\ UNCHANGED <<userVars, history_num, time_wrapped, screen, pc, readpipe>>
      BY <1>2, <2>3
    <2>5. /\ contents' \in [Slots -> [Signals -> Nat]] /\ reg_num' \in [Groups -> Nat]
          /\ SlotHolds(p + 1)'
          /\ RingHolds(edge - 1, Kept(p + 1))'
      BY <1>1, <1>2, <1>7, <2>2, <2>4, ValueRead
    <2>6. DebuggerTypes' /\ EchoesAtPrompt' /\ CursorIsShown'
      BY <1>1, <1>4, <2>4, <2>5 DEF DebuggerTypes, EchoesAtPrompt, CursorIsShown, userVars
    <2>7. Within(p + 1)'
      <3>1. writepipe' = Rest(p + 1, edge')
        BY <1>2, <2>2
      <3>2. tb' = "wait" /\ readpipe' = <<>> /\ edge' > 0 /\ pc' = "read"
        BY <1>2, <1>7, <2>4 DEF Within
      <3>3. QED  BY <2>5, <3>1, <3>2 DEF Within
    <2>8. QED  BY <2>1, <2>6, <2>7 DEF DebuggerInv, InStep
  <1>8. QED
    <2>1. Between \/ \E p \in 0 .. L : Within(p)
      BY <1>1, <1>2 DEF InStep
    <2>2. \A p \in 0 .. L : p = L \/ p \in 0 .. L - 1
      BY <1>3
    <2>3. QED  BY <1>5, <1>6, <1>7, <2>1, <2>2

LEMMA AgainInv ==
  ASSUME DebuggerInv, Again
  PROVE  DebuggerInv' \/ DiedAtEnd'
  <1>1. DebuggerTypes /\ EchoesAtPrompt
    BY DEF DebuggerInv
  <1>2. /\ done_received = 1 /\ Iteration(1)
        /\ UNCHANGED <<inputVars, done_received, tbVars, writepipe>>
    BY DEF Again
  <1>3. CASE pc' = "crashed"
    BY <1>1, <1>2, <1>3, DeathFacts DEF DiedAtEnd
  <1>4. CASE pc' # "crashed"
    <2>1. /\ history_num' \in Slots /\ hist_num_temp' \in Slots /\ pc' = "key"
          /\ screen'.slot \in Slots
          /\ EchoesAtPrompt' /\ CursorIsShown'
          /\ UNCHANGED <<goto_flag, cycle_flag, stop_time, i>>
      BY <1>1, <1>2, <1>4, IterationFacts
    <2>2. DebuggerTypes'
      BY <1>1, <1>2, <2>1 DEF DebuggerTypes, inputVars, tbVars
    <2>3. QED  BY <1>2, <2>1, <2>2 DEF DebuggerInv, InStep
  <1>5. QED  BY <1>3, <1>4

-----------------------------------------------------------------------------
(* The user's keys. *)

\* What a key may leave: the windows are drawn, or the user looks where he did.
Replies == [at : Slots, drawn : BOOLEAN, echo : {0, 1}, run : {0, 1}, goto : {0, 1},
            cycle : {0, 1}, stop : Nat, i : 0 .. N, continue : BOOLEAN]
Users == {u \in Replies : (u.drawn \/ u.at = hist_num_temp) /\ u.echo = 1 - u.run}

LEMMA HereIsUser ==
  ASSUME DebuggerTypes, EchoesAtPrompt
  PROVE  /\ Here \in Users /\ ~Here.drawn /\ Here.run = running
         /\ \A h \in Slots : Look(h) \in Users
  <1>1. /\ hist_num_temp \in Slots /\ echo_data \in {0, 1} /\ running \in {0, 1}
        /\ goto_flag \in {0, 1} /\ cycle_flag \in {0, 1} /\ stop_time \in Nat /\ i \in 0 .. N
        /\ echo_data = 1 - running
    BY DEF DebuggerTypes, EchoesAtPrompt
  <1>2. Here \in Replies /\ Here.drawn = FALSE /\ Here.at = hist_num_temp
        /\ Here.echo = echo_data /\ Here.run = running
    BY <1>1 DEF Here, Replies
  <1>3. ASSUME NEW h \in Slots
        PROVE  Look(h) \in Users
    <2>1. Look(h) = [Here EXCEPT !.at = h, !.drawn = TRUE]
      BY DEF Look
    <2> HIDE DEF Here
    <2>2. /\ Look(h) \in Replies /\ Look(h).drawn
          /\ Look(h).echo = Here.echo /\ Look(h).run = Here.run
      BY <1>2, <2>1 DEF Replies
    <2>3. QED  BY <1>1, <1>2, <2>2 DEF Users
  <1>4. QED  BY <1>1, <1>2, <1>3 DEF Users

\* A change of the flags that say nothing of the screen.
LEMMA UserGoesOn ==
  ASSUME NEW u \in Users
  PROVE  /\ \A b \in BOOLEAN : [u EXCEPT !.continue = b] \in Users
         /\ \A s \in Nat : [u EXCEPT !.stop = s] \in Users
         /\ \A s \in Nat, k \in 0 .. N : [u EXCEPT !.stop = s, !.i = k] \in Users
         /\ \A s \in Nat, c \in {0, 1} : [u EXCEPT !.stop = s, !.cycle = c] \in Users
         /\ [u EXCEPT !.echo = 0, !.run = 1, !.continue = TRUE] \in Users
         /\ [u EXCEPT !.echo = 1, !.run = 0] \in Users
         /\ [u EXCEPT !.echo = 0, !.run = 1, !.continue = TRUE, !.goto = 1] \in Users
         /\ [u EXCEPT !.goto = 0, !.echo = 1, !.run = 0] \in Users
  <1>1. u \in Replies /\ (u.drawn \/ u.at = hist_num_temp) /\ u.echo = 1 - u.run
    BY DEF Users
  <1>2. ASSUME NEW b \in BOOLEAN PROVE [u EXCEPT !.continue = b] \in Users
    <2> DEFINE v == [u EXCEPT !.continue = b]
    <2>1. v \in Replies /\ v.at = u.at /\ v.drawn = u.drawn /\ v.echo = u.echo /\ v.run = u.run
      BY <1>1 DEF Replies
    <2> HIDE DEF v
    <2>2. v \in Users
      BY <1>1, <2>1 DEF Users
    <2>3. QED  BY <2>2 DEF v
  <1>3. ASSUME NEW s \in Nat PROVE [u EXCEPT !.stop = s] \in Users
    <2> DEFINE v == [u EXCEPT !.stop = s]
    <2>1. v \in Replies /\ v.at = u.at /\ v.drawn = u.drawn /\ v.echo = u.echo /\ v.run = u.run
      BY <1>1 DEF Replies
    <2> HIDE DEF v
    <2>2. v \in Users
      BY <1>1, <2>1 DEF Users
    <2>3. QED  BY <2>2 DEF v
  <1>4. ASSUME NEW s \in Nat, NEW k \in 0 .. N PROVE [u EXCEPT !.stop = s, !.i = k] \in Users
    <2> DEFINE v == [u EXCEPT !.stop = s, !.i = k]
    <2>1. v \in Replies /\ v.at = u.at /\ v.drawn = u.drawn /\ v.echo = u.echo /\ v.run = u.run
      BY <1>1 DEF Replies
    <2> HIDE DEF v
    <2>2. v \in Users
      BY <1>1, <2>1 DEF Users
    <2>3. QED  BY <2>2 DEF v
  <1>5. ASSUME NEW s \in Nat, NEW c \in {0, 1} PROVE [u EXCEPT !.stop = s, !.cycle = c] \in Users
    <2> DEFINE v == [u EXCEPT !.stop = s, !.cycle = c]
    <2>1. v \in Replies /\ v.at = u.at /\ v.drawn = u.drawn /\ v.echo = u.echo /\ v.run = u.run
      BY <1>1 DEF Replies
    <2> HIDE DEF v
    <2>2. v \in Users
      BY <1>1, <2>1 DEF Users
    <2>3. QED  BY <2>2 DEF v
  <1>6. [u EXCEPT !.echo = 0, !.run = 1, !.continue = TRUE] \in Users
    <2> DEFINE v == [u EXCEPT !.echo = 0, !.run = 1, !.continue = TRUE]
    <2>1. v \in Replies /\ v.at = u.at /\ v.drawn = u.drawn /\ v.echo = 0 /\ v.run = 1
      BY <1>1 DEF Replies
    <2> HIDE DEF v
    <2>2. v \in Users
      BY <1>1, <2>1 DEF Users
    <2>3. QED  BY <2>2 DEF v
  <1>7. [u EXCEPT !.echo = 1, !.run = 0] \in Users
    <2> DEFINE v == [u EXCEPT !.echo = 1, !.run = 0]
    <2>1. v \in Replies /\ v.at = u.at /\ v.drawn = u.drawn /\ v.echo = 1 /\ v.run = 0
      BY <1>1 DEF Replies
    <2> HIDE DEF v
    <2>2. v \in Users
      BY <1>1, <2>1 DEF Users
    <2>3. QED  BY <2>2 DEF v
  <1>8. [u EXCEPT !.echo = 0, !.run = 1, !.continue = TRUE, !.goto = 1] \in Users
    <2> DEFINE v == [u EXCEPT !.echo = 0, !.run = 1, !.continue = TRUE, !.goto = 1]
    <2>1. v \in Replies /\ v.at = u.at /\ v.drawn = u.drawn /\ v.echo = 0 /\ v.run = 1
      BY <1>1 DEF Replies
    <2> HIDE DEF v
    <2>2. v \in Users
      BY <1>1, <2>1 DEF Users
    <2>3. QED  BY <2>2 DEF v
  <1>9. [u EXCEPT !.goto = 0, !.echo = 1, !.run = 0] \in Users
    <2> DEFINE v == [u EXCEPT !.goto = 0, !.echo = 1, !.run = 0]
    <2>1. v \in Replies /\ v.at = u.at /\ v.drawn = u.drawn /\ v.echo = 1 /\ v.run = 0
      BY <1>1 DEF Replies
    <2> HIDE DEF v
    <2>2. v \in Users
      BY <1>1, <2>1 DEF Users
    <2>3. QED  BY <2>2 DEF v
  <1>10. QED  BY <1>2, <1>3, <1>4, <1>5, <1>6, <1>7, <1>8, <1>9

\* A search's slots are slots, and it has a first hit if it has one.
LEMMA FoundIsUser ==
  ASSUME DebuggerTypes, EchoesAtPrompt,
         NEW cycle \in {0, 1}, NEW target \in Nat, NEW other
  PROVE  Found(cycle, target, other) \in Users
  <1> DEFINE delta == Direction(cycle, target, other)
             hits == Hits(cycle, target, other)
             k0 == CHOOSE k \in hits : \A l \in hits : k <= l
             first == Searched(delta, k0)
  <1>1. hist_num_temp \in Slots /\ history_num \in Slots /\ N \in Nat \ {0, 1}
    BY DEF DebuggerTypes
  <1>2. Here \in Users /\ \A h \in Slots : Look(h) \in Users
    BY HereIsUser
  <1>3. history_num \in 0 .. N /\ 0 \in 0 .. N /\ \A h \in Slots : h \in 0 .. N
    BY <1>1 DEF Slots
  <1>4. delta \in Int
    BY DEF Direction
  <1>5. hits \subseteq Nat
    BY <1>1 DEF Hits
  <1> HIDE DEF delta, hits
  <1>6. hits # {} => first \in Slots
    <2> SUFFICES ASSUME hits # {} PROVE first \in Slots
      OBVIOUS
    <2>1. \E k \in hits : \A l \in hits : k <= l
      BY <1>5, Least
    <2>2. k0 \in hits
      BY <2>1, Zenon
    <2> HIDE DEF k0
    <2>3. k0 \in Int
      BY <1>5, <2>2
    <2>4. hist_num_temp + delta * k0 \in Int
      BY <1>1, <1>4, <2>3 DEF Slots
    <2>5. QED  BY <1>1, <2>4 DEF Searched, Slots
  <1> HIDE DEF first
  <1>7. /\ [Here EXCEPT !.stop = target] \in Users
        /\ hits # {} => [Look(first) EXCEPT !.stop = 0, !.i = first] \in Users
        /\ [Look(hist_num_temp) EXCEPT !.stop = 0, !.i = 0] \in Users
        /\ [Here EXCEPT !.stop = target, !.i = history_num] \in Users
    <2> 0 \in Nat
      OBVIOUS
    <2>1. [Here EXCEPT !.stop = target] \in Users
      BY <1>2, UserGoesOn
    <2>2. hits # {} => [Look(first) EXCEPT !.stop = 0, !.i = first] \in Users
      BY <1>2, <1>3, <1>6, UserGoesOn
    <2>3. [Look(hist_num_temp) EXCEPT !.stop = 0, !.i = 0] \in Users
      BY <1>1, <1>2, <1>3, UserGoesOn
    <2>4. [Here EXCEPT !.stop = target, !.i = history_num] \in Users
      BY <1>2, <1>3, UserGoesOn
    <2>5. QED  BY <2>1, <2>2, <2>3, <2>4
  <1>8. QED  BY <1>7 DEF Found, delta, hits, k0, first

LEMMA GotoIsUser ==
  ASSUME DebuggerTypes, EchoesAtPrompt,
         NEW cycle \in {0, 1}, NEW target \in Nat, NEW other
  PROVE  Goto(cycle, target, other) \in Users
  <1> DEFINE found == Found(cycle, target, other)
             kept == IF found.i = history_num
                        /\ (Direction(cycle, target, other) = -1 \/ done_received = 1)
                     THEN 0 ELSE found.stop
             result == [found EXCEPT !.stop = kept, !.cycle = cycle]
  <1>1. found \in Users
    BY FoundIsUser
  <1> HIDE DEF found
  <1>2. kept \in Nat
    BY <1>1 DEF Users, Replies
  <1> HIDE DEF kept
  <1>3. result \in Users
    BY <1>1, <1>2, <1>1, UserGoesOn
  <1> HIDE DEF result
  <1>4. [result EXCEPT !.echo = 0, !.run = 1, !.continue = TRUE, !.goto = 1] \in Users
    BY <1>3, UserGoesOn
  <1>5. QED  BY <1>3, <1>4 DEF Goto, found, kept, result

\* Whatever the key, and whatever the slots hold.
LEMMA ResponseIsUser ==
  ASSUME DebuggerTypes, EchoesAtPrompt, NEW resp \in Keys, NEW r \in Responses(resp)
  PROVE  r \in Users
  <1>1. Here \in Users /\ \A h \in Slots : Look(h) \in Users
    BY HereIsUser
  <1>2. hist_num_temp \in Slots /\ N \in Nat \ {0, 1}
    BY DEF DebuggerTypes
  <1>3. NextEdge \in Users
    <2>1. (hist_num_temp + 1) % N \in Slots
      BY <1>2 DEF Slots
    <2>2. (done_received = 0) \in BOOLEAN
      OBVIOUS
    <2>3. [Here EXCEPT !.continue = done_received = 0] \in Users
      BY <1>1, <2>2, UserGoesOn
    <2>4. QED  BY <1>1, <2>1, <2>3 DEF NextEdge
  <1>4. Back \in Users
    <2>1. /\ hist_num_temp > 0 => hist_num_temp - 1 \in Slots
          /\ N - 1 \in Slots
      BY <1>2 DEF Slots
    <2>2. QED  BY <1>1, <2>1 DEF Back
  <1>5. Run \in Users /\ Pause \in Users
    BY <1>1, <1>2, UserGoesOn DEF Run, Pause
  <1>6. [Here EXCEPT !.continue = TRUE] \in Users
    BY <1>1, UserGoesOn
  <1>7. \A cycle \in {0, 1}, target \in Times, other \in Times : Goto(cycle, target, other) \in Users
    BY GotoIsUser
  <1>8. \/ r \in {Here, NextEdge, Back, Run, Pause, [Here EXCEPT !.continue = TRUE]}
        \/ \E cycle \in {0, 1}, target \in Times, other \in Times : r = Goto(cycle, target, other)
    <2>1. CASE running = 1 /\ resp # "p"
      BY <2>1 DEF Responses
    <2>2. CASE ~(running = 1 /\ resp # "p")
      <3>1. CASE resp = "n"
        BY <2>2, <3>1 DEF Responses
      <3>2. CASE resp = "b"
        BY <2>2, <3>2 DEF Responses
      <3>3. CASE resp = "r"
        BY <2>2, <3>3 DEF Responses
      <3>4. CASE resp = "p"
        BY <2>2, <3>4 DEF Responses
      <3>5. CASE resp = "q"
        BY <2>2, <3>5 DEF Responses
      <3>6. CASE resp \in {"g", "c"}
        <4> DEFINE cycle == IF resp = "c" THEN 1 ELSE 0
        <4>1. cycle \in {0, 1}
          OBVIOUS
        <4>2. r \in {Goto(cycle, target, other) : target \in Times, other \in Times}
          BY <2>2, <3>6 DEF Responses
        <4> HIDE DEF cycle
        <4>3. QED  BY <4>1, <4>2
      <3>7. CASE resp = "ERR"
        BY <2>2, <3>7 DEF Responses
      <3>8. QED  BY <3>1, <3>2, <3>3, <3>4, <3>5, <3>6, <3>7 DEF Keys
    <2>3. QED  BY <2>1, <2>2
  <1>9. CASE r \in {Here, NextEdge, Back, Run, Pause, [Here EXCEPT !.continue = TRUE]}
    BY <1>9, <1>1, <1>3, <1>4, <1>5, <1>6
  <1>10. QED  BY <1>7, <1>8, <1>9

LEMMA KeyInv ==
  ASSUME DebuggerInv, NEW resp \in Keys, Key(resp)
  PROVE  DebuggerInv'
  <1>1. DebuggerTypes /\ EchoesAtPrompt /\ CursorIsShown /\ InStep
    BY DEF DebuggerInv
  <1>2. /\ pc = "key"
        /\ UNCHANGED <<inputVars, ringVars, writepipe, tbVars>>
    BY DEF Key
  <1>2a. PICK r \in Responses(resp) :
            LET quits == resp = "q" /\ running = 0
                goes == r.continue \/ running = 1
                u == IF goes THEN GotoCheck(r) ELSE r
            IN  /\ hist_num_temp' = u.at /\ echo_data' = u.echo /\ running' = u.run
                /\ goto_flag' = u.goto /\ cycle_flag' = u.cycle /\ stop_time' = u.stop /\ i' = u.i
                /\ screen' = IF u.drawn THEN Drawn(u.at) ELSE screen
                /\ pc' = IF quits THEN "exit" ELSE IF goes THEN "read" ELSE "key"
                /\ readpipe' = IF quits THEN Append(readpipe, "Z") ELSE readpipe
    BY DEF Key
  <1> DEFINE quits == resp = "q" /\ running = 0
             goes == r.continue \/ running = 1
             u == IF goes THEN GotoCheck(r) ELSE r
  <1>3. /\ goes = (r.continue \/ running = 1)
        /\ quits = (resp = "q" /\ running = 0)
        /\ u = IF goes THEN GotoCheck(r) ELSE r
        /\ hist_num_temp' = u.at /\ echo_data' = u.echo /\ running' = u.run
        /\ goto_flag' = u.goto /\ cycle_flag' = u.cycle /\ stop_time' = u.stop /\ i' = u.i
        /\ screen' = IF u.drawn THEN Drawn(u.at) ELSE screen
        /\ pc' = IF quits THEN "exit" ELSE IF goes THEN "read" ELSE "key"
        /\ readpipe' = IF quits THEN Append(readpipe, "Z") ELSE readpipe
    BY <1>2a, Zenon
  <1>3a. goes \in BOOLEAN /\ quits \in BOOLEAN
    BY <1>1, ResponseIsUser DEF Users, Replies
  <1> HIDE DEF quits, goes, u
  <1>4. r \in Users
    BY <1>1, ResponseIsUser
  <1>5. u \in Users
    <2>1. GotoCheck(r) \in Users
      BY <1>4, UserGoesOn DEF GotoCheck
    <2>2. QED  BY <1>3, <1>4, <2>1
  <1>6. u \in Replies /\ (u.drawn \/ u.at = hist_num_temp) /\ u.echo = 1 - u.run
    BY <1>5 DEF Users
  <1>7. screen' = IF u.drawn THEN Drawn(u.at) ELSE screen
    BY <1>3
  <1>8. u.at \in Slots /\ Drawn(u.at).slot = u.at
    BY <1>6 DEF Replies, Drawn
  <1>9. DebuggerTypes'
    <2>1. screen'.slot \in Slots
      BY <1>1, <1>7, <1>8 DEF DebuggerTypes
    <2>2. pc' \in {"read", "key", "exit"}
      BY <1>3
    <2>3. /\ history_num' = history_num /\ done_received' = done_received /\ edge' = edge
          /\ contents' = contents /\ reg_num' = reg_num
      BY <1>2 DEF inputVars, ringVars, tbVars
    <2>4. /\ hist_num_temp' \in Slots /\ goto_flag' \in {0, 1} /\ cycle_flag' \in {0, 1}
          /\ stop_time' \in Nat /\ i' \in 0 .. N
      BY <1>3, <1>6 DEF Replies
    <2>5. QED  BY <1>1, <2>1, <2>2, <2>3, <2>4 DEF DebuggerTypes
  <1>10. EchoesAtPrompt'
    <2>1. u.run \in {0, 1} /\ u.echo = 1 - u.run
      BY <1>6 DEF Replies
    <2>2. echo_data' = u.echo /\ running' = u.run
      BY <1>3
    <2>3. QED  BY <2>1, <2>2 DEF EchoesAtPrompt
  <1>11. CursorIsShown'
    <2> SUFFICES ASSUME pc' = "key", running' = 0
                 PROVE  screen'.slot = hist_num_temp'
      BY DEF CursorIsShown
    <2>1. running = 0
      <3>1. ~goes
        BY <1>3
      <3>2. running # 1
        BY <1>3, <3>1
      <3>3. QED  BY <1>1, <3>2 DEF EchoesAtPrompt
    <2>2. screen.slot = hist_num_temp
      BY <1>1, <1>2, <2>1 DEF CursorIsShown
    <2>3. hist_num_temp' = u.at
      BY <1>3
    <2>4. CASE u.drawn
      BY <1>7, <1>8, <2>3, <2>4
    <2>5. CASE ~u.drawn
      BY <1>6, <1>7, <2>2, <2>3, <2>5
    <2>6. QED  BY <2>4, <2>5
  <1>12. InStep'
    <2>1. CASE pc' = "exit" \/ done_received = 1
      BY <1>2, <2>1 DEF InStep, ringVars
    <2>2. CASE pc' # "exit" /\ done_received # 1
      <3>1. /\ readpipe' = readpipe /\ pc' \in {"read", "key"}
            /\ history_num' = history_num /\ contents' = contents /\ reg_num' = reg_num
            /\ writepipe' = writepipe /\ tb' = tb /\ edge' = edge
        BY <1>2, <1>3, <2>2 DEF inputVars, ringVars, tbVars
      <3>2. CASE Between
        <4>1. Between'
          BY <3>1, <3>2 DEF Between, SlotHolds, RingHolds
        <4>2. QED  BY <4>1 DEF InStep
      <3>3. ASSUME NEW p \in 0 .. L, Within(p)
            PROVE  InStep'
        <4>1. SlotHolds(p)' /\ RingHolds(edge - 1, Kept(p))'
          BY <3>1, <3>3 DEF Within, SlotHolds, RingHolds
        <4>2. ~(p > 0)
          BY <1>2, <3>3 DEF Within
        <4>3. Within(p)'
          BY <3>1, <3>3, <4>1, <4>2 DEF Within
        <4>4. QED  BY <4>3 DEF InStep
      <3>4. QED  BY <1>1, <1>2, <2>2, <3>2, <3>3 DEF InStep
    <2>3. QED  BY <2>1, <2>2
  <1>13. QED  BY <1>9, <1>10, <1>11, <1>12 DEF DebuggerInv

-----------------------------------------------------------------------------
LEMMA DebuggerStep ==
  ASSUME DebuggerInv, [DebuggerNext]_debuggerVars
  PROVE  DebuggerInv' \/ DiedAtEnd'
  <1>1. CASE DumpEdge
    BY <1>1, DumpEdgeInv
  <1>2. CASE SendDone
    BY <1>2, SendDoneInv
  <1>3. CASE waitforresponse
    BY <1>3, waitforresponseInv
  <1>4. CASE ReadLine
    BY <1>4, ReadLineInv
  <1>5. CASE Again
    BY <1>5, AgainInv
  <1>6. ASSUME NEW resp \in Keys, Key(resp)
        PROVE  DebuggerInv'
    BY <1>6, KeyInv
  <1>7. CASE UNCHANGED debuggerVars
    <2>1. /\ UNCHANGED <<history_num, hist_num_temp, echo_data, running, goto_flag, cycle_flag,
                         stop_time, done_received, i, reg_num, contents, screen, pc, readpipe,
                         writepipe, tb, edge>>
      BY <1>7 DEF debuggerVars, userVars, inputVars, ringVars, tbVars
    <2>2. DebuggerTypes' /\ EchoesAtPrompt' /\ CursorIsShown'
      BY <2>1 DEF DebuggerInv, DebuggerTypes, EchoesAtPrompt, CursorIsShown
    <2>3. Between => Between'
      BY <2>1 DEF Between, SlotHolds, RingHolds
    <2>4. \A p \in 0 .. L : Within(p) => Within(p)'
      <3> TAKE p \in 0 .. L
      <3> HAVE Within(p)
      <3>1. SlotHolds(p)' /\ RingHolds(edge - 1, Kept(p))'
        BY <2>1 DEF Within, SlotHolds, RingHolds
      <3>2. QED  BY <2>1, <3>1 DEF Within
    <2>5. InStep'
      BY <2>1, <2>3, <2>4 DEF DebuggerInv, InStep
    <2>6. QED  BY <2>2, <2>5 DEF DebuggerInv
  <1>8. QED
    BY <1>1, <1>2, <1>3, <1>4, <1>5, <1>6, <1>7 DEF DebuggerNext, Terminated, Spins

\* The dead do nothing, and the testbench waits for them.
LEMMA DeadStep ==
  ASSUME DiedAtEnd, [DebuggerNext]_debuggerVars
  PROVE  DiedAtEnd'
  <1>1. pc = "crashed"
    BY DEF DiedAtEnd
  <1>2. CASE DumpEdge \/ SendDone \/ waitforresponse
    BY <1>2 DEF DumpEdge, SendDone, waitforresponse, DiedAtEnd, userVars, ringVars
  <1>3. ~ReadLine /\ ~Again /\ ~Terminated /\ \A resp \in Keys : ~Key(resp)
    BY <1>1 DEF ReadLine, Again, Terminated, Key
  <1>4. CASE Spins \/ UNCHANGED debuggerVars
    BY <1>4 DEF Spins, DiedAtEnd, debuggerVars, userVars, ringVars
  <1>5. QED  BY <1>2, <1>3, <1>4 DEF DebuggerNext

\* The visual debugger keeps step with the testbench, whatever keys its user
\* presses, or DONE has killed it at the end of the ring: DebuggerInv or DiedAtEnd
\* is inductive (visual_c_hooks.cpp, visual_testbench.v).
THEOREM DebuggerInvariant == DebuggerSpec => [](DebuggerInv \/ DiedAtEnd)
  <1>1. DebuggerInit => DebuggerInv
    BY DebuggerInitInv
  <1>2. (DebuggerInv \/ DiedAtEnd) /\ [DebuggerNext]_debuggerVars => (DebuggerInv \/ DiedAtEnd)'
    BY DebuggerStep, DeadStep
  <1>3. QED  BY <1>1, <1>2, PTL DEF DebuggerSpec

\* At the prompt the ring holds the latest dumps, newest last, every signal of
\* them, however often it has wrapped.
THEOREM RingHoldsLatestHolds == DebuggerSpec => []RingHoldsLatest
  <1>1. DebuggerInv => RingHoldsLatest
    <2> SUFFICES ASSUME DebuggerInv, pc = "key", done_received = 0,
                        NEW k \in 0 .. N - 1, k < Received
                 PROVE  contents[(history_num - 1 - k) % N] = [f \in Signals |-> Received - k]
      BY DEF RingHoldsLatest
    <2> DEFINE breaks == {j \in DOMAIN writepipe : writepipe[j].prefix = "break"}
    <2>0. edge \in Nat /\ L \in Nat /\ Received = edge - Cardinality(breaks)
      BY DumpFacts DEF DebuggerInv, DebuggerTypes, Received
    <2>1. CASE Between
      <3>1. breaks = {}
        BY <2>1 DEF Between
      <3>2. Received = edge
        <4>1. Cardinality(breaks) = 0
          BY <3>1, FS_EmptySet
        <4> HIDE DEF breaks
        <4>2. QED  BY <2>0, <4>1
      <3>3. contents[(history_num - 1 - k) % N] = Taken(Received - k)
        BY <2>1, <3>2 DEF Between, RingHolds
      <3>4. QED  BY <3>3 DEF Taken
    <2>2. ASSUME NEW p \in 0 .. L, Within(p)
          PROVE  contents[(history_num - 1 - k) % N] = [f \in Signals |-> Received - k]
      <3>1. p = 0
        BY <2>0, <2>2 DEF Within
      <3>2. writepipe = [j \in 1 .. L + 1 |-> Line(j, edge)]
        BY <2>0, <2>2, <3>1 DEF Within, Rest
      <3>3. breaks = {L + 1}
        <4>1. \A j \in 1 .. L + 1 : writepipe[j].prefix = IF j <= L THEN Dump[j] ELSE "break"
          BY <3>2 DEF Line
        <4>2. \A j \in 1 .. L + 1 : writepipe[j].prefix = "break" <=> j = L + 1
          <5> TAKE j \in 1 .. L + 1
          <5>1. CASE j <= L
            <6>1. j \in 1 .. L /\ j # L + 1
              BY <2>0, <5>1
            <6>2. QED  BY <4>1, <5>1, <6>1, DumpFacts
          <5>2. CASE ~(j <= L)
            BY <2>0, <4>1, <5>2
          <5>3. QED  BY <5>1, <5>2
        <4>3. L + 1 \in 1 .. L + 1 /\ DOMAIN writepipe = 1 .. L + 1
          BY <2>0, <3>2
        <4>4. QED  BY <4>2, <4>3
      <3>4. Cardinality(breaks) = 1
        BY <3>3, FS_Singleton
      <3>5. Received = edge - 1
        BY <2>0, <3>4
      <3>6. k \in 0 .. Kept(p)
        BY <3>1 DEF Kept
      <3>7. contents[(history_num - 1 - k) % N] = Taken(Received - k)
        BY <2>2, <3>5, <3>6 DEF Within, RingHolds
      <3>8. QED  BY <3>7 DEF Taken
    <2>3. QED  BY <2>1, <2>2 DEF DebuggerInv, InStep
  <1>2. DiedAtEnd => RingHoldsLatest
    BY DEF DiedAtEnd, RingHoldsLatest
  <1>3. QED  BY <1>1, <1>2, DebuggerInvariant, PTL

\* At the prompt the windows show the slot the next key starts from.  (A child
\* that has died is at no prompt.)
THEOREM CursorIsShownHolds == DebuggerSpec => []CursorIsShown
  <1>1. DebuggerInv => CursorIsShown
    BY DEF DebuggerInv
  <1>2. DiedAtEnd => CursorIsShown
    BY DEF DiedAtEnd, CursorIsShown
  <1>3. QED  BY <1>1, <1>2, DebuggerInvariant, PTL

(* Walks. *)

\* First chooses the least number of a set.
LEMMA FirstOf ==
  ASSUME NEW S \in SUBSET Nat, S # {}
  PROVE  First(S) \in S /\ \A k \in S : First(S) <= k
  BY Least DEF First

\* A set of natural numbers that has 0 and the successor of each of its members
\* has every number.
LEMMA Induct ==
  ASSUME NEW S, 0 \in S, \A k \in Nat : k \in S => k + 1 \in S
  PROVE  Nat \subseteq S
  <1> DEFINE Out == {k \in Nat : k \notin S}
  <1> SUFFICES ASSUME Out # {} PROVE FALSE
    OBVIOUS
  <1>1. PICK k \in Out : \A l \in Out : k <= l
    BY Least
  <1>2. k \in Nat /\ k \notin S /\ k # 0
    BY <1>1
  <1>3. k - 1 \in Nat /\ (k - 1) + 1 = k
    BY <1>2
  <1>4. k - 1 \in S
    BY <1>1, <1>3
  <1>5. QED  BY <1>2, <1>3, <1>4

\* The walk along g from x.
Walk(g, x, n) == {f \in [0 .. n -> DOMAIN g] : f[0] = x /\ \A j \in 0 .. n - 1 : f[j + 1] = g[f[j]]}

LEMMA WalkIsOne ==
  ASSUME NEW R, NEW g \in [R -> R], NEW x \in R, NEW n \in Nat, NEW m \in Nat,
         NEW f \in Walk(g, x, n), NEW h \in Walk(g, x, m), NEW k \in 0 .. n, k \in 0 .. m
  PROVE  f[k] = h[k]
  <1> DEFINE S == {j \in Nat : j <= n /\ j <= m => f[j] = h[j]}
  <1>1. 0 \in S
    BY DEF Walk
  <1>2. ASSUME NEW j \in Nat, j \in S PROVE j + 1 \in S
    <2> SUFFICES ASSUME j + 1 <= n, j + 1 <= m PROVE f[j + 1] = h[j + 1]
      OBVIOUS
    <2>1. j \in 0 .. n - 1 /\ j \in 0 .. m - 1 /\ f[j] = h[j]
      BY <1>2
    <2>2. QED  BY <2>1 DEF Walk
  <1> HIDE DEF S
  <1>3. Nat \subseteq S
    BY <1>1, <1>2, Induct
  <1>4. QED  BY <1>3 DEF S

LEMMA WalkIs ==
  ASSUME NEW R, NEW g \in [R -> R], NEW x \in R, NEW n \in Nat
  PROVE  Walk(g, x, n) # {}
  <1> DEFINE S == {j \in Nat : Walk(g, x, j) # {}}
  <1>1. 0 \in S
    <2>1. [j \in 0 .. 0 |-> x] \in Walk(g, x, 0)
      BY DEF Walk
    <2>2. QED  BY <2>1
  <1>2. ASSUME NEW j \in Nat, j \in S PROVE j + 1 \in S
    <2>1. PICK f : f \in Walk(g, x, j)
      BY <1>2
    <2> DEFINE h == [y \in 0 .. j + 1 |-> IF y = j + 1 THEN g[f[j]] ELSE f[y]]
    <2>2. f \in [0 .. j -> R] /\ f[0] = x /\ \A y \in 0 .. j - 1 : f[y + 1] = g[f[y]]
      BY <2>1 DEF Walk
    <2>3. h \in [0 .. j + 1 -> R]
      BY <2>2
    <2>4. h[0] = x
      BY <2>2
    <2>5. \A y \in 0 .. (j + 1) - 1 : h[y + 1] = g[h[y]]
      BY <2>2
    <2>6. h \in Walk(g, x, j + 1)
      BY <2>3, <2>4, <2>5 DEF Walk
    <2>7. QED  BY <2>6
  <1> HIDE DEF S
  <1>3. Nat \subseteq S
    BY <1>1, <1>2, Induct
  <1>4. QED  BY <1>3 DEF S

\* f goes on along g for ever.
Along(f, g) == \A j \in Nat : f[j + 1] = g[f[j]]

\* The walk has no end.
LEMMA WalkOn ==
  ASSUME NEW R, NEW g \in [R -> R], NEW x \in R
  PROVE  \E f \in [Nat -> R] : f[0] = x /\ Along(f, g)
  <1> DEFINE W(n) == CHOOSE f : f \in Walk(g, x, n)
             f == [n \in Nat |-> W(n)[n]]
  <1>1. ASSUME NEW n \in Nat
        PROVE  W(n) \in Walk(g, x, n) /\ W(n) \in [0 .. n -> R] /\ f[n] = W(n)[n]
    <2>1. W(n) \in Walk(g, x, n)
      BY WalkIs
    <2>2. QED  BY <2>1 DEF Walk
  <1>2. f \in [Nat -> R]
    BY <1>1
  <1>3. f[0] = x
    BY <1>1 DEF Walk
  <1>4. ASSUME NEW j \in Nat PROVE f[j + 1] = g[f[j]]
    <2> HIDE DEF W
    <2>1. W(j + 1)[j + 1] = g[W(j + 1)[j]]
      BY <1>1 DEF Walk
    <2>2. W(j + 1)[j] = W(j)[j]
      <3>1. j + 1 \in Nat /\ j \in 0 .. j + 1 /\ j \in 0 .. j
        OBVIOUS
      <3>2. W(j + 1) \in Walk(g, x, j + 1) /\ W(j) \in Walk(g, x, j)
        BY <1>1, <3>1
      <3>3. QED  BY <3>1, <3>2, WalkIsOne
    <2>3. QED  BY <1>1, <2>1, <2>2
  <1>5. QED  BY <1>2, <1>3, <1>4 DEF Along

(* Rings. *)

\* b comes after a in the ring of the numbers of R.
After(R, a, b) ==
  /\ b \in R
  /\ \/ a < b /\ \A c \in R : ~(a < c /\ c < b)
     \/ b <= a /\ \A c \in R : b <= c /\ c <= a

\* A set of natural numbers with a bound has a greatest one.
LEMMA Greatest ==
  ASSUME NEW S \in SUBSET Nat, S # {}, NEW top \in Nat, \A v \in S : v <= top
  PROVE  \E w \in S : \A v \in S : v <= w
  <1> DEFINE D == {d \in Nat : \E w \in S : top - w = d}
  <1>1. D # {}
    <2>1. PICK w \in S : TRUE
      OBVIOUS
    <2>2. top - w \in Nat
      OBVIOUS
    <2>3. QED  BY <2>2
  <1>2. PICK d \in D : \A e \in D : d <= e
    BY <1>1, Least
  <1>3. PICK w \in S : top - w = d
    OBVIOUS
  <1>4. ASSUME NEW v \in S PROVE v <= w
    <2>1. top - v \in D
      OBVIOUS
    <2>2. top - w <= top - v /\ w \in Nat /\ v \in Nat
      BY <1>2, <1>3, <2>1
    <2>3. QED  BY <2>2
  <1>5. QED  BY <1>4

\* A function to a smaller set takes one value twice.
LEMMA Twice ==
  ASSUME NEW I, NEW V, IsFiniteSet(I), IsFiniteSet(V), Cardinality(V) < Cardinality(I),
         NEW h \in [I -> V]
  PROVE  \E y, j \in I : y # j /\ h[y] = h[j]
  BY FS_PigeonHole

\* A part of a ring that is closed is all of it.
LEMMA ClosedIsAll ==
  ASSUME NEW R \in SUBSET Nat, NEW top \in Nat, \A a \in R : a <= top,
         NEW W \in SUBSET R, W # {}, NEW g \in [R -> R],
         \A a \in R : After(R, a, g[a]), \A a \in W : g[a] \in W
  PROVE  W = R
  <1> SUFFICES ASSUME NEW c \in R, c \notin W PROVE FALSE
    OBVIOUS
  <1>1. CASE \E w \in W : w < c
    <2>1. PICK w \in {v \in W : v < c} : \A v \in {v \in W : v < c} : v <= w
      BY <1>1, Greatest
    <2>5. After(R, w, g[w]) /\ g[w] \in W
      BY <2>1
    <2>6. PICK n \in W : n = g[w]
      BY <2>5
    <2>7. n \in Nat /\ w \in Nat /\ c \in Nat /\ n # c /\ (n < c => n <= w) /\ w < c
      BY <2>1, <2>6
    <2>8. QED  BY <2>5, <2>6, <2>7 DEF After
  <1>2. CASE \A w \in W : ~(w < c)
    <2>1. PICK w \in W : \A v \in W : v <= w
      BY Greatest
    <2>5. After(R, w, g[w]) /\ g[w] \in W
      BY <2>1
    <2>6. PICK n \in W : n = g[w]
      BY <2>5
    <2>7. n \in Nat /\ w \in Nat /\ c \in Nat /\ n # c /\ n <= w /\ c < n
      BY <1>2, <2>1, <2>6
    <2>8. QED  BY <2>5, <2>6, <2>7 DEF After
  <1>3. QED  BY <1>1, <1>2

\* g takes each number of a ring below top to the one after it.
Follows(g, R, top) ==
  /\ g \in [R -> R] /\ \A a \in R : a <= top /\ After(R, a, g[a])

\* A walk through a ring passes all of it in as many steps as it has members.
LEMMA AllPassed ==
  ASSUME NEW R \in SUBSET Nat, NEW top \in Nat, NEW g, Follows(g, R, top),
         IsFiniteSet(R), NEW n \in Nat, Cardinality(R) <= n,
         NEW f \in [Nat -> R], Along(f, g)
  PROVE  \A a \in R : \E k \in 1 .. n : f[k] = a
  <1>0. /\ g \in [R -> R] /\ \A a \in R : a <= top
        /\ \A a \in R : After(R, a, g[a])
    BY DEF Follows
  <1> DEFINE V == {f[k] : k \in 1 .. n}
  <1> SUFFICES ASSUME V # R PROVE FALSE
    OBVIOUS
  <1>1. V \in SUBSET R
    OBVIOUS
  <1>2. IsFiniteSet(V) /\ Cardinality(V) < n
    <2>1. IsFiniteSet(V) /\ Cardinality(V) <= Cardinality(R) /\ Cardinality(V) # Cardinality(R)
      BY <1>1, FS_Subset
    <2>2. Cardinality(V) \in Nat /\ Cardinality(R) \in Nat
      BY <2>1, FS_CardinalityType
    <2>3. QED  BY <2>1, <2>2
  <1>3. IsFiniteSet(1 .. n) /\ Cardinality(1 .. n) = n
    <2>1. 1 \in Int /\ n \in Int
      OBVIOUS
    <2>2. IsFiniteSet(1 .. n) /\ Cardinality(1 .. n) = IF 1 > n THEN 0 ELSE n - 1 + 1
      BY <2>1, FS_Interval, Zenon
    <2>3. (IF 1 > n THEN 0 ELSE n - 1 + 1) = n
      OBVIOUS
    <2>4. QED  BY <2>2, <2>3
  <1>4. PICK h \in [1 .. n -> V] : \A k \in 1 .. n : h[k] = f[k]
    <2>1. [k \in 1 .. n |-> f[k]] \in [1 .. n -> V]
      OBVIOUS
    <2>2. QED  BY <2>1
  <1>5. PICK y \in 1 .. n, j \in 1 .. n : y # j /\ f[y] = f[j]
    <2> DEFINE I == 1 .. n
    <2>1. \E y, j \in I : y # j /\ h[y] = h[j]
      <3>1. Cardinality(V) < Cardinality(I) /\ IsFiniteSet(I) /\ IsFiniteSet(V) /\ h \in [I -> V]
        BY <1>2, <1>3, <1>4
      <3> HIDE DEF V, I
      <3>2. QED  BY <3>1, Twice
    <2>2. QED  BY <1>4, <2>1
  <1>6. ASSUME NEW a \in 1 .. n, NEW b \in 1 .. n, a < b, f[a] = f[b] PROVE FALSE
    <2> DEFINE W == {f[k] : k \in a .. b - 1}
    <2>1. W \in SUBSET R /\ W # {} /\ W \subseteq V
      <3>1. a \in a .. b - 1 /\ a .. b - 1 \subseteq 1 .. n
        BY <1>6
      <3>2. f[a] \in W
        BY <3>1
      <3>3. W \subseteq V
        BY <3>1
      <3>4. QED  BY <1>1, <3>2, <3>3
    <2>2. ASSUME NEW w \in W PROVE g[w] \in W
      <3>1. PICK k \in a .. b - 1 : w = f[k]
        OBVIOUS
      <3>0. k \in Nat /\ k + 1 \in Nat /\ a <= k /\ k <= b - 1 /\ a \in Nat /\ b \in Nat
        OBVIOUS
      <3>2. g[w] = f[k + 1]
        <4>1. f[k + 1] = g[f[k]]
          BY <3>0 DEF Along
        <4>2. QED  BY <3>1, <4>1
      <3>3. CASE k = b - 1
        <4>1. k + 1 = b /\ a \in a .. b - 1
          BY <3>3, <1>6
        <4>2. QED  BY <3>2, <4>1, <1>6
      <3>4. CASE k # b - 1
        <4>1. a <= k + 1 /\ k + 1 <= b - 1 /\ k + 1 \in Int
          BY <3>0, <3>4
        <4>2. k + 1 \in a .. b - 1
          BY <3>0, <4>1
        <4>3. QED  BY <3>2, <4>2
      <3>5. QED  BY <3>3, <3>4
    <2> HIDE DEF W
    <2>3. W = R
      BY <1>0, <2>1, <2>2, ClosedIsAll
    <2>4. QED  BY <1>1, <2>1, <2>3
  <1>7. QED
    <2>1. y < j \/ j < y
      BY <1>5
    <2>2. QED  BY <1>5, <1>6, <2>1

\* A number that goes between a member and the next one joins the ring there.
LEMMA Joined ==
  ASSUME NEW R \in SUBSET Int, NEW new \in Int, new \notin R, NEW p \in R, NEW q \in R,
         After(R, p, q),
         \/ p < new /\ new < q
         \/ p >= q /\ (p < new \/ new < q)
  PROVE  /\ After(R \cup {new}, p, new) /\ After(R \cup {new}, new, q)
         /\ \A a, b \in R : a # p /\ After(R, a, b) => After(R \cup {new}, a, b)
  <1>1. After(R \cup {new}, p, new)
    BY DEF After
  <1>2. After(R \cup {new}, new, q)
    BY DEF After
  <1>3. ASSUME NEW a \in R, NEW b \in R, a # p, After(R, a, b)
        PROVE  After(R \cup {new}, a, b)
    BY <1>3 DEF After
  <1>4. QED  BY <1>1, <1>2, <1>3

\* For a number that is not in the ring there is such a member.
LEMMA PlaceIs ==
  ASSUME NEW R \in SUBSET Nat, NEW top \in Nat, \A a \in R : a <= top, R # {},
         NEW new \in Nat, new \notin R
  PROVE  \E p \in R : \A q \in R : After(R, p, q) =>
           \/ p < new /\ new < q
           \/ p >= q /\ (p < new \/ new < q)
  <1>1. CASE \E w \in R : w < new
    <2>1. PICK w \in {v \in R : v < new} : \A v \in {v \in R : v < new} : v <= w
      BY <1>1, Greatest
    <2>5. ASSUME NEW q \in R, After(R, w, q)
          PROVE  (w < new /\ new < q) \/ (w >= q /\ (w < new \/ new < q))
      BY <2>1, <2>5 DEF After
    <2>6. QED  BY <2>5
  <1>2. CASE \A w \in R : ~(w < new)
    <2>1. PICK w \in R : \A v \in R : v <= w
      BY Greatest
    <2>5. ASSUME NEW q \in R, After(R, w, q)
          PROVE  (w < new /\ new < q) \/ (w >= q /\ (w < new \/ new < q))
      BY <1>2, <2>1, <2>5 DEF After
    <2>6. QED  BY <2>5
  <1>3. QED  BY <1>1, <1>2

\* What is after a member of R that is not in A is after it in S too.
Stays(R, S, A) == \A a, b \in R : a \notin A /\ After(R, a, b) => After(S, a, b)

\* The ring without q, which is between p and r.
Unjoins(R, p, q, r) ==
  p # q /\ After(R \ {q}, p, r) /\ Stays(R, R \ {q}, {p, q})

\* A member leaves the ring from behind the one before it; another member remains.
LEMMA Unjoined ==
  ASSUME NEW R \in SUBSET Int, NEW p \in R, NEW q \in R, NEW r \in R, NEW other \in R,
         other # q, After(R, p, q), After(R, q, r)
  PROVE  Unjoins(R, p, q, r)
  <1>1. p # q /\ r # q
    BY DEF After
  <1>2. After(R \ {q}, p, r)
    BY <1>1 DEF After
  <1>3. ASSUME NEW a \in R, NEW b \in R, a \notin {p, q}, After(R, a, b)
        PROVE  After(R \ {q}, a, b)
    BY <1>3 DEF After
  <1>4. QED  BY <1>1, <1>2, <1>3 DEF Stays, Unjoins

(* The heap. *)

Block == NodeSize + HeaderSize
Top == HeapStart + HEAP_SIZE

\* The first n blocks of the heap.
Carved(n) == {HeapStart + k * Block : k \in 0 .. n - 1}

\* The states of a heap of which n blocks are carved.
HeapsOf(n, base) ==
  [headers : [Carved(n) \cup {base} -> [next : Nat, size : Nat]], base : {base},
   freep : Carved(n) \cup {base}, next_index : {HeapStart + n * Block},
   avail_mem : {HEAP_SIZE - n * Block}]

\* The blocks that are free, with base.
RingOf(h, n, used) == (Carved(n) \ used) \cup {h.base}

\* Of n blocks carved those used are taken, and the others and base are linked in
\* the order of their addresses, each of a node's size; freep is one of these.
HeapOk(h, n, used) ==
  /\ n \in Nat /\ n * Block <= HEAP_SIZE /\ used \in SUBSET Carved(n)
  /\ h.base \in Bases /\ h \in HeapsOf(n, h.base)
  /\ h.freep \in RingOf(h, n, used)
  /\ h.headers[h.base].size = 0
  /\ \A a \in Carved(n) : h.headers[a].size = NodeSize
  /\ \A a \in RingOf(h, n, used) : After(RingOf(h, n, used), a, h.headers[a].next)

LEMMA BlockIs == Block = 20 /\ NodeSize = 12 /\ HeaderSize = 8 /\ NULL = 0
  BY DEF Block, NodeSize, HeaderSize, NULL

LEMMA HeapConstants ==
  /\ HEAP_SIZE \in Nat /\ HeapStart \in Nat /\ HeapStart > 8 /\ Top \in Nat
  /\ Priorities \subseteq Nat /\ MaxNodes \in Nat \ {0} /\ MaxNodes * 20 <= HEAP_SIZE
  /\ \A k \in 0 .. HEAP_SIZE : k * 20 + 96 # HEAP_SIZE
  /\ Bases = {HeapStart - 8, HeapStart + HEAP_SIZE}
  BY HeapAssumption, QueueAssumption, BlockIs DEF Block, Beyond, Bases, Top

\* Where the blocks and base are; no block ends, in the arithmetic of tj_free, where
\* another or base begins.
LEMMA Places ==
  ASSUME NEW n \in Nat, n * Block <= HEAP_SIZE, NEW base \in Bases
  PROVE  /\ Carved(n) \in SUBSET Nat /\ base \in Nat /\ base # NULL /\ base \notin Carved(n)
         /\ \A a \in Carved(n) \cup {base} : a \in Nat /\ a # NULL /\ a <= Top
         /\ \A a \in Carved(n), b \in Carved(n) \cup {base} : Beyond(a, NodeSize) # b
         /\ \A a \in Carved(n) : Beyond(base, 0) # a
  <1> USE BlockIs, HeapConstants
  <1>1. ASSUME NEW a \in Carved(n)
        PROVE  \E k \in 0 .. n - 1 : a = HeapStart + k * 20 /\ k * 20 + 20 <= HEAP_SIZE
    <2>1. PICK k \in 0 .. n - 1 : a = HeapStart + k * 20
      BY <1>1 DEF Carved
    <2>2. k * 20 + 20 <= HEAP_SIZE
      OBVIOUS
    <2>3. QED  BY <2>1, <2>2
  <1>2. ASSUME NEW a \in Carved(n)
        PROVE  a \in Nat /\ a # NULL /\ a <= Top /\ a # base /\ base # a + 96
    <2>1. PICK k \in 0 .. n - 1 : a = HeapStart + k * 20 /\ k * 20 + 20 <= HEAP_SIZE
      BY <1>1
    <2>2. k \in 0 .. HEAP_SIZE
      BY <2>1
    <2>3. QED  BY <2>1, <2>2 DEF Top
  <1>3. ASSUME NEW a \in Carved(n), NEW b \in Carved(n)
        PROVE  a + 96 # b
    <2>1. PICK k \in 0 .. n - 1 : a = HeapStart + k * 20
      BY <1>1
    <2>2. PICK l \in 0 .. n - 1 : b = HeapStart + l * 20
      BY <1>1
    <2>3. QED  BY <2>1, <2>2
  <1>4. base \in Nat /\ base # NULL /\ base <= Top
    BY DEF Top
  <1>5. \A a \in Carved(n) : Beyond(a, NodeSize) = a + 96
    BY <1>2 DEF Beyond
  <1>6. Beyond(base, 0) = base
    BY <1>4 DEF Beyond
  <1>7. QED  BY <1>2, <1>3, <1>4, <1>5, <1>6

\* The blocks are as many as they are.
LEMMA CarvedCount ==
  ASSUME NEW n \in Nat
  PROVE  IsFiniteSet(Carved(n)) /\ Cardinality(Carved(n)) = n
  <1> USE BlockIs, HeapConstants
  <1> DEFINE f == [k \in 0 .. n - 1 |-> HeapStart + k * 20]
  <1>1. f \in Bijection(0 .. n - 1, Carved(n))
    <2>1. f \in [0 .. n - 1 -> Carved(n)]
      BY DEF Carved
    <2>2. \A k, l \in 0 .. n - 1 : f[k] = f[l] => k = l
      OBVIOUS
    <2>3. \A a \in Carved(n) : \E k \in 0 .. n - 1 : f[k] = a
      BY DEF Carved
    <2>4. QED  BY <2>1, <2>2, <2>3 DEF Bijection, Injection, Surjection, IsInjective
  <1>2. IsFiniteSet(0 .. n - 1) /\ Cardinality(0 .. n - 1) = n
    BY FS_Interval
  <1>3. ExistsBijection(0 .. n - 1, Carved(n))
    BY <1>1 DEF ExistsBijection
  <1>4. QED  BY <1>2, <1>3, FS_Bijection

LEMMA CarvedMore ==
  ASSUME NEW n \in Nat
  PROVE  /\ Carved(n + 1) = Carved(n) \cup {HeapStart + n * Block}
         /\ HeapStart + n * Block \notin Carved(n)
  <1> USE BlockIs, HeapConstants
  <1>1. ASSUME NEW a \in Carved(n + 1) PROVE a \in Carved(n) \cup {HeapStart + n * Block}
    BY DEF Carved
  <1>2. ASSUME NEW a \in Carved(n) \cup {HeapStart + n * Block} PROVE a \in Carved(n + 1)
    BY DEF Carved
  <1>3. HeapStart + n * Block \notin Carved(n)
    BY DEF Carved
  <1>4. QED  BY <1>1, <1>2, <1>3

LEMMA HeapFacts ==
  ASSUME NEW h, NEW n, NEW used, HeapOk(h, n, used)
  PROVE  /\ h = [headers |-> h.headers, base |-> h.base, freep |-> h.freep,
                 next_index |-> HeapStart + n * Block, avail_mem |-> HEAP_SIZE - n * Block]
         /\ h.headers \in [Carved(n) \cup {h.base} -> [next : Nat, size : Nat]]
         /\ DOMAIN h.headers = Carved(n) \cup {h.base}
         /\ RingOf(h, n, used) \in SUBSET Nat /\ RingOf(h, n, used) \subseteq DOMAIN h.headers
         /\ h.base \in RingOf(h, n, used)
         /\ h.freep \in RingOf(h, n, used) /\ h.freep # NULL
         /\ \A a \in RingOf(h, n, used) : a <= Top
         /\ IsFiniteSet(RingOf(h, n, used)) /\ Cardinality(RingOf(h, n, used)) <= n + 1
         /\ Rounds(h) = 0 .. n + 1
  <1>1. h = [headers |-> h.headers, base |-> h.base, freep |-> h.freep,
             next_index |-> h.next_index, avail_mem |-> h.avail_mem]
        /\ h.next_index = HeapStart + n * Block /\ h.avail_mem = HEAP_SIZE - n * Block
        /\ h.headers \in [Carved(n) \cup {h.base} -> [next : Nat, size : Nat]]
    BY DEF HeapOk, HeapsOf
  <1>2. RingOf(h, n, used) \subseteq Carved(n) \cup {h.base}
    BY DEF RingOf
  <1>3. IsFiniteSet(Carved(n) \cup {h.base}) /\ Cardinality(Carved(n) \cup {h.base}) = n + 1
    <2>1. h.base \notin Carved(n)
      BY Places DEF HeapOk
    <2>2. QED  BY <2>1, CarvedCount, FS_AddElement DEF HeapOk
  <1>4. IsFiniteSet(RingOf(h, n, used)) /\ Cardinality(RingOf(h, n, used)) <= n + 1
    BY <1>2, <1>3, FS_Subset
  <1>5. \A a \in Carved(n) \cup {h.base} : a \in Nat /\ a # NULL /\ a <= Top
    BY Places DEF HeapOk
  <1>6. h.base \in RingOf(h, n, used) /\ h.freep \in RingOf(h, n, used)
    BY DEF RingOf, HeapOk
  <1>7. Rounds(h) = 0 .. n + 1
    BY <1>1, <1>3 DEF Rounds
  <1>8. QED  BY <1>1, <1>2, <1>4, <1>5, <1>6, <1>7

\* The walk along the free list stays on it.
LEMMA LinksIs ==
  ASSUME NEW h, NEW n, NEW used, HeapOk(h, n, used)
  PROVE  /\ Links(h) \in [Nat -> RingOf(h, n, used)] /\ Links(h)[0] = h.freep
         /\ \A j \in Nat : Links(h)[j + 1] = h.headers[Links(h)[j]].next
  <1> DEFINE R == RingOf(h, n, used)
             g == [a \in R |-> h.headers[a].next]
             Is(c) == c = [j \in Nat |-> IF j = 0 THEN h.freep ELSE h.headers[c[j - 1]].next]
  <1>1. g \in [R -> R] /\ h.freep \in R
    BY DEF HeapOk, After
  <1>2. PICK f \in [Nat -> R] : f[0] = h.freep /\ \A j \in Nat : f[j + 1] = g[f[j]]
    <2>1. PICK x \in R : x = h.freep
      BY <1>1
    <2> HIDE DEF R, g
    <2>2. \E f \in [Nat -> R] : f[0] = x /\ Along(f, g)
      BY <1>1, WalkOn
    <2>3. QED  BY <2>1, <2>2 DEF Along
  <1>3. Is(f)
    <2>1. ASSUME NEW j \in Nat
          PROVE  f[j] = IF j = 0 THEN h.freep ELSE h.headers[f[j - 1]].next
      <3>1. CASE j = 0
        BY <1>2, <3>1
      <3>2. CASE j # 0
        <4>1. j - 1 \in Nat /\ (j - 1) + 1 = j
          BY <3>2
        <4>2. f[j] = g[f[j - 1]] /\ f[j - 1] \in R
          BY <1>2, <4>1
        <4>3. QED  BY <3>2, <4>2
      <3>3. QED  BY <3>1, <3>2
    <2> HIDE DEF R, g
    <2>2. QED  BY <2>1
  <1>4. Links(h) = CHOOSE c : Is(c)
    BY DEF Links
  <1> DEFINE c == Links(h)
  <1>5. Is(Links(h))
    <2> HIDE DEF Is
    <2>1. QED  BY <1>3, <1>4
  <1>6. ASSUME NEW j \in Nat
        PROVE  c[j] = IF j = 0 THEN h.freep ELSE h.headers[c[j - 1]].next
    <2> HIDE DEF c
    <2>1. c = [y \in Nat |-> IF y = 0 THEN h.freep ELSE h.headers[c[y - 1]].next]
      BY <1>5 DEF c
    <2>2. QED  BY <2>1
  <1>7. ASSUME NEW j \in Nat PROVE c[j + 1] = h.headers[c[j]].next
    <2>1. j + 1 \in Nat /\ j + 1 # 0 /\ (j + 1) - 1 = j
      OBVIOUS
    <2>2. QED  BY <2>1, <1>6
  <1>8. \A j \in Nat : c[j] \in R
    <2> DEFINE S == {j \in Nat : c[j] \in R}
    <2>1. 0 \in S
      BY <1>1, <1>6
    <2>2. ASSUME NEW j \in Nat, j \in S PROVE j + 1 \in S
      <3>1. c[j] \in R
        BY <2>2
      <3>2. c[j + 1] = g[c[j]]
        BY <1>7, <3>1
      <3>3. j + 1 \in Nat /\ c[j + 1] \in R
        <4> HIDE DEF R, g, c
        <4>1. QED  BY <1>1, <3>1, <3>2
      <3>4. QED  BY <3>3
    <2> HIDE DEF S
    <2>3. Nat \subseteq S
      BY <2>1, <2>2, Induct
    <2>4. QED  BY <2>3 DEF S
  <1>9. DOMAIN c = Nat /\ c = [j \in Nat |-> c[j]]
    <2> HIDE DEF c
    <2>1. c = [y \in Nat |-> IF y = 0 THEN h.freep ELSE h.headers[c[y - 1]].next]
      BY <1>5 DEF c
    <2>2. DOMAIN c = Nat
      BY <2>1
    <2>3. QED  BY <2>1, <2>2
  <1>10. QED  BY <1>6, <1>7, <1>8, <1>9

\* It passes all of the list in one round.
LEMMA RoundPassesAll ==
  ASSUME NEW h, NEW n, NEW used, HeapOk(h, n, used)
  PROVE  /\ \A a \in RingOf(h, n, used) : \E k \in 1 .. n + 1 : Chain(h, k) = a
         /\ \A k \in Nat : Chain(h, k) \in RingOf(h, n, used)
         /\ \A k \in Nat : Chain(h, k + 1) = h.headers[Chain(h, k)].next
  <1> DEFINE R == RingOf(h, n, used)
             g == [a \in R |-> h.headers[a].next]
  <1>1. /\ R \in SUBSET Nat /\ Top \in Nat /\ \A a \in R : a <= Top
        /\ IsFiniteSet(R) /\ Cardinality(R) <= n + 1 /\ n + 1 \in Nat
    <2>1. n \in Nat /\ Top \in Nat
      BY HeapConstants DEF HeapOk
    <2>2. R \in SUBSET Nat /\ (\A a \in R : a <= Top) /\ IsFiniteSet(R) /\ Cardinality(R) <= n + 1
      BY HeapFacts
    <2>3. QED  BY <2>1, <2>2
  <1>2. g \in [R -> R] /\ \A a \in R : After(R, a, g[a])
    BY DEF HeapOk, After
  <1>3. PICK f \in [Nat -> R] : f = Links(h)
    BY LinksIs
  <1>4. Along(f, g)
    BY <1>3, LinksIs DEF Along
  <1>5. \A a \in R : \E k \in 1 .. n + 1 : f[k] = a
    <2>1. PICK m \in Nat : m = n + 1
      BY <1>1
    <2>2. PICK top \in Nat : \A a \in R : a <= top
      BY <1>1
    <2>3. R \in SUBSET Nat /\ IsFiniteSet(R) /\ Cardinality(R) <= m
      BY <1>1, <2>1
    <2> HIDE DEF R, g
    <2>4. \A a \in R : \E k \in 1 .. m : f[k] = a
      <3>1. Follows(g, R, top)
        BY <1>2, <2>2 DEF Follows
      <3>2. QED  BY <1>4, <2>3, <3>1, AllPassed
    <2>5. QED  BY <2>1, <2>4
  <1>6. \A k \in Nat : Chain(h, k) = f[k]
    BY <1>3 DEF Chain
  <1>7. QED
    <2>1. \A a \in R : \E k \in 1 .. n + 1 : Chain(h, k) = a
      BY <1>5, <1>6
    <2>2. \A k \in Nat : Chain(h, k) \in R
      BY <1>6
    <2>3. \A k \in Nat : Chain(h, k + 1) = h.headers[Chain(h, k)].next
      <3> SUFFICES ASSUME NEW k \in Nat PROVE Chain(h, k + 1) = h.headers[Chain(h, k)].next
        OBVIOUS
      <3>1. k + 1 \in Nat /\ f[k] \in R
        OBVIOUS
      <3>2. f[k + 1] = g[f[k]]
        <4> HIDE DEF R, g
        <4>1. QED  BY <1>4 DEF Along
      <3>3. f[k + 1] = h.headers[f[k]].next
        BY <3>1, <3>2
      <3>4. QED  BY <1>6, <3>1, <3>3
    <2>4. QED  BY <2>1, <2>2, <2>3

\* The free list is the blocks that are not taken.
LEMMA FreeAre ==
  ASSUME NEW h, NEW n, NEW used, HeapOk(h, n, used)
  PROVE  FreeBlocks(h) = Carved(n) \ used
  <1>1. Rounds(h) = 0 .. n + 1 /\ h.freep # NULL /\ n \in Nat
    BY HeapFacts DEF HeapOk
  <1>2. {Chain(h, k) : k \in Rounds(h)} = RingOf(h, n, used)
    <2>1. ASSUME NEW a \in RingOf(h, n, used) PROVE a \in {Chain(h, k) : k \in Rounds(h)}
      <3>1. PICK k \in 1 .. n + 1 : Chain(h, k) = a
        BY RoundPassesAll
      <3>2. QED  BY <1>1, <3>1
    <2>2. ASSUME NEW k \in Rounds(h) PROVE Chain(h, k) \in RingOf(h, n, used)
      BY <1>1, RoundPassesAll
    <2>3. QED  BY <2>1, <2>2
  <1>3. h.base \notin Carved(n)
    BY Places DEF HeapOk
  <1>4. QED  BY <1>1, <1>2, <1>3 DEF FreeBlocks, RingOf

\* new is f with one value changed.
Changed(new, f, D, V, a, v) ==
  new \in [D -> V] /\ new[a] = v /\ \A b \in D : b # a => new[b] = f[b]

\* Putting a value changes one place.
LEMMA PutInside ==
  ASSUME NEW D, NEW V, NEW f \in [D -> V], NEW a \in D, NEW v \in V
  PROVE  Changed(Put(f, a, v), f, D, V, a, v)
  BY DEF Put, Changed

\* A record with a field set is the record of its other fields and the new one.
LEMMA SetNext ==
  ASSUME NEW header, header \in [next : Nat, size : Nat], NEW next
  PROVE  [header EXCEPT !.next = next] = [next |-> next, size |-> header.size]
  OBVIOUS

\* A heap with other headers and another freep.
Relinked(h, headers, freep) ==
  [headers |-> headers, base |-> h.base, freep |-> freep,
   next_index |-> h.next_index, avail_mem |-> h.avail_mem]

LEMMA RelinkedIs ==
  ASSUME NEW h, NEW n, NEW used, HeapOk(h, n, used), NEW headers, NEW freep
  PROVE  [h EXCEPT !.headers = headers, !.freep = freep] = Relinked(h, headers, freep)
  <1>1. h = [headers |-> h.headers, base |-> h.base, freep |-> h.freep,
             next_index |-> h.next_index, avail_mem |-> h.avail_mem]
    BY DEF HeapOk, HeapsOf
  <1>2. PICK mid : mid = [h EXCEPT !.headers = headers]
    OBVIOUS
  <1>3. mid = [headers |-> headers, base |-> h.base, freep |-> h.freep,
               next_index |-> h.next_index, avail_mem |-> h.avail_mem]
    BY <1>1, <1>2
  <1>4. [mid EXCEPT !.freep = freep] = Relinked(h, headers, freep)
    BY <1>3 DEF Relinked
  <1>5. [h EXCEPT !.headers = headers, !.freep = freep] = [mid EXCEPT !.freep = freep]
    BY <1>2, Zenon
  <1>6. QED  BY <1>4, <1>5

\* tj_free stops at a block of the list behind which the freed one belongs.
LEMMA PlaceFound ==
  ASSUME NEW h, NEW n, NEW used, HeapOk(h, n, used), NEW bp \in Nat,
         bp \notin RingOf(h, n, used)
  PROVE  PlaceOf(h, bp) \in RingOf(h, n, used) /\ Goes(h, PlaceOf(h, bp), bp)
  <1> DEFINE R == RingOf(h, n, used)
             S == {k \in Rounds(h) : Goes(h, Chain(h, k), bp)}
  <1>1. Rounds(h) = 0 .. n + 1 /\ n \in Nat /\ R \in SUBSET Nat /\ R # {} /\ Top \in Nat
        /\ \A a \in R : a <= Top
    BY HeapFacts, HeapConstants DEF HeapOk
  <1>2. PICK p \in R : \A q \in R : After(R, p, q) =>
           \/ p < bp /\ bp < q
           \/ p >= q /\ (p < bp \/ bp < q)
    <2>1. PICK top \in Nat : \A a \in R : a <= top
      BY <1>1
    <2>2. R \in SUBSET Nat /\ R # {} /\ bp \notin R
      BY <1>1
    <2> HIDE DEF R
    <2>3. QED  BY <2>1, <2>2, PlaceIs
  <1>3. h.headers[p].next \in R /\ After(R, p, h.headers[p].next)
    BY <1>2 DEF HeapOk, After
  <1>4. Goes(h, p, bp)
    BY <1>2, <1>3 DEF Goes
  <1>5. PICK k \in 1 .. n + 1 : Chain(h, k) = p
    BY RoundPassesAll
  <1>6. S \in SUBSET Nat /\ S # {}
    BY <1>1, <1>4, <1>5
  <1>7. First(S) \in S
    BY <1>6, FirstOf
  <1>8. PlaceOf(h, bp) = Chain(h, First(S))
    BY DEF PlaceOf
  <1> HIDE DEF S
  <1>9. First(S) \in Nat /\ Goes(h, Chain(h, First(S)), bp)
    BY <1>6, <1>7 DEF S
  <1>10. QED  BY <1>8, <1>9, RoundPassesAll

\* What tj_free does with a block of the heap that is taken: no neighbor joins it.
LEMMA Freed ==
  ASSUME NEW h, NEW n, NEW used, HeapOk(h, n, used), NEW bp \in used
  PROVE  \E p \in RingOf(h, n, used) :
           /\ Goes(h, p, bp)
           /\ tj_free(h, bp + HeaderSize) =
                Relinked(h, Put(Put(h.headers, bp, [next |-> h.headers[p].next, size |-> NodeSize]),
                                p, [next |-> bp, size |-> h.headers[p].size]), p)
  <1> DEFINE R == RingOf(h, n, used)
             p == PlaceOf(h, bp)
             upper == h.headers[p].next
  <1>1. bp \in Carved(n) /\ bp \in Nat /\ bp \notin R /\ n \in Nat /\ n * Block <= HEAP_SIZE /\ h.base \in Bases
    BY Places DEF HeapOk, RingOf
  <1>2. (bp + HeaderSize) - HeaderSize = bp
    BY <1>1, BlockIs
  <1>3. p \in R /\ Goes(h, p, bp)
    BY <1>1, PlaceFound
  <1>4. upper \in R
    BY <1>3 DEF HeapOk, After
  <1>5. h.headers[bp].size = NodeSize /\ Beyond(bp, NodeSize) # upper
    BY <1>1, <1>4, Places DEF HeapOk, RingOf
  <1>6. Beyond(p, h.headers[p].size) # bp
    <2>1. CASE p = h.base
      BY <2>1, <1>1, Places DEF HeapOk
    <2>2. CASE p \in Carved(n)
      BY <2>2, <1>1, Places DEF HeapOk
    <2>3. QED  BY <1>3, <2>1, <2>2 DEF RingOf
  <1>7. [h.headers[p] EXCEPT !.next = bp] = [next |-> bp, size |-> h.headers[p].size]
    <2>1. h.headers[p] \in [next : Nat, size : Nat]
      <3>1. p \in Carved(n) \cup {h.base}
        BY <1>3 DEF RingOf
      <3>2. h.headers \in [Carved(n) \cup {h.base} -> [next : Nat, size : Nat]]
        BY HeapFacts
      <3> HIDE DEF p
      <3>3. QED  BY <3>1, <3>2
    <2> HIDE DEF p
    <2>2. QED  BY <2>1, SetNext
  <1> HIDE DEF p
  <1>8. PICK headers : headers = Put(Put(h.headers, bp, [next |-> upper, size |-> NodeSize]), p,
                                     [next |-> bp, size |-> h.headers[p].size])
    OBVIOUS
  <1>9. tj_free(h, bp + HeaderSize) = [h EXCEPT !.headers = headers, !.freep = p]
    BY <1>2, <1>5, <1>6, <1>7, <1>8, Zenon DEF tj_free, p
  <1>10. tj_free(h, bp + HeaderSize) = Relinked(h, headers, p)
    BY <1>9, RelinkedIs, Zenon
  <1>11. QED  BY <1>3, <1>8, <1>10

\* A heap stays one when a block is freed, and the block is.
LEMMA FreeOk ==
  ASSUME NEW h, NEW n, NEW used, HeapOk(h, n, used), NEW bp \in used
  PROVE  /\ HeapOk(tj_free(h, bp + HeaderSize), n, used \ {bp})
         /\ tj_free(h, bp + HeaderSize).base = h.base
  <1> DEFINE R == RingOf(h, n, used)
             new == tj_free(h, bp + HeaderSize)
             Q == RingOf(new, n, used \ {bp})
             D == Carved(n) \cup {h.base}
             Hdr == [next : Nat, size : Nat]
  <1>1. PICK p \in R :
          /\ Goes(h, p, bp)
          /\ new = Relinked(h, Put(Put(h.headers, bp, [next |-> h.headers[p].next, size |-> NodeSize]),
                                   p, [next |-> bp, size |-> h.headers[p].size]), p)
    BY Freed
  <1>2. PICK q \in R : q = h.headers[p].next /\ After(R, p, q)
    BY DEF HeapOk, After
  <1>3. /\ bp \in Carved(n) /\ bp \in Nat /\ bp \notin R /\ n \in Nat /\ n * Block <= HEAP_SIZE
        /\ h.base \in Bases /\ bp # h.base /\ p # bp /\ p \in D /\ bp \in D
    BY Places DEF HeapOk, RingOf
  <1>4. h.headers \in [D -> Hdr] /\ p \in Nat /\ q \in Nat /\ R \in SUBSET Nat
    BY HeapFacts
  <1> DEFINE low == [next |-> bp, size |-> h.headers[p].size]
             high == [next |-> q, size |-> NodeSize]
             one == Put(h.headers, bp, high)
             two == Put(one, p, low)
  <1>5. low \in Hdr /\ high \in Hdr
    BY <1>3, <1>4, BlockIs
  <1>6. /\ new = Relinked(h, two, p) /\ new.headers = two /\ new.freep = p /\ new.base = h.base
        /\ two \in [D -> Hdr] => new \in HeapsOf(n, h.base)
    <2>1. new = Relinked(h, two, p)
      BY <1>1, <1>2
    <2>2. p \in D /\ D = Carved(n) \cup {h.base}
      BY <1>3
    <2>3. h.next_index = HeapStart + n * Block /\ h.avail_mem = HEAP_SIZE - n * Block
      BY DEF HeapOk, HeapsOf
    <2> HIDE DEF new, two, R, Q
    <2>4. QED  BY <2>1, <2>2, <2>3 DEF HeapsOf, Relinked
  <1>7. two \in [D -> Hdr] /\ two[p] = low /\ two[bp] = high
        /\ \A a \in D : a \notin {p, bp} => two[a] = h.headers[a]
    <2>3. h.headers \in [D -> Hdr] /\ bp \in D /\ p \in D /\ p # bp
      BY <1>3, <1>4
    <2> HIDE DEF low, high, Hdr, D, R, new, Q
    <2>1. Changed(one, h.headers, D, Hdr, bp, high)
      BY <2>3, <1>5, PutInside
    <2>2. one \in [D -> Hdr]
      BY <2>1 DEF Changed
    <2> HIDE DEF one
    <2>4. Changed(two, one, D, Hdr, p, low)
      BY <2>2, <2>3, <1>5, PutInside
    <2>5. QED  BY <2>1, <2>3, <2>4 DEF Changed
  <1>8. Q = R \cup {bp}
    BY <1>3, <1>6 DEF RingOf
  <1>9. /\ After(Q, p, bp) /\ After(Q, bp, q)
        /\ \A a, b \in R : a # p /\ After(R, a, b) => After(Q, a, b)
    <2>1. \/ p < bp /\ bp < q
          \/ p >= q /\ (p < bp \/ bp < q)
      BY <1>1, <1>2 DEF Goes
    <2> HIDE DEF R, Q
    <2>2. R \in SUBSET Int /\ bp \in Int
      BY <1>3, <1>4
    <2>3. QED  BY <1>2, <1>3, <1>8, <2>1, <2>2, Joined
  <1> HIDE DEF low, high, one, two, new
  <1>10. \A a \in Q : After(Q, a, new.headers[a].next)
    <2> SUFFICES ASSUME NEW a \in Q PROVE After(Q, a, two[a].next)
      BY <1>6
    <2>1. CASE a = p
      BY <2>1, <1>7, <1>9 DEF low
    <2>2. CASE a = bp
      BY <2>2, <1>7, <1>9 DEF high
    <2>3. CASE a \in R /\ a # p /\ a # bp
      <3>1. a \in D
        BY <2>3 DEF RingOf
      <3>2. two[a] = h.headers[a]
        BY <2>3, <3>1, <1>7
      <3>3. After(R, a, h.headers[a].next) /\ h.headers[a].next \in R
        BY <2>3 DEF HeapOk, After
      <3>4. QED  BY <2>3, <3>2, <3>3, <1>9
    <2>4. QED  BY <2>1, <2>2, <2>3, <1>8
  <1>11. new.headers[h.base].size = 0
    <2>1. CASE h.base = p
      BY <2>1, <1>6, <1>7 DEF HeapOk, low
    <2>2. CASE h.base # p
      BY <2>2, <1>3, <1>6, <1>7 DEF HeapOk
    <2>3. QED  BY <2>1, <2>2
  <1>12. \A a \in Carved(n) : new.headers[a].size = NodeSize
    <2> SUFFICES ASSUME NEW a \in Carved(n) PROVE two[a].size = NodeSize
      BY <1>6
    <2>1. CASE a = p
      BY <2>1, <1>7 DEF HeapOk, low
    <2>2. CASE a = bp
      BY <2>2, <1>7 DEF high
    <2>3. CASE a # p /\ a # bp
      BY <2>3, <1>7 DEF HeapOk
    <2>4. QED  BY <2>1, <2>2, <2>3
  <1>13. new \in HeapsOf(n, h.base) /\ new.base = h.base
    BY <1>6, <1>7
  <1>14. new.freep \in Q /\ used \ {bp} \in SUBSET Carved(n)
    BY <1>6, <1>8 DEF HeapOk
  <1>15. HeapOk(new, n, used \ {bp})
    BY <1>3, <1>10, <1>11, <1>12, <1>13, <1>14 DEF HeapOk
  <1>16. QED  BY <1>13, <1>15 DEF new

\* Take with a block of the size wanted: it leaves the list.
LEMMA BlockTaken ==
  ASSUME NEW h, NEW n, NEW used, HeapOk(h, n, used), NEW prev \in RingOf(h, n, used),
         NEW q \in Carved(n) \ used, h.headers[prev].next = q
  PROVE  Take(h, prev, q, NodeSize) =
           [heap |-> Relinked(h, [h.headers EXCEPT ![prev] = [next |-> h.headers[q].next,
                                                              size |-> h.headers[prev].size]],
                              prev),
            mem |-> q + HeaderSize]
  <1>1. h.headers[q].size = NodeSize
    BY DEF HeapOk
  <1>2. h.headers[prev] \in [next : Nat, size : Nat]
    <2>1. prev \in Carved(n) \cup {h.base}
      BY DEF RingOf
    <2>2. h.headers \in [Carved(n) \cup {h.base} -> [next : Nat, size : Nat]]
      BY HeapFacts
    <2>3. QED  BY <2>1, <2>2
  <1>3. PICK header : header = h.headers[prev]
    OBVIOUS
  <1>4. [header EXCEPT !.next = h.headers[q].next]
        = [next |-> h.headers[q].next, size |-> h.headers[prev].size]
    BY <1>2, <1>3, SetNext
  <1>5. PICK headers : headers = [h.headers EXCEPT ![prev] = [next |-> h.headers[q].next,
                                                              size |-> h.headers[prev].size]]
    OBVIOUS
  <1>6. [h.headers EXCEPT ![prev].next = h.headers[q].next] = headers
    BY <1>3, <1>4, <1>5, Zenon
  <1>7. [h EXCEPT !.headers[prev].next = h.headers[q].next, !.freep = prev]
        = [h EXCEPT !.headers = headers, !.freep = prev]
    BY <1>6, Zenon
  <1>8. Take(h, prev, q, NodeSize)
        = [heap |-> [h EXCEPT !.headers[prev].next = h.headers[q].next, !.freep = prev],
           mem |-> q + HeaderSize]
    BY <1>1, Zenon DEF Take
  <1>9. [h EXCEPT !.headers = headers, !.freep = prev] = Relinked(h, headers, prev)
    BY RelinkedIs, Zenon
  <1>10. QED  BY <1>5, <1>7, <1>8, <1>9, Zenon

\* A heap stays one when a block is taken, and the block is.
LEMMA TakeOk ==
  ASSUME NEW h, NEW n, NEW used, HeapOk(h, n, used), NEW prev \in RingOf(h, n, used),
         NEW q \in Carved(n) \ used, h.headers[prev].next = q
  PROVE  /\ Take(h, prev, q, NodeSize).mem = q + HeaderSize
         /\ HeapOk(Take(h, prev, q, NodeSize).heap, n, used \cup {q})
         /\ Take(h, prev, q, NodeSize).heap.base = h.base
  <1> DEFINE R == RingOf(h, n, used)
             D == Carved(n) \cup {h.base}
             Hdr == [next : Nat, size : Nat]
             changed == [h.headers EXCEPT ![prev] = [next |-> h.headers[q].next,
                                                     size |-> h.headers[prev].size]]
             new == Relinked(h, changed, prev)
             Q == RingOf(new, n, used \cup {q})
  <1>1. Take(h, prev, q, NodeSize) = [heap |-> new, mem |-> q + HeaderSize]
    BY BlockTaken
  <1>2. PICK r \in R : r = h.headers[q].next /\ After(R, q, r)
    <2>1. q \in R
      BY DEF RingOf
    <2>2. QED  BY <2>1 DEF HeapOk, After
  <1>3. After(R, prev, q) /\ q \in R /\ h.base \in R /\ h.base # q /\ R \subseteq D
    <2>1. h.base \notin Carved(n)
      BY Places DEF HeapOk
    <2>2. QED  BY <2>1 DEF HeapOk, RingOf
  <1>4. h.headers \in [D -> Hdr] /\ R \in SUBSET Nat
    BY HeapFacts
  <1>5. changed \in [D -> Hdr] /\ changed[prev].next = r /\ changed[prev].size = h.headers[prev].size
        /\ \A a \in D : a # prev => changed[a] = h.headers[a]
    <2>1. prev \in D /\ q \in D
      BY <1>3
    <2>2. h.headers[prev] \in Hdr /\ r \in Nat
      BY <1>2, <1>4, <2>1
    <2>3. [next |-> r, size |-> h.headers[prev].size] \in Hdr
      BY <2>2
    <2>4. QED  BY <1>2, <1>4, <2>1, <2>3
  <1>6. new.headers = changed /\ new.freep = prev /\ new.base = h.base /\ new \in HeapsOf(n, h.base)
    <2>1. h.next_index = HeapStart + n * Block /\ h.avail_mem = HEAP_SIZE - n * Block
      BY DEF HeapOk, HeapsOf
    <2>2. prev \in D /\ changed \in [D -> Hdr]
      BY <1>3, <1>5
    <2> HIDE DEF changed
    <2>3. QED  BY <2>1, <2>2 DEF HeapsOf, Relinked
  <1>7. Q = R \ {q}
    BY <1>3, <1>6 DEF RingOf
  <1>8. /\ prev # q /\ After(Q, prev, r)
        /\ \A a, b \in R : a \notin {prev, q} /\ After(R, a, b) => After(Q, a, b)
    <2>1. R \in SUBSET Int /\ prev \in R
      BY <1>4
    <2>2. PICK other \in R : other # q
      BY <1>3
    <2> HIDE DEF R, Q
    <2>3. After(R \ {q}, prev, r) /\ prev # q
          /\ \A a, b \in R : a \notin {prev, q} /\ After(R, a, b) => After(R \ {q}, a, b)
      <3>1. q \in R /\ r \in R /\ After(R, prev, q) /\ After(R, q, r)
        BY <1>2, <1>3
      <3>2. Unjoins(R, prev, q, r)
        BY <2>1, <2>2, <3>1, Unjoined
      <3>3. QED  BY <3>2 DEF Stays, Unjoins
    <2>4. QED  BY <1>7, <2>3
  <1> HIDE DEF new, changed
  <1>9. \A a \in Q : After(Q, a, new.headers[a].next)
    <2> SUFFICES ASSUME NEW a \in Q PROVE After(Q, a, changed[a].next)
      BY <1>6
    <2>1. CASE a = prev
      BY <2>1, <1>5, <1>8
    <2>2. CASE a # prev
      <3>1. a \in R /\ a # q /\ a \in D
        BY <1>3, <1>7
      <3>2. After(R, a, h.headers[a].next) /\ h.headers[a].next \in R
        BY <3>1 DEF HeapOk, After
      <3>3. QED  BY <2>2, <3>1, <3>2, <1>5, <1>8
    <2>3. QED  BY <2>1, <2>2
  <1>10. \A a \in D : changed[a].size = h.headers[a].size
    BY <1>5
  <1>11. new.headers[h.base].size = 0 /\ \A a \in Carved(n) : new.headers[a].size = NodeSize
    BY <1>6, <1>10 DEF HeapOk
  <1>12. new.freep \in Q
    BY <1>6, <1>7, <1>8
  <1>13. HeapOk(new, n, used \cup {q})
    BY <1>6, <1>9, <1>11, <1>12 DEF HeapOk
  <1>14. QED  BY <1>1, <1>6, <1>13

\* A round finds a block of a node's size just if one is free, and takes it.
LEMMA TakeFirstOk ==
  ASSUME NEW h, NEW n, NEW used, HeapOk(h, n, used)
  PROVE  /\ Fits(h, NodeSize) = {} => used = Carved(n)
         /\ Fits(h, NodeSize) # {} =>
              \E q \in Carved(n) \ used :
                /\ TakeFirst(h, NodeSize).mem = q + HeaderSize
                /\ HeapOk(TakeFirst(h, NodeSize).heap, n, used \cup {q})
                /\ TakeFirst(h, NodeSize).heap.base = h.base
  <1> DEFINE R == RingOf(h, n, used)
             K == Fits(h, NodeSize)
  <1>1. n \in Nat /\ Rounds(h) = 0 .. n + 1
    BY HeapFacts DEF HeapOk
  <1>2. ASSUME NEW q \in Carved(n), q \notin used PROVE K # {}
    <2>1. PICK k \in 1 .. n + 1 : Chain(h, k) = q
      <3>1. q \in R
        BY <1>2 DEF RingOf
      <3>2. QED  BY <3>1, RoundPassesAll
    <2>2. h.headers[q].size = NodeSize /\ NodeSize >= NodeSize
      BY BlockIs DEF HeapOk
    <2>3. k \in Rounds(h) \ {0}
      BY <1>1
    <2>4. QED  BY <2>1, <2>2, <2>3 DEF Fits
  <1>3. ASSUME K # {}
        PROVE  \E q \in Carved(n) \ used :
                 /\ TakeFirst(h, NodeSize).mem = q + HeaderSize
                 /\ HeapOk(TakeFirst(h, NodeSize).heap, n, used \cup {q})
                 /\ TakeFirst(h, NodeSize).heap.base = h.base
    <2>1. K \in SUBSET Nat
      BY <1>1 DEF Fits
    <2>2. PICK k : k = First(K)
      OBVIOUS
    <2>3. k \in K
      BY <1>3, <2>1, <2>2, FirstOf
    <2>4. k \in Nat /\ k - 1 \in Nat /\ (k - 1) + 1 = k /\ h.headers[Chain(h, k)].size >= NodeSize
      BY <1>1, <2>3 DEF Fits
    <2>5. PICK prev, q : prev = Chain(h, k - 1) /\ q = Chain(h, k)
      OBVIOUS
    <2>6. prev \in R /\ q \in R /\ h.headers[prev].next = q
      BY <2>4, <2>5, RoundPassesAll
    <2>7. q # h.base
      BY <2>4, <2>5, BlockIs DEF HeapOk
    <2>8. q \in Carved(n) \ used
      BY <2>6, <2>7 DEF RingOf
    <2>9. TakeFirst(h, NodeSize) = Take(h, prev, q, NodeSize)
      BY <2>2, <2>5 DEF TakeFirst
    <2>10. QED  BY <2>6, <2>8, <2>9, TakeOk
  <1>4. used \in SUBSET Carved(n)
    BY DEF HeapOk
  <1>5. QED  BY <1>2, <1>3, <1>4

\* What getmoremem carves is a block of a node's size, which it frees.
LEMMA MoreOk ==
  ASSUME NEW h, NEW n, NEW used, HeapOk(h, n, used), (n + 1) * Block <= HEAP_SIZE
  PROVE  /\ HeapOk(getmoremem(h, Block), n + 1, used)
         /\ getmoremem(h, Block).base = h.base
  <1> DEFINE up == HeapStart + n * Block
             D == Carved(n) \cup {h.base}
             E == Carved(n + 1) \cup {h.base}
             Hdr == [next : Nat, size : Nat]
             header == [next |-> NULL, size |-> NodeSize]
             headers == Put(h.headers, up, header)
             new == [headers |-> headers, base |-> h.base, freep |-> h.freep,
                     next_index |-> up + Block, avail_mem |-> (HEAP_SIZE - n * Block) - Block]
             with == used \cup {up}
  <1>1. n \in Nat /\ n + 1 \in Nat /\ up \in Nat /\ h.base \in Bases
    <2>1. n \in Nat /\ h.base \in Bases
      BY DEF HeapOk
    <2>2. up = HeapStart + n * 20
      BY BlockIs
    <2>3. up \in Nat
      BY <2>1, <2>2, HeapConstants
    <2>4. QED  BY <2>1, <2>3
  <1>2. /\ Carved(n + 1) = Carved(n) \cup {up} /\ up \notin Carved(n)
        /\ h.base \notin Carved(n + 1) /\ up # h.base /\ used \subseteq Carved(n) /\ up \notin used
    BY <1>1, CarvedMore, Places DEF HeapOk
  <1>3. getmoremem(h, Block) = tj_free(new, up + HeaderSize)
    <2>1. h = [headers |-> h.headers, base |-> h.base, freep |-> h.freep,
               next_index |-> up, avail_mem |-> HEAP_SIZE - n * Block]
      BY HeapFacts
    <2>2. PICK y : y = up + Block
      OBVIOUS
    <2>3. PICK m : m = (HEAP_SIZE - n * Block) - Block
      OBVIOUS
    <2>4. PICK H : H = headers
      OBVIOUS
    <2>5. PICK h1 : h1 = [h EXCEPT !.next_index = y]
      OBVIOUS
    <2>6. h1 = [headers |-> h.headers, base |-> h.base, freep |-> h.freep,
                next_index |-> y, avail_mem |-> HEAP_SIZE - n * Block]
      BY <2>1, <2>5
    <2>7. PICK h2 : h2 = [h1 EXCEPT !.avail_mem = m]
      OBVIOUS
    <2>8. h2 = [headers |-> h.headers, base |-> h.base, freep |-> h.freep,
                next_index |-> y, avail_mem |-> m]
      BY <2>6, <2>7
    <2>9. [h2 EXCEPT !.headers = H] = new
      BY <2>8, <2>2, <2>3, <2>4
    <2>10. [h EXCEPT !.next_index = y, !.avail_mem = m, !.headers = H] = [h2 EXCEPT !.headers = H]
      BY <2>5, <2>7, Zenon
    <2>11. h.next_index = up /\ h.avail_mem = HEAP_SIZE - n * Block /\ Block - HeaderSize = NodeSize
      BY <2>1, BlockIs
    <2>12. getmoremem(h, Block)
           = tj_free([h EXCEPT !.next_index = h.next_index + Block,
                               !.avail_mem = h.avail_mem - Block,
                               !.headers = Put(h.headers, h.next_index,
                                               [next |-> NULL, size |-> Block - HeaderSize])],
                     h.next_index + HeaderSize)
      BY Zenon DEF getmoremem
    <2>13. [h EXCEPT !.next_index = h.next_index + Block,
                     !.avail_mem = h.avail_mem - Block,
                     !.headers = Put(h.headers, h.next_index,
                                     [next |-> NULL, size |-> Block - HeaderSize])]
           = [h EXCEPT !.next_index = y, !.avail_mem = m, !.headers = H]
      BY <2>2, <2>3, <2>4, <2>11, Zenon
    <2>14. QED  BY <2>9, <2>10, <2>11, <2>12, <2>13, Zenon
  <1>4. h.headers \in [D -> Hdr] /\ header \in Hdr
    BY HeapFacts, BlockIs
  <1>5. headers \in [E -> Hdr] /\ headers[up] = header /\ \A a \in D : headers[a] = h.headers[a]
    <2>1. E = D \cup {up} /\ up \notin D
      BY <1>2
    <2> HIDE DEF E, D, Hdr, header, up
    <2>2. QED  BY <1>4, <2>1 DEF Put
  <1>6. new \in HeapsOf(n + 1, h.base)
    <2>1. (n + 1) * Block = n * Block + Block
      BY <1>1, BlockIs
    <2>2. h.freep \in E /\ up + Block = HeapStart + (n + 1) * Block
          /\ (HEAP_SIZE - n * Block) - Block = HEAP_SIZE - (n + 1) * Block
      <3>1. h.freep \in E
        BY <1>2 DEF HeapOk, RingOf
      <3>2. n * Block \in Nat /\ Block \in Nat
        BY <1>1, BlockIs
      <3>3. QED  BY <2>1, <3>1, <3>2, HeapConstants
    <2> HIDE DEF headers, E
    <2>3. QED  BY <1>5, <2>2 DEF HeapsOf, E
  <1>7. RingOf(new, n + 1, with) = RingOf(h, n, used)
    BY <1>2 DEF RingOf
  <1> HIDE DEF new, headers
  <1>8. new.headers = headers /\ new.freep = h.freep /\ new.base = h.base
    BY DEF new
  <1>9. \A a \in RingOf(h, n, used) : After(RingOf(h, n, used), a, new.headers[a].next)
    BY <1>5, <1>8 DEF HeapOk, RingOf
  <1>10. new.headers[h.base].size = 0 /\ \A a \in Carved(n + 1) : new.headers[a].size = NodeSize
    BY <1>2, <1>5, <1>8 DEF HeapOk
  <1>11. HeapOk(new, n + 1, with)
    <2>1. with \in SUBSET Carved(n + 1) /\ new.freep \in RingOf(h, n, used)
      BY <1>2, <1>8 DEF HeapOk
    <2>2. QED  BY <2>1, <1>1, <1>6, <1>7, <1>8, <1>9, <1>10 DEF HeapOk
  <1>12. up \in with /\ with \ {up} = used
    BY <1>2
  <1> HIDE DEF with, up
  <1>13. HeapOk(tj_free(new, up + HeaderSize), n + 1, used)
         /\ tj_free(new, up + HeaderSize).base = new.base
    <2>1. PICK m : m = n + 1
      OBVIOUS
    <2>2. HeapOk(tj_free(new, up + HeaderSize), m, with \ {up})
          /\ tj_free(new, up + HeaderSize).base = new.base
      BY <1>11, <1>12, <2>1, FreeOk
    <2>3. QED  BY <1>12, <2>1, <2>2
  <1>14. QED  BY <1>3, <1>8, <1>13

\* The states of the allocator: before the first block, and after.
HeapIs(h, used) ==
  \/ h.base \in Bases /\ h = NoHeap(h.base) /\ used = {}
  \/ \E n \in Nat : HeapOk(h, n, used)

\* What tj_malloc starts from: the list that goes through base alone, the first time.
Ready(h) == IF h.freep # NULL THEN h
            ELSE [h EXCEPT !.freep = h.base, !.headers[h.base] = [next |-> h.base, size |-> 0]]

LEMMA ReadyOk ==
  ASSUME NEW h, NEW used, HeapIs(h, used)
  PROVE  Ready(h).base = h.base /\ \E n \in Nat : HeapOk(Ready(h), n, used)
  <1>1. CASE \E n \in Nat : HeapOk(h, n, used)
    <2>1. h.freep # NULL
      BY <1>1, HeapFacts
    <2>2. Ready(h) = h
      BY <2>1 DEF Ready
    <2>3. QED  BY <1>1, <2>2
  <1>2. CASE h.base \in Bases /\ h = NoHeap(h.base) /\ used = {}
    <2> DEFINE base == h.base
               header == [next |-> base, size |-> 0]
               headers == [b \in {base} |-> header]
               new == [headers |-> headers, base |-> base, freep |-> base,
                       next_index |-> HeapStart, avail_mem |-> HEAP_SIZE]
    <2>1. base \in Nat /\ base # NULL /\ 0 * Block = 0
      <3>1. 0 * Block <= HEAP_SIZE
        BY BlockIs, HeapConstants
      <3>2. QED  BY <1>2, <3>1, Places, BlockIs
    <2>2. h = [headers |-> [b \in {base} |-> [next |-> NULL, size |-> 0]], base |-> base,
               freep |-> NULL, next_index |-> HeapStart, avail_mem |-> HEAP_SIZE]
      BY <1>2 DEF NoHeap
    <2>3. Ready(h) = new
      <3>1. PICK H : H = headers
        OBVIOUS
      <3>2. [h.headers EXCEPT ![base] = header] = H
        BY <2>2, <3>1
      <3>3. PICK mid : mid = [h EXCEPT !.freep = base]
        OBVIOUS
      <3>4. mid = [headers |-> [b \in {base} |-> [next |-> NULL, size |-> 0]], base |-> base,
                   freep |-> base, next_index |-> HeapStart, avail_mem |-> HEAP_SIZE]
        BY <2>2, <3>3
      <3>5. [mid EXCEPT !.headers = H] = new
        <4> HIDE DEF headers
        <4>1. QED  BY <3>1, <3>4
      <3>6. mid.headers = h.headers
        BY <2>2, <3>4
      <3>7. [h EXCEPT !.freep = base, !.headers[base] = header] = [mid EXCEPT !.headers = H]
        <4>1. [h EXCEPT !.freep = base, !.headers[base] = header]
              = [mid EXCEPT !.headers = [mid.headers EXCEPT ![base] = header]]
          BY <3>3, Zenon
        <4>2. QED  BY <3>2, <3>6, <4>1, Zenon
      <3>8. h.freep = NULL
        BY <2>2
      <3>9. QED  BY <3>5, <3>7, <3>8, Zenon DEF Ready
    <2>4. Carved(0) = {}
      BY DEF Carved
    <2>5. new.headers = headers /\ new.base = base /\ new.freep = base
      OBVIOUS
    <2>6. RingOf(new, 0, {}) = {base}
      BY <2>4, <2>5 DEF RingOf
    <2>7. header \in [next : Nat, size : Nat] /\ headers \in [Carved(0) \cup {base} -> [next : Nat, size : Nat]]
      BY <2>1, <2>4
    <2>8. new \in HeapsOf(0, base)
      <3>1. HeapStart + 0 * Block = HeapStart /\ HEAP_SIZE - 0 * Block = HEAP_SIZE
        BY <2>1, HeapConstants
      <3> HIDE DEF headers, base
      <3>2. QED  BY <2>7, <3>1 DEF HeapsOf
    <2>9. After({base}, base, base)
      BY <2>1 DEF After
    <2>10. HeapOk(new, 0, {})
      <3>1. headers[base] = header
        OBVIOUS
      <3>2. 0 \in Nat /\ 0 * Block <= HEAP_SIZE
        BY <2>1, HeapConstants
      <3> HIDE DEF new
      <3>3. new.base \in Bases /\ new \in HeapsOf(0, new.base)
        BY <1>2, <2>5, <2>8
      <3>4. new.freep \in RingOf(new, 0, {}) /\ new.headers[new.base].size = 0
        BY <2>5, <2>6, <3>1
      <3>5. \A a \in Carved(0) : new.headers[a].size = NodeSize
        BY <2>4
      <3>6. \A a \in RingOf(new, 0, {}) : After(RingOf(new, 0, {}), a, new.headers[a].next)
        <4>1. new.headers[base].next = base
          BY <2>5, <3>1
        <4> HIDE DEF base
        <4>2. QED  BY <2>6, <2>9, <4>1
      <3>7. {} \in SUBSET Carved(0)
        OBVIOUS
      <3> HIDE DEF base, headers, header
      <3>8. QED  BY <3>2, <3>3, <3>4, <3>5, <3>6, <3>7 DEF HeapOk
    <2>11. QED  BY <1>2, <2>3, <2>5, <2>10
  <1>3. QED  BY <1>1, <1>2 DEF HeapIs

\* A heap with room hands out a block that is not in use.
LEMMA MallocOk ==
  ASSUME NEW h, NEW used, HeapIs(h, used), IsFiniteSet(used), Cardinality(used) < MaxNodes
  PROVE  \E q \in Nat \ used :
           /\ tj_malloc(h, NodeSize).mem = q + HeaderSize
           /\ HeapIs(tj_malloc(h, NodeSize).heap, used \cup {q})
  <1>1. PICK n \in Nat : HeapOk(Ready(h), n, used)
    BY ReadyOk
  <1>2. PICK r : r = Ready(h)
    OBVIOUS
  <1>3. tj_malloc(h, NodeSize) = Search(r, NodeSize)
    <2>1. WordAligned(NodeSize) = NodeSize /\ ~(NodeSize > HEAP_SIZE)
      <3>1. 12 % 4 = 0 /\ ~(12 > HEAP_SIZE)
        BY HeapConstants
      <3>2. QED  BY <3>1, BlockIs DEF WordAligned
    <2>2. QED  BY <1>2, <2>1, Zenon DEF tj_malloc, Ready
  <1>4. NodeSize + HeaderSize = Block
    BY BlockIs
  <1>5. ASSUME NEW g, NEW m \in Nat, HeapOk(g, m, used), Fits(g, NodeSize) # {}
        PROVE  \E q \in Nat \ used :
                 /\ TakeFirst(g, NodeSize).mem = q + HeaderSize
                 /\ HeapIs(TakeFirst(g, NodeSize).heap, used \cup {q})
    <2>1. PICK q \in Carved(m) \ used :
            /\ TakeFirst(g, NodeSize).mem = q + HeaderSize
            /\ HeapOk(TakeFirst(g, NodeSize).heap, m, used \cup {q})
      BY <1>5, TakeFirstOk
    <2>2. q \in Nat
      BY <1>5, Places DEF HeapOk
    <2>3. QED  BY <2>1, <2>2 DEF HeapIs
  <1>6. CASE Fits(r, NodeSize) # {}
    <2>1. Search(r, NodeSize) = TakeFirst(r, NodeSize)
      BY <1>6, Zenon DEF Search
    <2>2. QED  BY <1>1, <1>2, <1>3, <1>5, <1>6, <2>1
  <1>7. CASE Fits(r, NodeSize) = {}
    <2>1. used = Carved(n)
      BY <1>1, <1>2, <1>7, TakeFirstOk
    <2>2. n + 1 <= MaxNodes
      BY <2>1, CarvedCount, HeapConstants
    <2>3. (n + 1) * Block <= HEAP_SIZE
      <3>1. (n + 1) * 20 <= MaxNodes * 20
        BY <2>2, HeapConstants
      <3>2. QED  BY <3>1, BlockIs, HeapConstants
    <2>4. ~(r.avail_mem < Block)
      <3>1. r.avail_mem = HEAP_SIZE - n * Block
        <4>1. HeapOk(r, n, used)
          BY <1>1, <1>2
        <4>2. QED  BY <4>1 DEF HeapOk, HeapsOf
      <3>2. QED  BY <2>3, <3>1, BlockIs, HeapConstants
    <2>5. Search(r, NodeSize) = TakeFirst(getmoremem(r, Block), NodeSize)
      BY <1>4, <1>7, <2>4, Zenon DEF Search
    <2>6. PICK g : g = getmoremem(r, Block)
      OBVIOUS
    <2>7. PICK m \in Nat : m = n + 1
      OBVIOUS
    <2>8. HeapOk(g, m, used)
      BY <1>1, <1>2, <2>3, <2>6, <2>7, MoreOk
    <2>9. used # Carved(m)
      BY <2>1, <2>7, CarvedMore
    <2>10. Fits(g, NodeSize) # {}
      BY <2>8, <2>9, TakeFirstOk
    <2>11. QED  BY <1>3, <1>5, <2>5, <2>6, <2>8, <2>10
  <1>8. QED  BY <1>6, <1>7

(* The list. *)

\* s is the nodes of the list that starts at head, m of them, in its order; and
\* the list is in the order of the priorities.
IsList(at, head, m, s) ==
  /\ s \in [0 .. m - 1 -> DOMAIN at]
  /\ \A k, l \in 0 .. m - 1 : s[k] = s[l] => k = l
  /\ \A a \in DOMAIN at : \E k \in 0 .. m - 1 : s[k] = a
  /\ head = IF m = 0 THEN NULL ELSE s[0]
  /\ \A k \in 0 .. m - 1 : at[s[k]].next = IF k = m - 1 THEN NULL ELSE s[k + 1]
  /\ \A k, l \in 0 .. m - 1 : k <= l => at[s[k]].priority <= at[s[l]].priority

\* What the nodes are.
NodesOk(at) ==
  /\ DOMAIN at \in SUBSET {a \in Nat : a >= HeaderSize}
  /\ at \in [DOMAIN at -> [priority : Priorities, next : Nat]]

LEMMA Listed ==
  ASSUME NEW at, NEW head, NEW m \in Nat, NEW s, IsList(at, head, m, s), NEW k \in 0 .. m - 1
  PROVE  s[k] \in DOMAIN at
  BY DEF IsList

LEMMA NodeIs ==
  ASSUME NEW at, NodesOk(at), NEW a \in DOMAIN at
  PROVE  a \in Nat /\ a # NULL /\ at[a].priority \in Nat
  <1>1. a \in Nat /\ a >= 8
    BY BlockIs DEF NodesOk
  <1>2. at[a] \in [priority : Priorities, next : Nat]
    BY DEF NodesOk
  <1>3. at[a].priority \in Priorities
    BY <1>2
  <1>4. a # NULL
    BY <1>1, BlockIs
  <1>5. Priorities \subseteq Nat
    BY HeapConstants
  <1>6. QED  BY <1>1, <1>3, <1>4, <1>5

LEMMA ListCount ==
  ASSUME NEW at, NEW head, NEW m \in Nat, NEW s, IsList(at, head, m, s)
  PROVE  IsFiniteSet(DOMAIN at) /\ Cardinality(DOMAIN at) = m
  <1>1. s \in Bijection(0 .. m - 1, DOMAIN at)
    BY DEF IsList, Bijection, Injection, Surjection, IsInjective
  <1>2. IsFiniteSet(0 .. m - 1) /\ Cardinality(0 .. m - 1) = m
    BY FS_Interval
  <1>3. ExistsBijection(0 .. m - 1, DOMAIN at)
    BY <1>1 DEF ExistsBijection
  <1>4. QED  BY <1>2, <1>3, FS_Bijection

\* The walk along the list passes its nodes in turn and stays at its end.
LEMMA LinkedIs ==
  ASSUME NEW m \in 0 .. MaxNodes, NEW s, IsList(nodes, pq, m, s), NodesOk(nodes)
  PROVE  \A k \in 0 .. MaxNodes : Linked(pq)[k] = IF k < m THEN s[k] ELSE NULL
  <1> DEFINE f == [k \in 0 .. MaxNodes |-> IF k < m THEN s[k] ELSE NULL]
             Is(c) == c = [k \in 0 .. MaxNodes |->
                             IF k = 0 THEN pq ELSE IF c[k - 1] = NULL THEN NULL ELSE nodes[c[k - 1]].next]
             c == Linked(pq)
  <1> USE HeapConstants, BlockIs
  <1>1. Is(f)
    <2>1. ASSUME NEW k \in 0 .. MaxNodes
          PROVE  f[k] = IF k = 0 THEN pq ELSE IF f[k - 1] = NULL THEN NULL ELSE nodes[f[k - 1]].next
      <3>1. CASE k = 0
        BY <3>1 DEF IsList
      <3>2. CASE k # 0 /\ k - 1 < m
        <4>1. k - 1 \in 0 .. m - 1 /\ k - 1 \in 0 .. MaxNodes /\ (k - 1) + 1 = k
          BY <3>2
        <4>2. f[k - 1] = s[k - 1] /\ s[k - 1] \in DOMAIN nodes
          BY <3>2, <4>1 DEF IsList
        <4>3. f[k - 1] # NULL
          BY <4>2, NodeIs
        <4>4. nodes[s[k - 1]].next = IF k - 1 = m - 1 THEN NULL ELSE s[k]
          <5>1. PICK j \in 0 .. m - 1 : j = k - 1 /\ j + 1 = k
            BY <4>1
          <5>2. nodes[s[j]].next = IF j = m - 1 THEN NULL ELSE s[j + 1]
            BY DEF IsList
          <5>3. QED  BY <5>1, <5>2
        <4>5. QED  BY <3>2, <4>2, <4>3, <4>4
      <3>3. CASE k # 0 /\ ~(k - 1 < m)
        <4>1. k - 1 \in 0 .. MaxNodes /\ ~(k < m)
          BY <3>3
        <4>2. QED  BY <3>3, <4>1
      <3>4. QED  BY <3>1, <3>2, <3>3
    <2>2. QED  BY <2>1
  <1>2. c = CHOOSE d : Is(d)
    BY DEF Linked
  <1>3. Is(c)
    <2> HIDE DEF Is, c, f
    <2>1. QED  BY <1>1, <1>2
  <1> HIDE DEF c, f
  <1>4. \A k \in 0 .. MaxNodes :
          c[k] = IF k = 0 THEN pq ELSE IF c[k - 1] = NULL THEN NULL ELSE nodes[c[k - 1]].next
    BY <1>3
  <1>5. \A k \in 0 .. MaxNodes :
          f[k] = IF k = 0 THEN pq ELSE IF f[k - 1] = NULL THEN NULL ELSE nodes[f[k - 1]].next
    BY <1>1
  <1>6. \A k \in 0 .. MaxNodes : c[k] = f[k]
    <2> DEFINE S == {k \in Nat : k <= MaxNodes => c[k] = f[k]}
    <2>1. 0 \in S
      BY <1>4, <1>5
    <2>2. ASSUME NEW k \in Nat, k \in S PROVE k + 1 \in S
      <3> SUFFICES ASSUME k + 1 <= MaxNodes PROVE c[k + 1] = f[k + 1]
        OBVIOUS
      <3>1. k + 1 \in 0 .. MaxNodes /\ (k + 1) - 1 = k /\ k + 1 # 0 /\ c[k] = f[k]
        BY <2>2
      <3>2. QED  BY <3>1, <1>4, <1>5
    <2> HIDE DEF S
    <2>3. Nat \subseteq S
      BY <2>1, <2>2, Induct
    <2>4. QED  BY <2>3 DEF S
  <1>7. QED  BY <1>6 DEF c, f

\* The nodes of one priority.
Of(at, p) == {a \in DOMAIN at : at[a].priority = p}

\* A node of priority p joins the list before its y-th, or at its end.
Joins(at, head, m, s, new, y, p, after, start) ==
  /\ DOMAIN after = DOMAIN at \cup {new}
  /\ after[new] = [priority |-> p, next |-> IF y = m THEN NULL ELSE s[y]]
  /\ \A a \in DOMAIN at : after[a].priority = at[a].priority
  /\ \A k \in 0 .. m - 1 : after[s[k]].next = IF k = y - 1 THEN new ELSE at[s[k]].next
  /\ start = IF y = 0 THEN new ELSE head
  /\ \A k \in 0 .. m - 1 : IF k < y THEN at[s[k]].priority <= p ELSE p <= at[s[k]].priority

LEMMA Inserted ==
  ASSUME NEW at, NEW head, NEW m \in Nat, NEW s, IsList(at, head, m, s), NodesOk(at),
         NEW new \in Nat, new \notin DOMAIN at, NEW y \in 0 .. m, NEW p \in Priorities,
         NEW after, NEW start, Joins(at, head, m, s, new, y, p, after, start)
  PROVE  \E t : IsList(after, start, m + 1, t)
  <1> DEFINE t == [k \in 0 .. m |-> IF k < y THEN s[k] ELSE IF k = y THEN new ELSE s[k - 1]]
  <1> USE HeapConstants DEF Joins
  <1>1. ASSUME NEW k \in 0 .. m
        PROVE  /\ k < y => k \in 0 .. m - 1 /\ t[k] = s[k] /\ t[k] \in DOMAIN at
               /\ k = y => t[k] = new
               /\ k > y => k - 1 \in 0 .. m - 1 /\ t[k] = s[k - 1] /\ t[k] \in DOMAIN at
    BY DEF IsList
  <1>2. (m + 1) - 1 = m /\ m + 1 # 0
    OBVIOUS
  <1>3. \A a \in DOMAIN at : at[a].priority \in Nat /\ after[a].priority = at[a].priority
    BY DEF NodesOk
  <1>4. after[new].priority = p /\ after[new].next = IF y = m THEN NULL ELSE s[y]
    OBVIOUS
  <1>5. t \in [0 .. m -> DOMAIN after]
    <2>1. ASSUME NEW k \in 0 .. m PROVE t[k] \in DOMAIN after
      <3>1. k < y \/ k = y \/ k > y
        OBVIOUS
      <3> HIDE DEF t
      <3>2. QED  BY <3>1, <1>1
    <2>2. QED  BY <2>1
  <1> HIDE DEF t
  <1>6. ASSUME NEW k \in 0 .. m, NEW l \in 0 .. m, t[k] = t[l] PROVE k = l
    <2>1. CASE k = y \/ l = y
      BY <2>1, <1>1, <1>6
    <2>2. CASE k < y /\ l < y
      BY <2>2, <1>1, <1>6 DEF IsList
    <2>3. CASE k > y /\ l > y
      <3>1. s[k - 1] = s[l - 1] /\ k - 1 \in 0 .. m - 1 /\ l - 1 \in 0 .. m - 1
        BY <2>3, <1>1, <1>6
      <3>2. k - 1 = l - 1
        BY <3>1 DEF IsList
      <3>3. QED  BY <3>2
    <2>4. CASE k < y /\ l > y
      <3>1. s[k] = s[l - 1] /\ k \in 0 .. m - 1 /\ l - 1 \in 0 .. m - 1
        BY <2>4, <1>1, <1>6
      <3>2. k = l - 1
        BY <3>1 DEF IsList
      <3>3. QED  BY <3>2, <2>4
    <2>5. CASE k > y /\ l < y
      <3>1. s[l] = s[k - 1] /\ l \in 0 .. m - 1 /\ k - 1 \in 0 .. m - 1
        BY <2>5, <1>1, <1>6
      <3>2. l = k - 1
        BY <3>1 DEF IsList
      <3>3. QED  BY <3>2, <2>5
    <2>6. QED  BY <2>1, <2>2, <2>3, <2>4, <2>5
  <1>7. ASSUME NEW a \in DOMAIN after PROVE \E k \in 0 .. m : t[k] = a
    <2>1. CASE a = new
      BY <2>1, <1>1
    <2>2. CASE a # new
      <3>1. PICK k \in 0 .. m - 1 : s[k] = a
        BY <2>2 DEF IsList
      <3>2. CASE k < y
        <4>1. t[k] = a /\ k \in 0 .. m
          BY <3>1, <3>2, <1>1
        <4>2. QED  BY <4>1
      <3>3. CASE ~(k < y)
        <4>1. k + 1 \in 0 .. m /\ k + 1 > y /\ (k + 1) - 1 = k
          BY <3>3
        <4>2. t[k + 1] = a
          BY <3>1, <4>1, <1>1
        <4>3. QED  BY <4>1, <4>2
      <3>4. QED  BY <3>2, <3>3
    <2>3. QED  BY <2>1, <2>2
  <1>8. start = t[0]
    <2>1. CASE y = 0
      BY <2>1, <1>1
    <2>2. CASE y # 0
      <3>1. m # 0 /\ 0 < y /\ 0 \in 0 .. m
        BY <2>2
      <3>2. QED  BY <2>2, <3>1, <1>1 DEF IsList
    <2>3. QED  BY <2>1, <2>2
  <1>9. ASSUME NEW k \in 0 .. m PROVE after[t[k]].next = IF k = m THEN NULL ELSE t[k + 1]
    <2>1. CASE k < y - 1
      <3>1. k + 1 < y /\ k + 1 \in 0 .. m /\ k \in 0 .. m - 1 /\ k # m /\ k # m - 1 /\ k < y /\ k # y - 1
        BY <2>1
      <3>2. after[s[k]].next = at[s[k]].next /\ at[s[k]].next = s[k + 1]
        BY <3>1 DEF IsList
      <3>3. t[k] = s[k] /\ t[k + 1] = s[k + 1]
        BY <3>1, <1>1
      <3>4. QED  BY <3>1, <3>2, <3>3
    <2>2. CASE k = y - 1
      <3>1. k + 1 = y /\ k + 1 \in 0 .. m /\ k \in 0 .. m - 1 /\ k # m /\ k < y
        BY <2>2
      <3>2. after[s[k]].next = new
        BY <2>2, <3>1
      <3>3. t[k] = s[k] /\ t[k + 1] = new
        BY <3>1, <1>1
      <3>4. QED  BY <3>1, <3>2, <3>3
    <2>3. CASE k = y
      <3>1. t[k] = new
        BY <2>3, <1>1
      <3>2. CASE y = m
        BY <2>3, <3>1, <3>2, <1>4
      <3>3. CASE y # m
        <4>1. k + 1 \in 0 .. m /\ k + 1 > y /\ (k + 1) - 1 = y
          BY <2>3, <3>3
        <4>2. t[k + 1] = s[y]
          BY <4>1, <1>1
        <4>3. QED  BY <2>3, <3>1, <3>3, <4>2, <1>4
      <3>4. QED  BY <3>2, <3>3
    <2>4. CASE k > y
      <3>1. k - 1 \in 0 .. m - 1 /\ k - 1 # y - 1 /\ t[k] = s[k - 1]
        BY <2>4, <1>1
      <3>2. after[s[k - 1]].next = at[s[k - 1]].next
        BY <3>1
      <3>3. at[s[k - 1]].next = IF k - 1 = m - 1 THEN NULL ELSE s[(k - 1) + 1]
        BY <3>1 DEF IsList
      <3>4. CASE k = m
        BY <3>1, <3>2, <3>3, <3>4
      <3>5. CASE k # m
        <4>1. k + 1 \in 0 .. m /\ k + 1 > y /\ (k + 1) - 1 = k /\ (k - 1) + 1 = k /\ k - 1 # m - 1
          BY <2>4, <3>5
        <4>2. t[k + 1] = s[k]
          BY <4>1, <1>1
        <4>3. at[s[k - 1]].next = s[k]
          BY <3>3, <4>1
        <4>4. after[t[k]].next = s[k]
          BY <3>1, <3>2, <4>3
        <4>5. (IF k = m THEN NULL ELSE t[k + 1]) = t[k + 1]
          BY <3>5, Zenon
        <4>6. QED  BY <4>2, <4>4, <4>5, Zenon
      <3>6. QED  BY <3>4, <3>5
    <2>5. QED  BY <2>1, <2>2, <2>3, <2>4
  <1>10. ASSUME NEW k \in 0 .. m, NEW l \in 0 .. m, k <= l
         PROVE  after[t[k]].priority <= after[t[l]].priority
    <2>1. ASSUME NEW j \in 0 .. m PROVE after[t[j]].priority \in Nat
      <3>1. CASE j = y
        BY <1>1, <1>4, <3>1
      <3>2. CASE j # y
        <4>1. t[j] \in DOMAIN at
          BY <1>1, <3>2
        <4>2. QED  BY <1>3, <4>1
      <3>3. QED  BY <3>1, <3>2
    <2>2. CASE k = l
      BY <2>1, <2>2
    <2>3. CASE l < y
      <3>1. k < y /\ k \in 0 .. m - 1 /\ l \in 0 .. m - 1
        BY <2>3, <1>10
      <3>2. t[k] = s[k] /\ t[l] = s[l] /\ t[k] \in DOMAIN at /\ t[l] \in DOMAIN at
        BY <2>3, <3>1, <1>1
      <3>3. at[s[k]].priority <= at[s[l]].priority
        BY <3>1, <1>10 DEF IsList
      <3>4. QED  BY <3>2, <3>3, <1>3
    <2>4. CASE k < y /\ l = y
      <3>1. k \in 0 .. m - 1 /\ t[k] = s[k] /\ t[k] \in DOMAIN at /\ t[l] = new
        BY <2>4, <1>1
      <3>2. at[s[k]].priority <= p
        BY <2>4, <3>1
      <3>3. QED  BY <3>1, <3>2, <1>3, <1>4
    <2>5. CASE k < y /\ l > y
      <3>1. /\ k \in 0 .. m - 1 /\ t[k] = s[k] /\ t[k] \in DOMAIN at
            /\ l - 1 \in 0 .. m - 1 /\ t[l] = s[l - 1] /\ t[l] \in DOMAIN at /\ k <= l - 1
        BY <2>5, <1>1
      <3>2. at[s[k]].priority <= at[s[l - 1]].priority
        BY <3>1 DEF IsList
      <3>3. QED  BY <3>1, <3>2, <1>3
    <2>6. CASE k = y /\ l > y
      <3>1. l - 1 \in 0 .. m - 1 /\ t[l] = s[l - 1] /\ t[l] \in DOMAIN at /\ ~(l - 1 < y) /\ t[k] = new
        BY <2>6, <1>1
      <3>2. p <= at[s[l - 1]].priority
        BY <3>1
      <3>3. QED  BY <3>1, <3>2, <1>3, <1>4
    <2>7. CASE k > y /\ l > y
      <3>1. /\ k - 1 \in 0 .. m - 1 /\ t[k] = s[k - 1] /\ t[k] \in DOMAIN at
            /\ l - 1 \in 0 .. m - 1 /\ t[l] = s[l - 1] /\ t[l] \in DOMAIN at /\ k - 1 <= l - 1
        BY <2>7, <1>1, <1>10
      <3>2. at[s[k - 1]].priority <= at[s[l - 1]].priority
        BY <3>1 DEF IsList
      <3>3. QED  BY <3>1, <3>2, <1>3
    <2>8. QED  BY <2>2, <2>3, <2>4, <2>5, <2>6, <2>7, <1>10
  <1>11. IsList(after, start, m + 1, t)
    BY <1>2, <1>5, <1>6, <1>7, <1>8, <1>9, <1>10 DEF IsList
  <1>12. QED  BY <1>11

\* The first node leaves the list.
LEMMA Removed ==
  ASSUME NEW at, NEW head, NEW m \in Nat, NEW s, IsList(at, head, m, s), NodesOk(at),
         head # NULL
  PROVE  /\ m # 0 /\ head = s[0] /\ head \in DOMAIN at
         /\ \A k \in 0 .. m - 1 : at[head].priority <= at[s[k]].priority
         /\ \E t : IsList([a \in DOMAIN at \ {head} |-> at[a]], at[head].next, m - 1, t)
  <1> DEFINE t == [k \in 0 .. (m - 1) - 1 |-> s[k + 1]]
             after == [a \in DOMAIN at \ {head} |-> at[a]]
  <1>1. m # 0 /\ head = s[0] /\ 0 \in 0 .. m - 1 /\ head \in DOMAIN at
    BY DEF IsList
  <1>2. \A k \in 0 .. m - 1 : at[head].priority <= at[s[k]].priority
    BY <1>1 DEF IsList
  <1>3. ASSUME NEW k \in 0 .. (m - 1) - 1
        PROVE  /\ k + 1 \in 0 .. m - 1 /\ k \in 0 .. m - 1 /\ t[k] = s[k + 1] /\ s[k + 1] # head
               /\ t[k] \in DOMAIN after /\ after[t[k]] = at[s[k + 1]]
    <2>1. k + 1 \in 0 .. m - 1 /\ k \in 0 .. m - 1 /\ k + 1 # 0 /\ t[k] = s[k + 1]
      OBVIOUS
    <2>2. s[k + 1] # s[0] /\ s[k + 1] \in DOMAIN at
      BY <1>1, <2>1 DEF IsList
    <2>3. QED  BY <1>1, <2>1, <2>2
  <1>4. t \in [0 .. (m - 1) - 1 -> DOMAIN after]
    <2>1. \A k \in 0 .. (m - 1) - 1 : t[k] \in DOMAIN after
      BY <1>3
    <2> HIDE DEF after
    <2>2. QED  BY <2>1
  <1>5. DOMAIN after = DOMAIN at \ {head}
    OBVIOUS
  <1> HIDE DEF t, after
  <1>6. ASSUME NEW k \in 0 .. (m - 1) - 1, NEW l \in 0 .. (m - 1) - 1, t[k] = t[l] PROVE k = l
    <2>1. s[k + 1] = s[l + 1] /\ k + 1 \in 0 .. m - 1 /\ l + 1 \in 0 .. m - 1
      BY <1>3, <1>6
    <2>2. k + 1 = l + 1
      BY <2>1 DEF IsList
    <2>3. QED  BY <2>2
  <1>7. ASSUME NEW a \in DOMAIN after PROVE \E k \in 0 .. (m - 1) - 1 : t[k] = a
    <2>1. PICK k \in 0 .. m - 1 : s[k] = a
      BY <1>5 DEF IsList
    <2>2. k # 0
      BY <1>1, <1>5, <2>1
    <2>3. k - 1 \in 0 .. (m - 1) - 1 /\ (k - 1) + 1 = k
      BY <2>2
    <2>4. t[k - 1] = a
      BY <1>3, <2>1, <2>3
    <2>5. QED  BY <2>3, <2>4
  <1>8. at[head].next = IF m - 1 = 0 THEN NULL ELSE t[0]
    <2>1. at[s[0]].next = IF 0 = m - 1 THEN NULL ELSE s[0 + 1]
      BY <1>1 DEF IsList
    <2>2. CASE m - 1 = 0
      BY <1>1, <2>1, <2>2
    <2>3. CASE m - 1 # 0
      <3>1. 0 \in 0 .. (m - 1) - 1 /\ 0 # m - 1
        BY <1>1, <2>3
      <3>2. t[0] = s[0 + 1]
        BY <3>1, <1>3
      <3>3. QED  BY <1>1, <2>1, <2>3, <3>1, <3>2
    <2>4. QED  BY <2>2, <2>3
  <1>9. ASSUME NEW k \in 0 .. (m - 1) - 1
        PROVE  after[t[k]].next = IF k = (m - 1) - 1 THEN NULL ELSE t[k + 1]
    <2>1. k + 1 \in 0 .. m - 1 /\ after[t[k]] = at[s[k + 1]]
      BY <1>3
    <2>2. at[s[k + 1]].next = IF k + 1 = m - 1 THEN NULL ELSE s[(k + 1) + 1]
      BY <2>1 DEF IsList
    <2>3. CASE k = (m - 1) - 1
      <3>1. k + 1 = m - 1
        BY <2>3
      <3>2. QED  BY <2>1, <2>2, <2>3, <3>1
    <2>4. CASE k # (m - 1) - 1
      <3>1. k + 1 # m - 1 /\ k + 1 \in 0 .. (m - 1) - 1
        BY <2>4
      <3>2. t[k + 1] = s[(k + 1) + 1]
        BY <3>1, <1>3
      <3>3. QED  BY <2>1, <2>2, <2>4, <3>1, <3>2
    <2>5. QED  BY <2>3, <2>4
  <1>10. ASSUME NEW k \in 0 .. (m - 1) - 1, NEW l \in 0 .. (m - 1) - 1, k <= l
         PROVE  after[t[k]].priority <= after[t[l]].priority
    <2>1. k + 1 \in 0 .. m - 1 /\ l + 1 \in 0 .. m - 1 /\ k + 1 <= l + 1
      BY <1>3, <1>10
    <2>2. at[s[k + 1]].priority <= at[s[l + 1]].priority
      BY <2>1 DEF IsList
    <2>3. QED  BY <1>3, <2>2
  <1>11. IsList(after, at[head].next, m - 1, t)
    BY <1>4, <1>6, <1>7, <1>8, <1>9, <1>10 DEF IsList
  <1>12. QED  BY <1>1, <1>2, <1>11 DEF after

\* push goes behind the last node that precedes the new one, unless the first does not.
LEMMA BeforeIs ==
  ASSUME NEW m \in 0 .. MaxNodes, NEW s, IsList(nodes, pq, m, s), NodesOk(nodes), pq # NULL,
         NEW p \in Priorities, ~(nodes[pq].priority > p)
  PROVE  \E y \in 1 .. m :
           /\ Before(p) = s[y - 1]
           /\ \A k \in 0 .. m - 1 : IF k < y THEN nodes[s[k]].priority <= p
                                    ELSE p <= nodes[s[k]].priority
  <1> DEFINE at == Linked(pq)
             stops(k) == LET next == nodes[at[k]].next
                         IN  next = NULL \/ nodes[next].priority >= p
             S == {k \in 0 .. MaxNodes : at[k] # NULL /\ stops(k)}
  <1> USE HeapConstants
  <1>1. m # 0 /\ pq = s[0] /\ m - 1 \in 0 .. m - 1 /\ m \in Nat
    <2>1. m # 0 /\ pq = s[0]
      BY DEF IsList
    <2>2. QED  BY <2>1
  <1>2. ASSUME NEW k \in 0 .. MaxNodes
        PROVE  /\ k < m => at[k] = s[k] /\ at[k] # NULL /\ k \in 0 .. m - 1
               /\ ~(k < m) => at[k] = NULL
    <2>1. at[k] = IF k < m THEN s[k] ELSE NULL
      BY LinkedIs
    <2> HIDE DEF at
    <2>2. CASE k < m
      <3>1. k \in 0 .. m - 1
        BY <1>1, <2>2
      <3>2. s[k] # NULL
        BY <3>1, <1>1, Listed, NodeIs
      <3>3. QED  BY <2>1, <2>2, <3>1, <3>2
    <2>3. CASE ~(k < m)
      BY <2>1, <2>3
    <2>4. QED  BY <2>2, <2>3
  <1>3. ASSUME NEW k \in 0 .. m - 1
        PROVE  /\ nodes[s[k]].priority \in Nat /\ k \in 0 .. MaxNodes
               /\ k = m - 1 => nodes[s[k]].next = NULL
               /\ k # m - 1 => k + 1 \in 0 .. m - 1 /\ nodes[s[k]].next = s[k + 1] /\ s[k + 1] # NULL
    <2>1. s[k] \in DOMAIN nodes
      BY DEF IsList
    <2>2. nodes[s[k]].priority \in Nat /\ k \in 0 .. MaxNodes
      <3>1. nodes[s[k]].priority \in Nat
        BY <2>1, NodeIs
      <3>2. QED  BY <1>1, <3>1
    <2>3. nodes[s[k]].next = IF k = m - 1 THEN NULL ELSE s[k + 1]
      BY DEF IsList
    <2>4. k # m - 1 => k + 1 \in 0 .. m - 1
      OBVIOUS
    <2>5. k # m - 1 => s[k + 1] \in DOMAIN nodes
      BY <2>4 DEF IsList
    <2>6. k # m - 1 => s[k + 1] # NULL
      BY <2>5, NodeIs
    <2>7. QED  BY <2>2, <2>3, <2>4, <2>6
  <1> HIDE DEF at
  <1>4. m - 1 \in S
    <2>1. m - 1 \in 0 .. MaxNodes /\ m - 1 < m
      BY <1>1
    <2>2. QED  BY <2>1, <1>1, <1>2, <1>3
  <1>5. S \in SUBSET Nat
    OBVIOUS
  <1>6. PICK j : j = First(S)
    OBVIOUS
  <1> HIDE DEF S
  <1>7. j \in S /\ \A k \in S : j <= k
    BY <1>4, <1>5, <1>6, FirstOf
  <1> USE DEF S
  <1>8. j \in 0 .. m - 1 /\ at[j] = s[j] /\ stops(j)
    <2>1. j \in 0 .. MaxNodes /\ at[j] # NULL /\ stops(j)
      BY <1>7
    <2>2. QED  BY <2>1, <1>2
  <1>9. Before(p) = s[j]
    BY <1>6, <1>8 DEF Before, at
  <1>10. ASSUME NEW k \in 0 .. m - 1, k <= j PROVE nodes[s[k]].priority <= p
    <2>1. CASE k = 0
      BY <2>1, <1>1, <1>3
    <2>2. CASE k # 0
      <3>1. k - 1 \in 0 .. m - 1 /\ (k - 1) + 1 = k /\ k - 1 < j /\ k - 1 # m - 1 /\ k - 1 < m
        BY <2>2, <1>8, <1>10
      <3>2. k - 1 \notin S
        BY <1>7, <3>1
      <3>3. k - 1 \in 0 .. MaxNodes /\ nodes[s[k - 1]].next = s[k] /\ s[k] # NULL
        BY <3>1, <1>3
      <3>4. at[k - 1] = s[k - 1] /\ at[k - 1] # NULL
        BY <3>1, <3>3, <1>2
      <3>5. ~(nodes[s[k]].priority >= p)
        BY <3>2, <3>3, <3>4
      <3>6. QED  BY <3>5, <1>3
    <2>3. QED  BY <2>1, <2>2
  <1>11. ASSUME NEW k \in 0 .. m - 1, ~(k <= j) PROVE p <= nodes[s[k]].priority
    <2>1. j # m - 1 /\ j + 1 \in 0 .. m - 1 /\ j + 1 <= k
      BY <1>8, <1>11
    <2>2. nodes[s[j]].next = s[j + 1] /\ s[j + 1] # NULL
      BY <1>3, <1>8, <2>1
    <2>3. nodes[s[j + 1]].priority >= p
      BY <1>8, <2>2
    <2>4. nodes[s[j + 1]].priority <= nodes[s[k]].priority
      BY <2>1 DEF IsList
    <2>5. nodes[s[j + 1]].priority \in Nat /\ nodes[s[k]].priority \in Nat /\ p \in Nat
      BY <1>3, <2>1
    <2>6. QED  BY <2>3, <2>4, <2>5
  <1>12. PICK y \in 1 .. m : y = j + 1
    BY <1>8
  <1>13. y - 1 = j /\ \A k \in 0 .. m - 1 : k < y <=> k <= j
    BY <1>8, <1>12
  <1>14. QED  BY <1>9, <1>10, <1>11, <1>12, <1>13

(* The queue. *)

\* The blocks the nodes are in.
UsedBy(at) == {a - HeaderSize : a \in DOMAIN at}

\* The heap is one in which the blocks of the nodes are taken, the nodes are in one
\* list, and held counts them.
QueueInv ==
  /\ HeapIs(heap, UsedBy(nodes))
  /\ NodesOk(nodes)
  /\ \E m \in 0 .. MaxNodes : \E s : IsList(nodes, pq, m, s)
  /\ held \in [Priorities -> Nat]
  /\ \A p \in Priorities : held[p] = Cardinality(Of(nodes, p))

LEMMA UsedCount ==
  ASSUME NEW at, NodesOk(at), IsFiniteSet(DOMAIN at)
  PROVE  IsFiniteSet(UsedBy(at)) /\ Cardinality(UsedBy(at)) = Cardinality(DOMAIN at)
  <1> DEFINE f == [a \in DOMAIN at |-> a - HeaderSize]
  <1>1. \A a \in DOMAIN at : a \in Nat
    BY DEF NodesOk
  <1>2. f \in Bijection(DOMAIN at, UsedBy(at))
    <2>1. f \in [DOMAIN at -> UsedBy(at)] /\ \A u \in UsedBy(at) : \E a \in DOMAIN at : f[a] = u
      BY DEF UsedBy
    <2>2. ASSUME NEW a \in DOMAIN at, NEW b \in DOMAIN at, f[a] = f[b] PROVE a = b
      BY <1>1, <2>2, BlockIs
    <2>3. QED  BY <2>1, <2>2 DEF Bijection, Injection, Surjection, IsInjective
  <1>3. ExistsBijection(DOMAIN at, UsedBy(at))
    BY <1>2 DEF ExistsBijection
  <1>4. QED  BY <1>3, FS_Bijection

\* What newNode gets.
LEMMA NewNodeIs ==
  ASSUME QueueInv, Cardinality(DOMAIN nodes) < MaxNodes
  PROVE  LET got == tj_malloc(heap, NodeSize)
         IN  /\ got.mem \in Nat \ DOMAIN nodes /\ got.mem >= HeaderSize
             /\ \A at : DOMAIN at = DOMAIN nodes \cup {got.mem} => HeapIs(got.heap, UsedBy(at))
  <1> DEFINE got == tj_malloc(heap, NodeSize)
  <1>1. IsFiniteSet(DOMAIN nodes)
    BY ListCount DEF QueueInv
  <1>2. IsFiniteSet(UsedBy(nodes)) /\ Cardinality(UsedBy(nodes)) < MaxNodes
    BY <1>1, UsedCount DEF QueueInv
  <1>3. PICK q \in Nat \ UsedBy(nodes) :
          got.mem = q + HeaderSize /\ HeapIs(got.heap, UsedBy(nodes) \cup {q})
    BY <1>2, MallocOk DEF QueueInv
  <1> HIDE DEF got
  <1>4. got.mem \in Nat /\ got.mem >= HeaderSize /\ got.mem - HeaderSize = q
    BY <1>3, BlockIs
  <1>5. got.mem \notin DOMAIN nodes
    BY <1>4 DEF UsedBy
  <1>6. ASSUME NEW at, DOMAIN at = DOMAIN nodes \cup {got.mem}
        PROVE  UsedBy(at) = UsedBy(nodes) \cup {q}
    BY <1>4, <1>6 DEF UsedBy
  <1>7. QED  BY <1>3, <1>4, <1>5, <1>6 DEF got

\* A step that puts a new node into the list s, before its y-th; before is what
\* becomes of the nodes there are.
Adds(p, m, s, y, next, before) ==
  /\ IsList(nodes, pq, m, s) /\ Cardinality(DOMAIN nodes) < MaxNodes
  /\ next \in Nat /\ next = IF y = m THEN NULL ELSE s[y]
  /\ before \in [DOMAIN nodes -> [priority : Priorities, next : Nat]]
  /\ \A a \in DOMAIN nodes : before[a].priority = nodes[a].priority
  /\ \A k \in 0 .. m - 1 : IF k < y THEN nodes[s[k]].priority <= p
                            ELSE p <= nodes[s[k]].priority
  /\ LET got == tj_malloc(heap, NodeSize)
     IN  /\ heap' = got.heap
         /\ nodes' = NewNode(before, p, next, got.mem)
         /\ pq' = IF y = 0 THEN got.mem ELSE pq
         /\ \A k \in 0 .. m - 1 :
              before[s[k]].next = IF k = y - 1 THEN got.mem ELSE nodes[s[k]].next
  /\ held' = [held EXCEPT ![p] = @ + 1]

LEMMA AddedInv ==
  ASSUME QueueInv, NEW p \in Priorities, NEW m \in 0 .. MaxNodes, NEW s, NEW y \in 0 .. m,
         NEW next, NEW before, Adds(p, m, s, y, next, before)
  PROVE  QueueInv'
  <1> USE DEF Adds
  <1>1. PICK new : new = tj_malloc(heap, NodeSize).mem
    OBVIOUS
  <1>2. /\ new \in Nat \ DOMAIN nodes /\ new >= HeaderSize
        /\ \A at : DOMAIN at = DOMAIN nodes \cup {new} => HeapIs(heap', UsedBy(at))
    BY <1>1, NewNodeIs
  <1>3. nodes' = NewNode(before, p, next, new) /\ pq' = IF y = 0 THEN new ELSE pq
    BY <1>1
  <1>4. \A k \in 0 .. m - 1 : before[s[k]].next = IF k = y - 1 THEN new ELSE nodes[s[k]].next
    BY <1>1
  <1>5. /\ DOMAIN nodes' = DOMAIN nodes \cup {new}
        /\ nodes'[new] = [priority |-> p, next |-> next]
        /\ \A a \in DOMAIN nodes : nodes'[a] = before[a]
    BY <1>2, <1>3 DEF NewNode, Put
  <1>6. NodesOk(nodes) /\ held \in [Priorities -> Nat]
    BY DEF QueueInv
  <1>7. NodesOk(nodes')
    <2>1. [priority |-> p, next |-> next] \in [priority : Priorities, next : Nat]
      OBVIOUS
    <2>2. nodes' \in [DOMAIN nodes \cup {new} -> [priority : Priorities, next : Nat]]
      BY <1>3, <2>1 DEF NewNode, Put
    <2>3. QED  BY <1>2, <1>5, <1>6, <2>2 DEF NodesOk
  <1>8. HeapIs(heap', UsedBy(nodes'))
    BY <1>2, <1>5
  <1>9. IsFiniteSet(DOMAIN nodes) /\ Cardinality(DOMAIN nodes) = m /\ m \in Nat
    BY ListCount
  <1>10. m + 1 \in 0 .. MaxNodes
    BY <1>9, HeapConstants
  <1>11. \E t : IsList(nodes', pq', m + 1, t)
    <2>1. PICK after : after = nodes'
      OBVIOUS
    <2>2. PICK start : start = pq'
      OBVIOUS
    <2>3. /\ DOMAIN after = DOMAIN nodes \cup {new}
          /\ after[new] = [priority |-> p, next |-> IF y = m THEN NULL ELSE s[y]]
          /\ start = IF y = 0 THEN new ELSE pq
      BY <1>3, <1>5, <2>1, <2>2
    <2>4. \A a \in DOMAIN nodes : after[a].priority = nodes[a].priority
      BY <1>5, <2>1
    <2>5. \A k \in 0 .. m - 1 : after[s[k]].next = IF k = y - 1 THEN new ELSE nodes[s[k]].next
      <3>1. \A k \in 0 .. m - 1 : s[k] \in DOMAIN nodes
        BY DEF IsList
      <3>2. QED  BY <1>4, <1>5, <2>1, <3>1
    <2>6. Joins(nodes, pq, m, s, new, y, p, after, start)
      BY <2>3, <2>4, <2>5 DEF Joins
    <2>7. \E t : IsList(after, start, m + 1, t)
      BY <1>2, <1>6, <1>9, <2>6, Inserted
    <2>8. QED  BY <2>1, <2>2, <2>7
  <1>12. held' \in [Priorities -> Nat]
    BY <1>6
  <1>13. ASSUME NEW r \in Priorities PROVE held'[r] = Cardinality(Of(nodes', r))
    <2>1. \A a \in DOMAIN nodes : nodes'[a].priority = nodes[a].priority
      BY <1>5
    <2>2. held[r] = Cardinality(Of(nodes, r)) /\ IsFiniteSet(Of(nodes, r)) /\ held[r] \in Nat
      <3>1. Of(nodes, r) \in SUBSET DOMAIN nodes
        BY DEF Of
      <3>2. IsFiniteSet(Of(nodes, r))
        BY <1>9, <3>1, FS_Subset
      <3>3. QED  BY <1>6, <3>2 DEF QueueInv
    <2>3. CASE r = p
      <3>1. Of(nodes', r) = Of(nodes, r) \cup {new} /\ new \notin Of(nodes, r)
        BY <1>2, <1>5, <2>1, <2>3 DEF Of
      <3>2. held'[r] = held[r] + 1
        BY <1>6, <2>3
      <3>3. QED  BY <2>2, <3>1, <3>2, FS_AddElement
    <2>4. CASE r # p
      <3>1. Of(nodes', r) = Of(nodes, r)
        BY <1>2, <1>5, <2>1, <2>4 DEF Of
      <3>2. held'[r] = held[r]
        BY <1>6, <2>4
      <3>3. QED  BY <2>2, <3>1, <3>2
    <2>5. QED  BY <2>3, <2>4
  <1>14. QED  BY <1>7, <1>8, <1>10, <1>11, <1>12, <1>13 DEF QueueInv, Of

LEMMA QueueInitInv ==
  ASSUME QueueInit
  PROVE  QueueInv
  <1> USE HeapConstants, BlockIs DEF QueueInit
  <1>1. PICK base \in Bases : heap = NoHeap(base)
    OBVIOUS
  <1>2. heap.base = base
    BY <1>1 DEF NoHeap
  <1>3. DOMAIN nodes = {}
    OBVIOUS
  <1>4. HeapIs(heap, UsedBy(nodes))
    BY <1>1, <1>2, <1>3 DEF HeapIs, UsedBy
  <1>5. NodesOk(nodes)
    <2>1. nodes = [a \in {} |-> NULL] /\ DOMAIN nodes = {}
      OBVIOUS
    <2>2. nodes \in [DOMAIN nodes -> [priority : Priorities, next : Nat]]
      BY <2>1
    <2>3. QED  BY <1>3, <2>2 DEF NodesOk
  <1>6. IsList(nodes, pq, 0, nodes)
    <2>1. 0 .. 0 - 1 = {} /\ nodes \in [{} -> DOMAIN nodes]
      BY <1>3
    <2>2. QED  BY <1>3, <2>1 DEF IsList
  <1>7. ASSUME NEW p \in Priorities PROVE held[p] = Cardinality(Of(nodes, p))
    <2>1. Of(nodes, p) = {}
      BY <1>3 DEF Of
    <2>2. QED  BY <2>1, FS_EmptySet
  <1>8. held \in [Priorities -> Nat]
    OBVIOUS
  <1>9. QED  BY <1>4, <1>5, <1>6, <1>7, <1>8 DEF QueueInv

\* A list with a head has nodes, and the other way round.
LEMMA HeadOfList ==
  ASSUME QueueInv, NEW m \in 0 .. MaxNodes, NEW s, IsList(nodes, pq, m, s)
  PROVE  /\ pq = NULL <=> m = 0
         /\ pq # NULL => pq = s[0] /\ pq \in DOMAIN nodes
         /\ IsFiniteSet(DOMAIN nodes) /\ Cardinality(DOMAIN nodes) = m
         /\ nodes \in [DOMAIN nodes -> [priority : Priorities, next : Nat]]
         /\ \A a \in DOMAIN nodes : a \in Nat /\ a # NULL
         /\ \A k \in 0 .. m - 1 : s[k] \in DOMAIN nodes /\ nodes[s[k]].priority \in Nat
  <1> USE HeapConstants, BlockIs
  <1>1. nodes \in [DOMAIN nodes -> [priority : Priorities, next : Nat]]
        /\ \A a \in DOMAIN nodes : a \in Nat /\ a # NULL
    BY DEF QueueInv, NodesOk
  <1>2. m # 0 => 0 \in 0 .. m - 1 /\ pq = s[0] /\ s[0] \in DOMAIN nodes
    BY DEF IsList
  <1>3. m = 0 => pq = NULL
    BY DEF IsList
  <1>4. ASSUME NEW k \in 0 .. m - 1 PROVE s[k] \in DOMAIN nodes /\ nodes[s[k]].priority \in Nat
    <2>1. m \in Nat /\ NodesOk(nodes)
      BY DEF QueueInv
    <2>2. s[k] \in DOMAIN nodes
      BY <2>1, Listed
    <2>3. QED  BY <2>1, <2>2, NodeIs
  <1>5. IsFiniteSet(DOMAIN nodes) /\ Cardinality(DOMAIN nodes) = m
    <2>1. m \in Nat
      OBVIOUS
    <2>2. QED  BY <2>1, ListCount
  <1>6. pq = NULL <=> m = 0
    BY <1>1, <1>2, <1>3
  <1>7. QED  BY <1>1, <1>2, <1>4, <1>5, <1>6

LEMMA CreateInv ==
  ASSUME QueueInv, NEW p \in Priorities, Create(p)
  PROVE  QueueInv'
  <1>0. PICK m \in 0 .. MaxNodes : \E s : IsList(nodes, pq, m, s)
    BY DEF QueueInv
  <1>1. PICK s : IsList(nodes, pq, m, s)
    BY <1>0
  <1>2. m = 0 /\ pq = NULL /\ Cardinality(DOMAIN nodes) = 0
        /\ nodes \in [DOMAIN nodes -> [priority : Priorities, next : Nat]]
    BY <1>1, HeadOfList DEF Create
  <1>3. 0 \in 0 .. m /\ NULL \in Nat /\ NULL = IF 0 = m THEN NULL ELSE s[0]
    BY <1>2, BlockIs
  <1>4. 0 .. m - 1 = {} /\ 0 < MaxNodes
    BY <1>2, HeapConstants
  <1>5. LET got == tj_malloc(heap, NodeSize)
        IN  /\ heap' = got.heap
            /\ nodes' = NewNode(nodes, p, NULL, got.mem)
            /\ pq' = IF 0 = 0 THEN got.mem ELSE pq
    BY DEF Create
  <1>6. held' = [held EXCEPT ![p] = @ + 1]
    BY DEF Create
  <1>7. Adds(p, m, s, 0, NULL, nodes)
    BY <1>1, <1>2, <1>3, <1>4, <1>5, <1>6 DEF Adds
  <1>8. QED  BY <1>3, <1>7, AddedInv

LEMMA pushInv ==
  ASSUME QueueInv, NEW p \in Priorities, push(p)
  PROVE  QueueInv'
  <1>0. PICK m \in 0 .. MaxNodes : \E s : IsList(nodes, pq, m, s)
    BY DEF QueueInv
  <1>1. PICK s : IsList(nodes, pq, m, s)
    BY <1>0
  <1>2. /\ m # 0 /\ pq = s[0] /\ pq \in DOMAIN nodes /\ pq # NULL /\ Cardinality(DOMAIN nodes) < MaxNodes
        /\ nodes \in [DOMAIN nodes -> [priority : Priorities, next : Nat]] /\ pq \in Nat
        /\ NodesOk(nodes) /\ m \in Nat
        /\ \A k \in 0 .. m - 1 : s[k] \in DOMAIN nodes /\ nodes[s[k]].priority \in Nat
    BY <1>1, HeadOfList DEF push, QueueInv
  <1>3. held' = [held EXCEPT ![p] = @ + 1]
    BY DEF push
  <1>4. PICK new : new = tj_malloc(heap, NodeSize).mem
    OBVIOUS
  <1>5. p \in Nat
    BY HeapConstants
  <1>6. CASE nodes[pq].priority > p
    <2>1. heap' = tj_malloc(heap, NodeSize).heap /\ pq' = new /\ nodes' = NewNode(nodes, p, pq, new)
      BY <1>4, <1>6 DEF push
    <2>2. 0 \in 0 .. m /\ pq = IF 0 = m THEN NULL ELSE s[0]
      BY <1>2
    <2>3. \A k \in 0 .. m - 1 : nodes[s[k]].next = IF k = 0 - 1 THEN new ELSE nodes[s[k]].next
      OBVIOUS
    <2>4. \A k \in 0 .. m - 1 : IF k < 0 THEN nodes[s[k]].priority <= p ELSE p <= nodes[s[k]].priority
      <3> SUFFICES ASSUME NEW k \in 0 .. m - 1 PROVE p <= nodes[s[k]].priority
        OBVIOUS
      <3>1. 0 \in 0 .. m - 1 /\ 0 <= k
        OBVIOUS
      <3>2. nodes[s[0]].priority <= nodes[s[k]].priority
        BY <1>1, <3>1 DEF IsList
      <3>3. nodes[s[0]].priority \in Nat /\ nodes[s[k]].priority \in Nat /\ nodes[s[0]].priority > p
        BY <1>2, <1>6, <3>1
      <3>4. QED  BY <1>5, <3>2, <3>3
    <2>5. Adds(p, m, s, 0, pq, nodes)
      BY <1>1, <1>2, <1>3, <1>4, <2>1, <2>2, <2>3, <2>4 DEF Adds
    <2>6. QED  BY <2>2, <2>5, AddedInv
  <1>7. CASE ~(nodes[pq].priority > p)
    <2>1. PICK y \in 1 .. m :
            /\ Before(p) = s[y - 1]
            /\ \A k \in 0 .. m - 1 : IF k < y THEN nodes[s[k]].priority <= p
                                     ELSE p <= nodes[s[k]].priority
      BY <1>1, <1>2, <1>7, BeforeIs
    <2>2. PICK start : start = Before(p)
      OBVIOUS
    <2>3. y - 1 \in 0 .. m - 1 /\ y \in 0 .. m /\ (y - 1) + 1 = y
      BY <1>2
    <2>4. start = s[y - 1] /\ start \in DOMAIN nodes
      BY <1>2, <2>1, <2>2, <2>3
    <2>5. PICK next \in Nat : next = nodes[start].next
      BY <1>2, <2>4
    <2>6. next = IF y = m THEN NULL ELSE s[y]
      <3>1. nodes[s[y - 1]].next = IF y - 1 = m - 1 THEN NULL ELSE s[(y - 1) + 1]
        BY <1>1, <2>3 DEF IsList
      <3>2. y - 1 = m - 1 <=> y = m
        BY <2>3
      <3>3. QED  BY <2>3, <2>4, <2>5, <3>1, <3>2
    <2>7. PICK before : before = [nodes EXCEPT ![start].next = new]
      OBVIOUS
    <2>8. heap' = tj_malloc(heap, NodeSize).heap /\ pq' = pq /\ nodes' = NewNode(before, p, next, new)
      BY <1>4, <1>7, <2>2, <2>5, <2>7 DEF push
    <2>9. new \in Nat
      BY <1>2, <1>4, NewNodeIs
    <2>10. /\ before \in [DOMAIN nodes -> [priority : Priorities, next : Nat]]
           /\ \A a \in DOMAIN nodes :
                /\ before[a].priority = nodes[a].priority
                /\ before[a].next = IF a = start THEN new ELSE nodes[a].next
      <3>1. PICK node \in [priority : Priorities, next : Nat] : node = nodes[start]
        BY <1>2, <2>4
      <3>2. PICK linked : linked = [node EXCEPT !.next = new]
        OBVIOUS
      <3>3. linked = [priority |-> node.priority, next |-> new]
        BY <3>1, <3>2
      <3>4. before = [nodes EXCEPT ![start] = linked]
        BY <2>7, <3>1, <3>2, Zenon
      <3>5. linked \in [priority : Priorities, next : Nat] /\ linked.priority = node.priority /\ linked.next = new
        BY <2>9, <3>1, <3>3
      <3>6. QED  BY <1>2, <2>4, <3>1, <3>4, <3>5
    <2>11. \A k \in 0 .. m - 1 : before[s[k]].next = IF k = y - 1 THEN new ELSE nodes[s[k]].next
      <3> SUFFICES ASSUME NEW k \in 0 .. m - 1
                   PROVE  before[s[k]].next = IF k = y - 1 THEN new ELSE nodes[s[k]].next
        OBVIOUS
      <3>1. s[k] = s[y - 1] <=> k = y - 1
        BY <1>1, <2>3 DEF IsList
      <3>2. QED  BY <1>2, <2>4, <2>10, <3>1
    <2>12. pq' = IF y = 0 THEN new ELSE pq
      BY <2>8
    <2>13. y \in 0 .. m /\ Adds(p, m, s, y, next, before)
      BY <1>1, <1>2, <1>3, <1>4, <2>1, <2>3, <2>6, <2>8, <2>10, <2>11, <2>12 DEF Adds
    <2>14. QED  BY <2>13, AddedInv
  <1>8. QED  BY <1>6, <1>7

LEMMA popInv ==
  ASSUME QueueInv, pop
  PROVE  QueueInv'
  <1>0. PICK m \in 0 .. MaxNodes : \E s : IsList(nodes, pq, m, s)
    BY DEF QueueInv
  <1>1. PICK s : IsList(nodes, pq, m, s)
    BY <1>0
  <1>2. /\ m # 0 /\ pq = s[0] /\ pq \in DOMAIN nodes /\ pq # NULL /\ pq \in Nat /\ NodesOk(nodes)
        /\ IsFiniteSet(DOMAIN nodes) /\ m \in Nat
    BY <1>1, HeadOfList DEF pop, QueueInv
  <1>3. nodes' = [a \in DOMAIN nodes \ {pq} |-> nodes[a]] /\ pq' = nodes[pq].next
    BY DEF pop
  <1>4. NodesOk(nodes')
    BY <1>2, <1>3 DEF NodesOk
  <1>5. \A k \in 0 .. m - 1 : nodes[pq].priority <= nodes[s[k]].priority
    BY <1>1, <1>2, Removed
  <1>6. m - 1 \in 0 .. MaxNodes /\ \E t : IsList(nodes', pq', m - 1, t)
    <2>1. \E t : IsList([a \in DOMAIN nodes \ {pq} |-> nodes[a]], nodes[pq].next, m - 1, t)
      BY <1>1, <1>2, Removed
    <2>2. m - 1 \in 0 .. MaxNodes
      BY <1>2, HeapConstants
    <2>3. QED  BY <1>3, <2>1, <2>2
  <1>7. HeapIs(heap', UsedBy(nodes'))
    <2>1. PICK bp \in UsedBy(nodes) : bp = pq - HeaderSize
      BY <1>2 DEF UsedBy
    <2>2. PICK n \in Nat : HeapOk(heap, n, UsedBy(nodes))
      BY <2>1 DEF QueueInv, HeapIs
    <2>3. bp + HeaderSize = pq
      BY <1>2, <2>1, BlockIs
    <2>4. HeapOk(tj_free(heap, bp + HeaderSize), n, UsedBy(nodes) \ {bp})
      BY <2>2, FreeOk
    <2>5. HeapIs(heap', UsedBy(nodes) \ {bp})
      BY <2>3, <2>4 DEF pop, HeapIs
    <2>6. UsedBy(nodes') = UsedBy(nodes) \ {bp}
      <3>1. DOMAIN nodes' = DOMAIN nodes \ {pq}
        BY <1>3
      <3>2. \A a \in DOMAIN nodes : a \in Nat
        BY <1>2 DEF NodesOk
      <3>3. \A a \in DOMAIN nodes : a - HeaderSize = bp <=> a = pq
        BY <1>2, <2>1, <3>2, BlockIs
      <3>4. QED  BY <3>1, <3>3 DEF UsedBy
    <2>7. QED  BY <2>5, <2>6
  <1>8. PICK r \in Priorities : r = nodes[pq].priority
    BY <1>2 DEF NodesOk
  <1>9. \A p \in Priorities : /\ Of(nodes, p) \in SUBSET DOMAIN nodes /\ IsFiniteSet(Of(nodes, p))
                              /\ held[p] = Cardinality(Of(nodes, p)) /\ held[p] \in Nat
    <2> SUFFICES ASSUME NEW p \in Priorities
                 PROVE  /\ Of(nodes, p) \in SUBSET DOMAIN nodes /\ IsFiniteSet(Of(nodes, p))
                        /\ held[p] = Cardinality(Of(nodes, p)) /\ held[p] \in Nat
      OBVIOUS
    <2>1. Of(nodes, p) \in SUBSET DOMAIN nodes
      BY DEF Of
    <2>2. IsFiniteSet(Of(nodes, p))
      BY <1>2, <2>1, FS_Subset
    <2>3. QED  BY <2>1, <2>2 DEF QueueInv
  <1>10. First({p \in Priorities : held[p] > 0}) = r
    <2> DEFINE P == {p \in Priorities : held[p] > 0}
    <2>1. P \in SUBSET Nat
      BY HeapConstants
    <2>2. r \in P
      <3>1. pq \in Of(nodes, r)
        BY <1>2, <1>8 DEF Of
      <3>2. Cardinality(Of(nodes, r)) # 0
        BY <1>9, <3>1, FS_EmptySet
      <3>3. QED  BY <1>9, <3>2
    <2>3. ASSUME NEW p \in P PROVE r <= p
      <3>1. p \in Priorities /\ Of(nodes, p) # {}
        BY <1>9, FS_EmptySet
      <3>2. PICK a \in DOMAIN nodes : nodes[a].priority = p
        BY <3>1 DEF Of
      <3>3. PICK k \in 0 .. m - 1 : s[k] = a
        BY <1>1 DEF IsList
      <3>4. QED  BY <1>5, <1>8, <3>2, <3>3
    <2> HIDE DEF P
    <2>4. First(P) \in P /\ First(P) <= r
      BY <2>1, <2>2, FirstOf
    <2>5. r <= First(P) /\ First(P) \in Nat /\ r \in Nat
      BY <2>1, <2>2, <2>3, <2>4
    <2>6. QED  BY <2>4, <2>5 DEF P
  <1>11. held' = [held EXCEPT ![r] = @ - 1]
    BY <1>10 DEF pop
  <1>12. held \in [Priorities -> Nat]
    BY DEF QueueInv
  <1>13. ASSUME NEW p \in Priorities
         PROVE  held'[p] = Cardinality(Of(nodes', p)) /\ held'[p] \in Nat
    <2>1. CASE p = r
      <3>1. Of(nodes', p) = Of(nodes, p) \ {pq} /\ pq \in Of(nodes, p)
        BY <1>2, <1>3, <1>8, <2>1 DEF Of
      <3>2. held'[p] = held[p] - 1
        BY <1>11, <1>12, <2>1
      <3>3. IsFiniteSet(Of(nodes', p)) /\ Cardinality(Of(nodes', p)) = Cardinality(Of(nodes, p)) - 1
        BY <1>9, <3>1, FS_RemoveElement
      <3>4. Cardinality(Of(nodes', p)) \in Nat
        BY <3>3, FS_CardinalityType
      <3>5. QED  BY <1>9, <3>2, <3>3, <3>4
    <2>2. CASE p # r
      <3>1. Of(nodes', p) = Of(nodes, p)
        BY <1>2, <1>3, <1>8, <2>2 DEF Of
      <3>2. held'[p] = held[p]
        BY <1>11, <1>12, <2>2
      <3>3. QED  BY <1>9, <3>1, <3>2
    <2>3. QED  BY <2>1, <2>2
  <1>14. held' \in [Priorities -> Nat]
    BY <1>11, <1>12, <1>13
  <1>15. QED  BY <1>4, <1>6, <1>7, <1>13, <1>14 DEF QueueInv, Of

LEMMA QueueStep ==
  ASSUME QueueInv, [QueueNext]_queueVars
  PROVE  QueueInv'
  <1>1. CASE \E p \in Priorities : Create(p)
    BY <1>1, CreateInv
  <1>2. CASE \E p \in Priorities : push(p)
    BY <1>2, pushInv
  <1>3. CASE pop
    BY <1>3, popInv
  <1>4. CASE UNCHANGED queueVars
    BY <1>4 DEF QueueInv, queueVars, Of
  <1>5. QED  BY <1>1, <1>2, <1>3, <1>4 DEF QueueNext

\* The invariant holds: the free list is a ring of the blocks that are not nodes,
\* in the order of their addresses, and the nodes are one list in the order of
\* their priorities.
THEOREM QueueInvariant == QueueSpec => []QueueInv
  <1>1. QueueInit => QueueInv
    BY QueueInitInv
  <1>2. QueueInv /\ [QueueNext]_queueVars => QueueInv'
    BY QueueStep
  <1>3. QED  BY <1>1, <1>2, PTL DEF QueueSpec

\* No block of the heap is handed out twice and none is lost (tj_malloc.h), for
\* every size of the heap and every number of nodes.
THEOREM BlocksOwnedOnceHolds == QueueSpec => []BlocksOwnedOnce
  <1>1. QueueInv => BlocksOwnedOnce
    <2> SUFFICES ASSUME QueueInv PROVE BlocksOwnedOnce
      OBVIOUS
    <2> DEFINE used == UsedBy(nodes)
    <2>1. CASE heap.base \in Bases /\ heap = NoHeap(heap.base) /\ used = {}
      <3>1. heap.freep = NULL /\ heap.next_index = HeapStart
        BY <2>1 DEF NoHeap
      <3>2. (heap.next_index - HeapStart) \div (NodeSize + HeaderSize) = 0
        BY <3>1, BlockIs, HeapConstants
      <3>3. QED  BY <2>1, <3>1, <3>2 DEF BlocksOwnedOnce, FreeBlocks, UsedBy
    <2>2. CASE \E n \in Nat : HeapOk(heap, n, used)
      <3>1. PICK n \in Nat : HeapOk(heap, n, used)
        BY <2>2
      <3>2. FreeBlocks(heap) = Carved(n) \ used /\ used \in SUBSET Carved(n)
        BY <3>1, FreeAre DEF HeapOk
      <3>3. (heap.next_index - HeapStart) \div (NodeSize + HeaderSize) = n
        <4>1. heap.next_index = HeapStart + n * Block
          BY <3>1 DEF HeapOk, HeapsOf
        <4>2. heap.next_index - HeapStart = n * 20
          BY <4>1, BlockIs, HeapConstants
        <4>3. (n * 20) \div 20 = n
          OBVIOUS
        <4>4. QED  BY <4>2, <4>3, BlockIs
      <3>4. Carved(n) = {HeapStart + k * (NodeSize + HeaderSize) :
                           k \in 0 .. ((heap.next_index - HeapStart) \div (NodeSize + HeaderSize)) - 1}
        BY <3>3, Zenon DEF Carved, Block
      <3>5. used \cup FreeBlocks(heap) = Carved(n) /\ used \cap FreeBlocks(heap) = {}
        BY <3>2
      <3>6. QED  BY <3>4, <3>5, Zenon DEF BlocksOwnedOnce, UsedBy
    <2>3. QED  BY <2>1, <2>2 DEF QueueInv, HeapIs
  <1>2. QED  BY <1>1, QueueInvariant, PTL

\* The list is in the order of the priorities and holds what was pushed and not
\* popped (priority_queue.c), whatever was pushed and popped before.
THEOREM QueueOrderedHolds == QueueSpec => []QueueOrdered
  <1>1. QueueInv => QueueOrdered
    <2> SUFFICES ASSUME QueueInv PROVE QueueOrdered
      OBVIOUS
    <2>0. PICK m \in 0 .. MaxNodes : \E s : IsList(nodes, pq, m, s)
      BY DEF QueueInv
    <2>1. PICK s : IsList(nodes, pq, m, s)
      BY <2>0
    <2> DEFINE at == Linked(pq)
               inList == {k \in 0 .. MaxNodes - 1 : at[k] # NULL}
    <2>2. \A k \in 0 .. m - 1 : s[k] \in DOMAIN nodes /\ s[k] # NULL
      BY <2>1, HeadOfList
    <2>3. \A k \in 0 .. MaxNodes : at[k] = IF k < m THEN s[k] ELSE NULL
      BY <2>1, LinkedIs DEF QueueInv
    <2> HIDE DEF at
    <2>4. inList = 0 .. m - 1 /\ \A k \in 0 .. m - 1 : at[k] = s[k]
      BY <2>2, <2>3, HeapConstants
    <2> HIDE DEF inList
    <2>5. {at[k] : k \in inList} = DOMAIN nodes
      <3>1. \A a \in DOMAIN nodes : \E k \in 0 .. m - 1 : s[k] = a
        BY <2>1 DEF IsList
      <3>2. \A k \in inList : at[k] \in DOMAIN nodes
        BY <2>2, <2>4
      <3>3. \A a \in DOMAIN nodes : \E k \in inList : at[k] = a
        BY <2>4, <3>1
      <3>4. {at[k] : k \in inList} \subseteq DOMAIN nodes
        BY <3>2
      <3>5. DOMAIN nodes \subseteq {at[k] : k \in inList}
        BY <3>3
      <3>6. QED  BY <3>4, <3>5
    <2>6. \A k \in inList : k + 1 \in inList => nodes[at[k]].priority <= nodes[at[k + 1]].priority
      <3> SUFFICES ASSUME NEW k \in 0 .. m - 1, k + 1 \in 0 .. m - 1
                   PROVE  nodes[s[k]].priority <= nodes[s[k + 1]].priority
        BY <2>4
      <3>1. k <= k + 1
        OBVIOUS
      <3>2. QED  BY <2>1, <3>1 DEF IsList
    <2>7. ASSUME NEW p \in Priorities
          PROVE  held[p] = Cardinality({k \in inList : nodes[at[k]].priority = p})
      <3> DEFINE K == {k \in inList : nodes[at[k]].priority = p}
                 f == [k \in K |-> s[k]]
      <3>1. \A k \in K : k \in 0 .. m - 1 /\ nodes[s[k]].priority = p
        BY <2>4
      <3>2. f \in Bijection(K, Of(nodes, p))
        <4>1. f \in [K -> Of(nodes, p)]
          BY <2>2, <3>1 DEF Of
        <4>2. \A k, l \in K : f[k] = f[l] => k = l
          BY <2>1, <3>1 DEF IsList
        <4>3. \A a \in Of(nodes, p) : \E k \in K : f[k] = a
          BY <2>1, <2>4 DEF IsList, Of
        <4>4. QED  BY <4>1, <4>2, <4>3 DEF Bijection, Injection, Surjection, IsInjective
      <3>3. IsFiniteSet(K)
        <4>1. IsFiniteSet(inList)
          BY <2>4, FS_Interval
        <4>2. QED  BY <4>1, FS_Subset
      <3>4. ExistsBijection(K, Of(nodes, p))
        BY <3>2 DEF ExistsBijection
      <3>5. Cardinality(Of(nodes, p)) = Cardinality(K)
        BY <3>3, <3>4, FS_Bijection
      <3>6. QED  BY <3>5 DEF QueueInv
    <2>8. QED  BY <2>5, <2>6, <2>7, Zenon DEF QueueOrdered, at, inList
  <1>2. QED  BY <1>1, QueueInvariant, PTL
===============================================================================
