----------------------------- MODULE MCSoftware -----------------------------
EXTENDS Software
MCWords == [opcode : {\h37, \h17, \h6f, \h67, \h63, \h03, \h23, \h13, \h33, \h0f, \h73, \h07},
            rd : {0, 1, 30}, funct3 : 0 .. 7, rs1 : {0, 17}, rs2 : {0, 1, 5, 31},
            funct7 : {0, 1, 8, \h20, \h21, \h40, \h7f}]
MCOld == {[riscv |-> "RType", imm |-> "Jimm", imm_value |-> 0]}
MCOffsets(op) ==
  CASE op \in {"slli", "srli", "srai"} -> {0, 1, 31}
    [] op \in {"lui", "auipc"} -> {0, 1, 4660, 1048575}
    [] op = "jal" -> {-1048576, -2, 0, 2, 30, 256, 512, 2048, 4096, 524288, 1048574}
    [] op \in Branches -> {-4096, -2, 0, 2, 30, 32, 2048, 4094}
    [] OTHER -> {-2048, -33, -1, 0, 1, 31, 32, 2047}
MCAssemblies ==
  UNION {[op : {op}, junk : {0, 5},
          operands : [rd : {0, 31}, rs1 : {0, 31}, rs2 : {0, 21}, imm_value : MCOffsets(op)]]
         : op \in Ops}
MCArrays == UNION {[arr : [0 .. n - 1 -> 1 .. 3], x : 0 .. 3] : n \in 1 .. 5}
MCEdgeSets ==
  {edges \in SUBSET {{0, 1}, {0, 2}, {0, 3}, {0, 4}, {1, 2}, {1, 4}, {2, 3}, {3, 4}, {2, 4}} :
     0 \in UNION edges}
MCDump == <<"c", "t", "f", "f", "w">>
MCTimes == {1, 3, 5}
=============================================================================
