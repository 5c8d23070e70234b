---------------------------- MODULE Core_proofs ----------------------------
(***************************************************************************)
(* Proofs about Core, for every size of the reorder buffer and of the      *)
(* station, all registers and operands, and any number of instructions.    *)
(***************************************************************************)
EXTENDS Core, Rob_proofs, FiniteSetTheorems

-----------------------------------------------------------------------------
(* The inductive invariant.                                                *)

Operands == [tag : Slots, waits : BOOLEAN, value : Nat]
Ops      == [tag : Slots, insn : Insns, wanted : [Ports -> Nat]]
RSEntries == [busy : BOOLEAN, rd_mem : BOOLEAN, op : Ops \cup {<<>>},
              src : [Ports -> Operands]]

CoreTypes ==
  /\ mt \in [Regs -> [tag : Slots, status : Statuses]]
  /\ rs \in [Places -> RSEntries]
  /\ \A i \in Places : rs[i].busy => rs[i].op \in Ops
  /\ registers \in [Regs -> Nat]
  /\ reg_idx \in [Slots -> Regs]
  /\ latest \in [Regs -> Nat]
  /\ arch \in [Regs -> Nat]

\* A register of the map table that is not in the register file points to an
\* instruction in flight that writes it; before the broadcast the status says so.
MapPoints ==
  \A r \in Regs :
    mt[r].status # "Ready_in_RF" =>
      /\ Off(mt[r].tag) < Count
      /\ reg_idx[mt[r].tag] = r
      /\ mt[r].status = "Not_Ready" => \E q \in pending : q.tag = mt[r].tag

\* The youngest writer of a register is the youngest in flight that names it, or
\* the youngest that retired when none does.
LatestInFlight ==
  \A r \in Regs \ {Zero} :
    /\ arch[r] < oldest
    /\ latest[r] < next
    /\ latest[r] < oldest => latest[r] = arch[r]
    /\ \A i \in Slots :
         Off(i) < Count =>
           /\ reg_idx[i] = r => oldest + Off(i) <= latest[r]
           /\ oldest + Off(i) = latest[r] => reg_idx[i] = r

\* Stores and WFI write no register.
NoDestination ==
  \A i \in Slots :
    Off(i) < Count /\ rob[i].insn.kind \in {"store", "halt"} => reg_idx[i] = Zero

Flying == MapPoints /\ LatestInFlight /\ NoDestination

CoreInv ==
  /\ IInv
  /\ CoreTypes
  /\ NoneLost
  /\ StationInOrder
  /\ OperandsCorrect
  /\ MapTrue
  /\ RegistersRetired
  /\ ~halted => Flying

-----------------------------------------------------------------------------
(* Facts about small sets and about closing the gaps.                      *)

\* The issue stage frees none, one or two entries.
LEMMA AtMostTwo ==
  ASSUME NEW F, F \subseteq Places, Cardinality(F) <= 2
  PROVE  \/ F = {}
         \/ \E a \in Places : F = {a}
         \/ \E a, b \in Places : a < b /\ F = {a, b}
  <1>1. IsFiniteSet(Places)
    BY FS_Interval, RSAssumption DEF Places
  <1>2. IsFiniteSet(F)
    BY <1>1, FS_Subset
  <1>3. CASE F # {}
    <2>1. PICK a : a \in F
      BY <1>3
    <2>2. /\ IsFiniteSet(F \ {a})
          /\ Cardinality(F \ {a}) = Cardinality(F) - 1
      BY <2>1, <1>2, FS_RemoveElement
    <2>3. CASE F \ {a} = {}
      <3>1. F = {a}
        BY <2>1, <2>3
      <3>2. QED  BY <3>1, <2>1
    <2>4. CASE F \ {a} # {}
      <3>1. PICK b : b \in F \ {a}
        BY <2>4
      <3>2. /\ IsFiniteSet((F \ {a}) \ {b})
            /\ Cardinality((F \ {a}) \ {b}) = Cardinality(F) - 2
        BY <3>1, <2>2, <1>2, FS_RemoveElement, FS_CardinalityType
      <3>3. Cardinality((F \ {a}) \ {b}) \in Nat /\ Cardinality(F) \in Nat
        BY <3>2, <1>2, FS_CardinalityType
      <3>4. Cardinality((F \ {a}) \ {b}) = 0
        BY <3>2, <3>3
      <3>5. (F \ {a}) \ {b} = {}
        BY <3>2, <3>4, FS_EmptySet
      <3>6. F = {a, b} /\ a \in Places /\ b \in Places /\ a # b
        BY <3>1, <3>5, <2>1
      <3>7. a < b \/ b < a
        BY <3>6, RSAssumption DEF Places
      <3>8. QED  BY <3>6, <3>7
    <2>5. QED  BY <2>3, <2>4
  <1>4. QED  BY <1>3

\* A set of places that has every place below its members, but not the last
\* place, has a first place above it.
LEMMA FirstFree ==
  ASSUME NEW B, B \subseteq Places,
         \A i, j \in Places : i < j /\ j \in B => i \in B,
         RS_SIZE - 1 \notin B
  PROVE  \E e \in Places : e \notin B /\ (e = 0 \/ e - 1 \in B)
  <1> USE RSAssumption
  <1> DEFINE e == Cardinality(B)
  <1>1. IsFiniteSet(Places)
    BY FS_Interval DEF Places
  <1>2. IsFiniteSet(B) /\ e \in Nat
    BY <1>1, FS_Subset, FS_CardinalityType
  <1>3. \A k \in Nat : IsFiniteSet(0 .. k) /\ Cardinality(0 .. k) = k + 1
    BY FS_Interval
  <1>4. B \subseteq 0 .. RS_SIZE - 2
    BY DEF Places
  <1>5. e <= RS_SIZE - 1
    <2>1. RS_SIZE - 2 \in Nat
      OBVIOUS
    <2>2. IsFiniteSet(0 .. RS_SIZE - 2) /\ Cardinality(0 .. RS_SIZE - 2) = RS_SIZE - 1
      BY <2>1, <1>3
    <2>3. QED  BY <2>2, <1>4, FS_Subset
  <1>6. e \notin B
    <2> SUFFICES ASSUME e \in B PROVE FALSE
      OBVIOUS
    <2>1. 0 .. e \subseteq B
      BY <1>2, <1>5 DEF Places
    <2>2. IsFiniteSet(B) /\ Cardinality(0 .. e) <= e
      BY <2>1, <1>2, FS_Subset
    <2>3. QED  BY <2>2, <1>2, <1>3
  <1>7. CASE e > 0 /\ e - 1 \notin B
    <2>1. \A i \in B : i < e - 1
      BY <1>7, <1>2, <1>5 DEF Places
    <2>2. CASE e = 1
      <3>1. B = {}
        BY <2>1, <2>2, <1>2 DEF Places
      <3>2. QED  BY <3>1, <2>2, FS_EmptySet
    <2>3. CASE e > 1
      <3>1. e - 2 \in Nat /\ B \subseteq 0 .. e - 2
        BY <2>1, <2>3, <1>2 DEF Places
      <3>2. IsFiniteSet(0 .. e - 2) /\ Cardinality(0 .. e - 2) = e - 1
        BY <3>1, <1>2, <1>3
      <3>3. e <= e - 1
        BY <3>1, <3>2, FS_Subset
      <3>4. QED  BY <3>3, <1>2
    <2>4. QED  BY <2>2, <2>3, <1>7, <1>2
  <1>8. QED  BY <1>2, <1>5, <1>6, <1>7 DEF Places

\* The entry that place i takes over when the gaps of free are closed.
From(i, free) == IF sel_2(i, free) THEN i + 2 ELSE IF sel_1(i, free) THEN i + 1 ELSE i

\* Closing the gaps keeps the order, loses no entry that stays, and takes over
\* none that is freed.
LEMMA Gaps ==
  ASSUME NEW free \in Frees
  PROVE  /\ \A i \in Places : From(i, free) \in Nat /\ From(i, free) \notin free
         /\ \A i, j \in Places : i < j => From(i, free) < From(j, free)
         /\ \A i \in Places \ free : \E j \in Places : From(j, free) = i
  <1> USE RSAssumption
  <1>1. \/ free = {}
        \/ \E a \in Places : free = {a}
        \/ \E a, b \in Places : a < b /\ free = {a, b}
    BY AtMostTwo DEF Frees
  <1>2. CASE free = {}
    <2>1. \A i \in Places : From(i, free) = i
      BY <1>2 DEF From, sel_1, sel_2
    <2>2. QED  BY <2>1, <1>2 DEF Places
  <1>3. ASSUME NEW a \in Places, free = {a}
        PROVE  /\ \A i \in Places : From(i, free) \in Nat /\ From(i, free) \notin free
               /\ \A i, j \in Places : i < j => From(i, free) < From(j, free)
               /\ \A i \in Places \ free : \E j \in Places : From(j, free) = i
    <2>1. \A i \in Places : From(i, free) = IF i < a THEN i ELSE i + 1
      BY <1>3 DEF From, sel_1, sel_2, Places
    <2>2. ASSUME NEW i \in Places \ free PROVE \E j \in Places : From(j, free) = i
      <3>1. CASE i < a
        BY <3>1, <2>1
      <3>2. CASE i > a
        <4>1. i - 1 \in Places /\ From(i - 1, free) = i
          BY <3>2, <2>1 DEF Places
        <4>2. QED  BY <4>1
      <3>3. QED  BY <3>1, <3>2, <1>3 DEF Places
    <2>3. ASSUME NEW i \in Places PROVE From(i, free) \in Nat /\ From(i, free) # a
      BY <2>1 DEF Places
    <2>4. \A i, j \in Places : i < j => From(i, free) < From(j, free)
      BY <2>1 DEF Places
    <2>5. QED  BY <2>2, <2>3, <2>4, <1>3
  <1>4. ASSUME NEW a \in Places, NEW b \in Places, a < b, free = {a, b}
        PROVE  /\ \A i \in Places : From(i, free) \in Nat /\ From(i, free) \notin free
               /\ \A i, j \in Places : i < j => From(i, free) < From(j, free)
               /\ \A i \in Places \ free : \E j \in Places : From(j, free) = i
    <2>1. ASSUME NEW i \in Places
          PROVE  From(i, free) = IF i < a THEN i ELSE IF i + 1 < b THEN i + 1 ELSE i + 2
      <3>1. sel_1(i, free) <=> a <= i
        BY <1>4 DEF sel_1, Places
      <3>2. sel_2(i, free) <=> a <= i /\ b <= i + 1
        <4>1. ASSUME a <= i, b <= i + 1 PROVE sel_2(i, free)
          <5>1. b - 1 \in 0 .. i /\ sel_1(b - 1, free) /\ (b - 1) + 1 \in free
            BY <4>1, <1>4 DEF sel_1, Places
          <5>2. QED  BY <5>1 DEF sel_2
        <4>2. ASSUME sel_2(i, free) PROVE a <= i /\ b <= i + 1
          BY <4>2, <1>4 DEF sel_2, sel_1, Places
        <4>3. QED  BY <4>1, <4>2
      <3>3. QED  BY <3>1, <3>2, <1>4 DEF From, Places
    <2>2. ASSUME NEW i \in Places \ free PROVE \E j \in Places : From(j, free) = i
      <3>1. CASE i < a
        BY <3>1, <2>1
      <3>2. CASE a < i /\ i < b
        <4>1. i - 1 \in Places /\ From(i - 1, free) = i
          BY <3>2, <2>1, <1>4 DEF Places
        <4>2. QED  BY <4>1
      <3>3. CASE i > b
        <4>1. i - 2 \in Places /\ From(i - 2, free) = i
          BY <3>3, <2>1, <1>4 DEF Places
        <4>2. QED  BY <4>1
      <3>4. QED  BY <3>1, <3>2, <3>3, <1>4 DEF Places
    <2>3. \A i \in Places : From(i, free) \in Nat /\ From(i, free) \notin free
      BY <2>1, <1>4 DEF Places
    <2>4. \A i, j \in Places : i < j => From(i, free) < From(j, free)
      BY <2>1, <1>4 DEF Places
    <2>5. QED  BY <2>2, <2>3, <2>4
  <1>5. QED  BY <1>1, <1>2, <1>3, <1>4

\* What dispatch may send in a cycle.
LEMMA ProgramFacts ==
  ASSUME NEW prog \in Programs
  PROVE  /\ Len(prog) \in 0 .. 2
         /\ DOMAIN prog = 1 .. Len(prog)
         /\ DOMAIN rs_dp(prog) = 1 .. Len(prog) /\ Len(rs_dp(prog)) = Len(prog)
         /\ DOMAIN mt_dp(prog) = 1 .. Len(prog) /\ Len(mt_dp(prog)) = Len(prog)
         /\ \A k \in 1 .. Len(prog) :
              /\ prog[k] \in Shapes
              /\ prog[k].kind \in Kinds /\ prog[k].rd_mem \in BOOLEAN
              /\ prog[k].dest \in Regs /\ prog[k].src \in [Ports -> Regs]
              /\ prog[k].kind \in {"store", "halt"} => prog[k].dest = Zero
  <1>1. PICK n \in 0 .. 2 : prog \in [1 .. n -> Shapes]
    BY DEF Programs
  <1>2. prog \in Seq(Shapes) /\ Len(prog) = n /\ DOMAIN prog = 1 .. n
    BY <1>1
  <1>3. DOMAIN rs_dp(prog) = 1 .. n /\ DOMAIN mt_dp(prog) = 1 .. n
    BY <1>2 DEF rs_dp, mt_dp
  <1>4. Len(rs_dp(prog)) = n
    BY <1>2 DEF rs_dp
  <1>5. Len(mt_dp(prog)) = n
    BY <1>2 DEF mt_dp
  <1>6. ASSUME NEW k \in 1 .. n
        PROVE  /\ prog[k] \in Shapes
               /\ prog[k].kind \in Kinds /\ prog[k].rd_mem \in BOOLEAN
               /\ prog[k].dest \in Regs /\ prog[k].src \in [Ports -> Regs]
               /\ prog[k].kind \in {"store", "halt"} => prog[k].dest = Zero
    <2>1. prog[k] \in Shapes
      BY <1>1
    <2>2. QED  BY <2>1, CoreAssumption
  <1>7. QED  BY <1>2, <1>3, <1>4, <1>5, <1>6

\* Some place e is the first that is empty once the gaps are closed: below it
\* are the entries that stay, the dispatched ones follow, and no other is busy.
LEMMA StationStep ==
  ASSUME rs \in [Places -> RSEntries], StationInOrder,
         NEW free \in Frees, NEW prog \in Programs, Len(prog) <= slots_left(free)
  PROVE  \E e \in Nat :
           /\ e + Len(prog) <= RS_SIZE
           /\ \A i \in Places :
                /\ i < e => /\ From(i, free) \in Places /\ rs[From(i, free)].busy
                            /\ N_RS_entry(i, free, rs_dp(prog)) = rs[From(i, free)]
                /\ i >= e => ~(From(i, free) \in Places /\ rs[From(i, free)].busy)
                /\ i >= e /\ i < e + Len(prog) =>
                     N_RS_entry(i, free, rs_dp(prog)) = rs_dp(prog)[i - e + 1]
                /\ i >= e + Len(prog) =>
                     /\ N_RS_entry(i, free, rs_dp(prog)) = UP_RS_entry(i, free)
                     /\ ~UP_RS_entry(i, free).busy
  <1> USE RSAssumption
  <1> DEFINE B == {i \in Places : ~empty(i, free)}
             n == Len(prog)
  <1>1. /\ n \in 0 .. 2 /\ Len(rs_dp(prog)) = n
    BY ProgramFacts
  <1>2. ASSUME NEW i \in Places
        PROVE  /\ UP_RS_entry(i, free) = IF From(i, free) \in Places
                                         THEN rs[From(i, free)] ELSE Noop
               /\ i \in B <=> From(i, free) \in Places /\ rs[From(i, free)].busy
               /\ i \in B <=> UP_RS_entry(i, free).busy
    <2>1. UP_RS_entry(i, free) = IF From(i, free) \in Places
                                 THEN rs[From(i, free)] ELSE Noop
      BY DEF UP_RS_entry, From
    <2>2. QED  BY <2>1 DEF empty, Noop
  <1>3. \A i, j \in Places : i < j /\ j \in B => i \in B
    <2> SUFFICES ASSUME NEW i \in Places, NEW j \in Places, i < j, j \in B
                 PROVE  i \in B
      OBVIOUS
    <2>1. From(i, free) < From(j, free) /\ From(i, free) \in Nat
      BY Gaps
    <2>2. From(j, free) \in Places /\ rs[From(j, free)].busy
      BY <1>2
    <2>3. From(i, free) \in Places
      BY <2>1, <2>2 DEF Places
    <2>4. QED  BY <2>1, <2>2, <2>3, <1>2 DEF StationInOrder
  <1>4. /\ slots_left(free) = IF RS_SIZE - 1 \in B THEN 0
                              ELSE IF RS_SIZE - 2 \in B THEN 1 ELSE 2
        /\ RS_SIZE - 1 \in Places /\ RS_SIZE - 2 \in Places
    BY DEF slots_left, Places
  <1>5. \A i \in Places :
          /\ slot_valid_1(i, free) <=> i \notin B /\ (i = 0 \/ i - 1 \in B)
          /\ slot_valid_2(i, free) <=> i > 0 /\ slot_valid_1(i - 1, free)
    BY DEF slot_valid_1, slot_valid_2, Places
  <1> HIDE DEF B
  <1>6. \E e \in Nat : /\ e <= RS_SIZE
                       /\ e = RS_SIZE <=> RS_SIZE - 1 \in B
                       /\ \A i \in Places : i \in B <=> i < e
    <2>1. CASE RS_SIZE - 1 \in B
      <3>1. \A i \in Places : i \in B
        BY <2>1, <1>3, <1>4 DEF Places
      <3>2. QED  BY <3>1, <2>1 DEF Places
    <2>2. CASE RS_SIZE - 1 \notin B
      <3>1. B \subseteq Places
        BY DEF B
      <3>2. PICK e \in Places : e \notin B /\ (e = 0 \/ e - 1 \in B)
        BY <3>1, <2>2, <1>3, FirstFree
      <3>3. \A i \in Places : i \in B <=> i < e
        <4>1. ASSUME NEW i \in Places, i < e PROVE i \in B
          <5>1. e - 1 \in Places /\ e - 1 \in B
            BY <4>1, <3>2 DEF Places
          <5>2. QED  BY <4>1, <5>1, <1>3 DEF Places
        <4>2. ASSUME NEW i \in Places, i \in B PROVE i < e
          BY <4>2, <3>2, <1>3 DEF Places
        <4>3. QED  BY <4>1, <4>2
      <3>4. e \in Nat /\ e <= RS_SIZE /\ e # RS_SIZE
        BY <3>2 DEF Places
      <3>5. QED  BY <3>3, <3>4, <2>2
    <2>3. QED  BY <2>1, <2>2
  <1>7. PICK e \in Nat : /\ e <= RS_SIZE
                         /\ e = RS_SIZE <=> RS_SIZE - 1 \in B
                         /\ \A i \in Places : i \in B <=> i < e
    BY <1>6
  <1>8. e + n <= RS_SIZE
    BY <1>1, <1>4, <1>7 DEF Places
  <1>9. \A i \in Places : slot_valid_1(i, free) <=> i = e
    BY <1>5, <1>7 DEF Places
  <1>10. \A i \in Places : slot_valid_2(i, free) <=> i = e + 1
    BY <1>5, <1>9 DEF Places
  <1>11. ASSUME NEW i \in Places
         PROVE  N_RS_entry(i, free, rs_dp(prog)) =
                  IF i = e /\ n >= 1 THEN rs_dp(prog)[1]
                  ELSE IF i = e + 1 /\ n = 2 THEN rs_dp(prog)[2]
                  ELSE UP_RS_entry(i, free)
    BY <1>1, <1>9, <1>10 DEF N_RS_entry
  <1>12. ASSUME NEW i \in Places
         PROVE  /\ i < e => /\ From(i, free) \in Places /\ rs[From(i, free)].busy
                            /\ N_RS_entry(i, free, rs_dp(prog)) = rs[From(i, free)]
                /\ i >= e => ~(From(i, free) \in Places /\ rs[From(i, free)].busy)
                /\ i >= e /\ i < e + n =>
                     N_RS_entry(i, free, rs_dp(prog)) = rs_dp(prog)[i - e + 1]
                /\ i >= e + n =>
                     /\ N_RS_entry(i, free, rs_dp(prog)) = UP_RS_entry(i, free)
                     /\ ~UP_RS_entry(i, free).busy
    <2>1. CASE i < e
      BY <2>1, <1>1, <1>2, <1>7, <1>11 DEF Places
    <2>2. CASE i >= e
      <3>1. i \notin B
        BY <2>2, <1>7 DEF Places
      <3>2. CASE i < e + n
        <4>1. (i = e /\ n >= 1) \/ (i = e + 1 /\ n = 2)
          BY <2>2, <3>2, <1>1 DEF Places
        <4>2. N_RS_entry(i, free, rs_dp(prog)) = rs_dp(prog)[i - e + 1]
          <5>1. CASE i = e /\ n >= 1
            BY <5>1, <1>11
          <5>2. CASE i = e + 1 /\ n = 2
            <6>1. i - e + 1 = 2 /\ i # e
              BY <5>2
            <6>2. QED  BY <5>2, <6>1, <1>11
          <5>3. QED  BY <4>1, <5>1, <5>2
        <4>3. QED  BY <2>2, <3>1, <3>2, <4>2, <1>1, <1>2 DEF Places
      <3>3. CASE i >= e + n
        <4>1. ~(i = e /\ n >= 1) /\ ~(i = e + 1 /\ n = 2)
          BY <3>3, <1>1
        <4>2. QED  BY <2>2, <3>1, <3>3, <4>1, <1>1, <1>2, <1>11 DEF Places
      <3>4. QED  BY <3>2, <3>3, <1>1 DEF Places
    <2>3. QED  BY <2>1, <2>2 DEF Places
  <1>13. QED  BY <1>8, <1>12

\* What operand p of entry s becomes when it listens to the packets C.
Heard(s, p, C) ==
  IF Cardinality(Wakes(s, p, C)) = 1
  THEN [s.src[p] EXCEPT !.waits = FALSE,
                        !.value = (CHOOSE q \in Wakes(s, p, C) : TRUE).value]
  ELSE s.src[p]

\* Listening to the bus changes only the operands.
LEMMA WakeUpFields ==
  ASSUME NEW s \in RSEntries, NEW C
  PROVE  /\ WakeUp(s, C).busy = s.busy
         /\ WakeUp(s, C).rd_mem = s.rd_mem
         /\ WakeUp(s, C).op = s.op
         /\ \A p \in Ports : WakeUp(s, C).src[p] = Heard(s, p, C)
         /\ WakeUp(s, C) = [busy |-> s.busy, rd_mem |-> s.rd_mem, op |-> s.op,
                            src |-> [p \in Ports |-> Heard(s, p, C)]]
  <1> DEFINE new == [p \in Ports |-> Heard(s, p, C)]
  <1>1. WakeUp(s, C) = [s EXCEPT !.src = new]
    BY DEF WakeUp, Heard
  <1>2. \A p \in Ports : new[p] = Heard(s, p, C)
    OBVIOUS
  <1> HIDE DEF new
  <1>3. /\ [s EXCEPT !.src = new].busy = s.busy
        /\ [s EXCEPT !.src = new].rd_mem = s.rd_mem
        /\ [s EXCEPT !.src = new].op = s.op
        /\ [s EXCEPT !.src = new].src = new
        /\ [s EXCEPT !.src = new] =
             [busy |-> s.busy, rd_mem |-> s.rd_mem, op |-> s.op, src |-> new]
    BY DEF RSEntries
  <1>4. QED  BY <1>1, <1>2, <1>3 DEF new

-----------------------------------------------------------------------------
(* Facts about the instructions in flight.                                 *)

\* A tag and an id name one instruction on its way to the bus, and its entry.
LEMMA PendingFacts ==
  ASSUME IInv, ~halted
  PROVE  /\ \A p \in pending :
              /\ p \in [tag : Slots, insn : Insns]
              /\ p.insn.id = oldest + Off(p.tag)
              /\ p.insn.id < next /\ p.insn.id \in Nat
              /\ Off(p.tag) < Count
              /\ rob[p.tag].insn = p.insn /\ ~rob[p.tag].cp_bit
         /\ \A p, q \in pending : p.tag = q.tag => p = q
         /\ \A p, q \in pending : p.insn.id = q.insn.id => p = q
  <1>1. ASSUME NEW p \in pending
        PROVE  /\ p \in [tag : Slots, insn : Insns]
               /\ p.insn.id = oldest + Off(p.tag)
               /\ p.insn.id < next /\ p.insn.id \in Nat
               /\ Off(p.tag) < Count
               /\ rob[p.tag].insn = p.insn /\ ~rob[p.tag].cp_bit
    <2>1. p \in [tag : Slots, insn : Insns]
      BY DEF IInv, TypeOK
    <2>2. SlotInv(p.tag) /\ Off(p.tag) \in 0 .. ROB_SIZE - 1
      BY <2>1, Offsets DEF IInv, Running, TypeOK
    <2>3. Off(p.tag) < Count /\ rob[p.tag].insn = p.insn /\ ~rob[p.tag].cp_bit
      BY DEF IInv, Running, PendingInv
    <2>4. p.insn.id = oldest + Off(p.tag)
      BY <2>2, <2>3 DEF SlotInv
    <2>5. oldest \in Nat /\ next \in Nat /\ p.insn.id \in Nat
      BY <2>1 DEF IInv, TypeOK, Insns
    <2>6. p.insn.id < next
      BY <2>2, <2>3, <2>4, <2>5 DEF Count
    <2>7. QED  BY <2>1, <2>3, <2>4, <2>5, <2>6
  <1>2. ASSUME NEW p \in pending, NEW q \in pending, p.tag = q.tag PROVE p = q
    <2>1. p.insn = q.insn
      BY <1>1, <1>2
    <2>2. QED  BY <1>1, <1>2, <2>1
  <1>3. ASSUME NEW p \in pending, NEW q \in pending, p.insn.id = q.insn.id
        PROVE  p = q
    <2>1. p.tag \in Slots /\ q.tag \in Slots
      BY <1>1
    <2>2. /\ Off(p.tag) \in 0 .. ROB_SIZE - 1 /\ Off(q.tag) \in 0 .. ROB_SIZE - 1
          /\ \A i, j \in Slots : Off(i) = Off(j) => i = j
          /\ oldest \in Nat
      BY <2>1, Offsets DEF IInv, Running, TypeOK
    <2>3. Off(p.tag) = Off(q.tag)
      BY <1>1, <1>3, <2>2
    <2>4. QED  BY <1>2, <2>1, <2>2, <2>3
  <1>4. QED  BY <1>1, <1>2, <1>3

\* The entries of the station and the instructions in the functional units are
\* instructions on their way to the bus, each in one place.
LEMMA StationFacts ==
  ASSUME IInv, ~halted, CoreTypes, NoneLost, StationInOrder
  PROVE  /\ \A i \in Busy :
              /\ rs[i] \in RSEntries /\ rs[i].op \in Ops
              /\ [tag |-> rs[i].op.tag, insn |-> rs[i].op.insn] \in pending \ executing
              /\ rs[i].op.insn.id < next /\ rs[i].op.insn.id \in Nat
         /\ \A i, j \in Busy : rs[i].op.insn.id = rs[j].op.insn.id => i = j
         /\ executing \subseteq pending
  <1>1. \A i \in Busy : i \in Places /\ rs[i].busy
    BY DEF Busy
  <1>2. \A i \in Busy : rs[i] \in RSEntries /\ rs[i].op \in Ops
    BY <1>1 DEF CoreTypes
  <1>3. ASSUME NEW i \in Busy
        PROVE  [tag |-> rs[i].op.tag, insn |-> rs[i].op.insn] \in pending \ executing
    BY DEF NoneLost, Issued
  <1>4. ASSUME NEW i \in Busy
        PROVE  rs[i].op.insn.id < next /\ rs[i].op.insn.id \in Nat
    BY <1>3, PendingFacts
  <1>5. ASSUME NEW i \in Busy, NEW j \in Busy, rs[i].op.insn.id = rs[j].op.insn.id
        PROVE  i = j
    <2>1. i < j \/ j < i \/ i = j
      BY <1>1, RSAssumption DEF Places
    <2>2. QED  BY <2>1, <1>1, <1>4, <1>5 DEF StationInOrder
  <1>6. QED  BY <1>2, <1>3, <1>4, <1>5 DEF NoneLost

\* The dispatched instructions, on their way to the bus.
Entered(prog) ==
  {[tag |-> TailSlot(k), insn |-> [id |-> next + k - 1, kind |-> prog[k].kind]] :
     k \in 1 .. Len(prog)}

\* The slots dispatch writes, and what the back end learns of them.
LEMMA TailSlots ==
  ASSUME IInv, ~halted, NEW prog \in Programs, Len(prog) <= dp_available
  PROVE  /\ Count + Len(prog) <= ROB_SIZE
         /\ \A k \in 1 .. Len(prog) :
              /\ TailSlot(k) \in Slots /\ Off(TailSlot(k)) = Count + k - 1
              /\ [id |-> next + k - 1, kind |-> prog[k].kind] \in Insns
         /\ \A j, k \in 1 .. Len(prog) : TailSlot(j) = TailSlot(k) => j = k
         /\ Enter(Len(prog), [k \in 0 .. Len(prog) - 1 |-> prog[k + 1].kind]) =
              Entered(prog)
  <1> USE RobAssumption
  <1> DEFINE n == Len(prog)
             kinds == [k \in 0 .. n - 1 |-> prog[k + 1].kind]
  <1>1. n \in 0 .. 2
    BY ProgramFacts
  <1>2. /\ head \in Ptrs /\ Count \in 0 .. ROB_SIZE /\ tail = Plus(head, Count)
        /\ next \in Nat /\ tail \in Ptrs
    BY DEF IInv, TypeOK, Running
  <1>3. Count + n <= ROB_SIZE
    BY <1>1, <1>2, DispatchFits
  <1>4. /\ Idx(tail) \in Slots
        /\ Count < ROB_SIZE => Off(Idx(tail)) = Count
        /\ Idx(Plus(tail, 1)) \in Slots
        /\ Count + 1 < ROB_SIZE => Off(Idx(Plus(tail, 1))) = Count + 1
    BY <1>2, Offsets
  <1>5. TailSlot(1) = Idx(tail) /\ TailSlot(2) = Idx(Plus(tail, 1))
    BY <1>2 DEF TailSlot, Plus, Ptrs
  <1> HIDE DEF n
  <1>6. ASSUME NEW k \in 1 .. n
        PROVE  /\ TailSlot(k) \in Slots /\ Off(TailSlot(k)) = Count + k - 1
               /\ [id |-> next + k - 1, kind |-> prog[k].kind] \in Insns
    <2>1. k = 1 \/ k = 2
      BY <1>1
    <2>2. [id |-> next + k - 1, kind |-> prog[k].kind] \in Insns
      <3>1. prog[k].kind \in Kinds /\ next + k - 1 \in Nat
        BY ProgramFacts, <1>1, <1>2 DEF n
      <3>2. QED  BY <3>1 DEF Insns
    <2>3. CASE k = 1
      BY <2>2, <2>3, <1>1, <1>2, <1>3, <1>4, <1>5
    <2>4. CASE k = 2
      BY <2>2, <2>4, <1>1, <1>2, <1>3, <1>4, <1>5
    <2>5. QED  BY <2>1, <2>3, <2>4
  <1>7. ASSUME NEW j \in 1 .. n, NEW k \in 1 .. n, TailSlot(j) = TailSlot(k)
        PROVE  j = k
    <2>1. Count + j - 1 = Count + k - 1
      BY <1>6, <1>7
    <2>2. QED  BY <2>1, <1>1, <1>2
  <1>8. Enter(n, kinds) =
          {[tag |-> TailSlot(k), insn |-> [id |-> next + k - 1, kind |-> prog[k].kind]] :
             k \in 1 .. n}
    <2>1. CASE n = 0
      BY <2>1 DEF Enter
    <2>2. CASE n = 1
      <3>1. Enter(n, kinds) = {[tag |-> Idx(tail), insn |-> [id |-> next, kind |-> prog[1].kind]]}
        BY <2>2, <1>2 DEF Enter, Offered
      <3>2. 1 .. n = {1} /\ next + 1 - 1 = next
        BY <2>2, <1>2
      <3>3. QED  BY <3>1, <3>2, <1>5
    <2>3. CASE n = 2
      <3>1. Enter(n, kinds) = {[tag |-> Idx(tail), insn |-> [id |-> next, kind |-> prog[1].kind]],
                               [tag |-> Idx(Plus(tail, 1)),
                                insn |-> [id |-> next + 1, kind |-> prog[2].kind]]}
        BY <2>3, <1>2 DEF Enter, Offered
      <3>2. 1 .. n = {1, 2} /\ next + 1 - 1 = next /\ next + 2 - 1 = next + 1
        BY <2>3, <1>2
      <3>3. QED  BY <3>1, <3>2, <1>5
    <2>4. QED  BY <2>1, <2>2, <2>3, <1>1
  <1>9. QED  BY <1>3, <1>6, <1>7, <1>8 DEF n, Entered

-----------------------------------------------------------------------------
(* Facts about the map table and the retire stage's packets.               *)

\* The retire stage's packets, field by field.
LEMMA PacketFacts ==
  /\ rt_packet[0].valid = rt_valid0 /\ rt_packet[0].value = E0.res.id
  /\ rt_packet[0].retire_reg = IF rt_valid0 THEN reg_idx[Nth(0)] ELSE Zero
  /\ rt_packet[1].valid = rt_valid1 /\ rt_packet[1].value = E1.res.id
  /\ rt_packet[1].retire_reg = rt1_reg
  /\ \A t : t \in rt_tags <=> \/ rt_valid0 /\ t = Nth(0)
                              \/ rt_valid1 /\ t = Nth(1)
  <1>1. /\ rt_packet[0] = [valid |-> rt_valid0, tag |-> Nth(0), value |-> E0.res.id,
                           retire_reg |-> IF rt_valid0 THEN reg_idx[Nth(0)] ELSE Zero]
        /\ rt_packet[1] = [valid |-> rt_valid1, tag |-> Nth(1), value |-> E1.res.id,
                           retire_reg |-> rt1_reg]
    BY DEF rt_packet
  <1> HIDE DEF rt_packet
  <1>2. \A t : t \in rt_tags <=> \E i \in 0 .. 1 : rt_packet[i].valid /\ rt_packet[i].tag = t
    BY DEF rt_tags
  <1>3. QED  BY <1>1, <1>2

\* What a set completion bit says of the two oldest entries.
LEMMA HeadFacts ==
  ASSUME IInv, ~halted, CoreTypes, NoDestination
  PROVE  /\ Nth(0) \in Slots /\ Nth(1) \in Slots
         /\ Off(Nth(0)) = 0 /\ Off(Nth(1)) = 1
         /\ reg_idx[Nth(0)] \in Regs /\ reg_idx[Nth(1)] \in Regs
         /\ E0 \in Entries /\ E1 \in Entries
         /\ E0.cp_bit => /\ 0 < Count /\ E0.res.id = oldest /\ E0.insn.id = oldest
                         /\ E0.halt = (E0.insn.kind = "halt")
                         /\ E0.insn.kind \in {"store", "halt"} => reg_idx[Nth(0)] = Zero
         /\ E1.cp_bit => /\ 1 < Count /\ E1.res.id = oldest + 1 /\ E1.insn.id = oldest + 1
                         /\ E1.halt = (E1.insn.kind = "halt")
                         /\ E1.insn.kind \in {"store", "halt"} => reg_idx[Nth(1)] = Zero
  <1>1. /\ Nth(0) \in Slots /\ Nth(1) \in Slots
        /\ Off(Nth(0)) = 0 /\ Off(Nth(1)) = 1
        /\ oldest \in Nat /\ rob \in [Slots -> Entries]
    BY Offsets DEF IInv, Running, TypeOK
  <1>2. SlotInv(Nth(0)) /\ SlotInv(Nth(1))
    BY <1>1 DEF IInv, Running
  <1>3. reg_idx[Nth(0)] \in Regs /\ reg_idx[Nth(1)] \in Regs
    BY <1>1 DEF CoreTypes
  <1>4. E0.cp_bit => /\ 0 < Count /\ E0.res.id = oldest /\ E0.insn.id = oldest
                     /\ E0.halt = (E0.insn.kind = "halt")
                     /\ E0.insn.kind \in {"store", "halt"} => reg_idx[Nth(0)] = Zero
    BY <1>1, <1>2 DEF E0, SlotInv, NoDestination
  <1>5. E1.cp_bit => /\ 1 < Count /\ E1.res.id = oldest + 1 /\ E1.insn.id = oldest + 1
                     /\ E1.halt = (E1.insn.kind = "halt")
                     /\ E1.insn.kind \in {"store", "halt"} => reg_idx[Nth(1)] = Zero
    BY <1>1, <1>2 DEF E1, SlotInv, NoDestination
  <1>6. QED  BY <1>1, <1>3, <1>4, <1>5 DEF E0, E1

\* No two registers have the same entry in the map table while it points into
\* the reorder buffer, so that the encoders find the one they look for.
LEMMA MatchFacts ==
  ASSUME CoreTypes, MapPoints, NEW r \in Regs
  PROVE  /\ \A C : Completing(r, C) <=>
                     mt[r].status = "Not_Ready" /\ \E p \in C : p.tag = mt[r].tag
         /\ \A T : Retiring(r, T) <=> mt[r].status = "Ready_in_ROB" /\ mt[r].tag \in T
  <1>1. \A q \in Regs : mt[q] = [tag |-> mt[q].tag, status |-> mt[q].status]
    BY DEF CoreTypes
  <1>2. ASSUME NEW t, NEW s \in {"Not_Ready", "Ready_in_ROB"}
        PROVE  Matches(r, t, s) <=> mt[r].tag = t /\ mt[r].status = s
    <2>1. \A q \in Regs : mt[q] = [tag |-> t, status |-> s] <=>
                            mt[q].tag = t /\ mt[q].status = s
      BY <1>1
    <2>2. \A q \in Regs : mt[q].tag = t /\ mt[q].status = s => reg_idx[t] = q
      BY <1>2 DEF MapPoints
    <2>3. QED  BY <2>1, <2>2 DEF Matches
  <1>3. QED  BY <1>2 DEF Completing, Retiring

\* A register the map table finds in the register file, or retiring, reads as
\* the result of its youngest writer: also when that writer is written early,
\* and when an older writer of it retires in the same cycle.
LEMMA ReadsLatest ==
  ASSUME CoreInv, ~halted, NEW r \in Regs \ {Zero},
         mt[r].status = "Ready_in_RF" \/ Retiring(r, rt_tags)
  PROVE  RegRead(r, rt_packet) = latest[r]
  <1>1. /\ IInv /\ CoreTypes /\ MapPoints /\ LatestInFlight /\ NoDestination
        /\ MapTrue /\ RegistersRetired
    BY DEF CoreInv, Flying
  <1>2. /\ Nth(0) \in Slots /\ Nth(1) \in Slots
        /\ Off(Nth(0)) = 0 /\ Off(Nth(1)) = 1
        /\ E0.cp_bit => /\ 0 < Count /\ E0.res.id = oldest
                        /\ E0.insn.kind \in {"store", "halt"} => reg_idx[Nth(0)] = Zero
        /\ E1.cp_bit => 1 < Count /\ E1.res.id = oldest + 1
    BY <1>1, HeadFacts
  <1>3. /\ oldest \in Nat /\ latest[r] \in Nat /\ arch[r] \in Nat /\ registers[r] \in Nat
        /\ arch[r] < oldest
    BY <1>1 DEF IInv, TypeOK, CoreTypes, LatestInFlight
  <1>4. /\ rt_valid0 => E0.cp_bit
        /\ rt_valid1 => E0.cp_bit /\ E1.cp_bit /\ rt1_reg = reg_idx[Nth(1)]
    BY DEF rt_valid0, rt_valid1, rt1_reg
  <1>5. /\ rt_valid0 /\ reg_idx[Nth(0)] = r => oldest <= latest[r]
        /\ rt_valid1 /\ reg_idx[Nth(1)] = r => oldest + 1 <= latest[r]
    BY <1>1, <1>2, <1>3, <1>4 DEF LatestInFlight
  <1>6. RegRead(r, rt_packet) =
          IF rt_valid1 /\ rt1_reg = r THEN E1.res.id
          ELSE IF rt_valid0 /\ (IF rt_valid0 THEN reg_idx[Nth(0)] ELSE Zero) = r THEN E0.res.id
          ELSE registers[r]
    BY PacketFacts DEF RegRead
  <1>7. CASE mt[r].status = "Ready_in_RF"
    <2>1. registers[r] = latest[r]
      BY <1>1, <1>7 DEF MapTrue
    <2>2. \/ registers[r] = arch[r]
          \/ /\ E0.cp_bit /\ E0.insn.kind = "store"
             /\ rt_valid1 /\ reg_idx[Nth(1)] = r /\ registers[r] = E1.res.id
      BY <1>1 DEF RegistersRetired
    <2>3. CASE rt_valid1 /\ rt1_reg = r
      BY <2>1, <2>2, <2>3, <1>3, <1>4, <1>5, <1>6
    <2>4. CASE ~(rt_valid1 /\ rt1_reg = r) /\ rt_valid0 /\ reg_idx[Nth(0)] = r
      BY <2>1, <2>2, <2>4, <1>2, <1>3, <1>4, <1>5
    <2>5. CASE ~(rt_valid1 /\ rt1_reg = r) /\ ~(rt_valid0 /\ reg_idx[Nth(0)] = r)
      BY <2>1, <2>5, <1>6
    <2>6. QED  BY <2>3, <2>4, <2>5
  <1>8. CASE Retiring(r, rt_tags)
    <2>1. mt[r].status = "Ready_in_ROB" /\ mt[r].tag \in rt_tags
      BY <1>1, <1>8, MatchFacts
    <2>2. /\ reg_idx[mt[r].tag] = r
          /\ rob[mt[r].tag].cp_bit /\ rob[mt[r].tag].res.id = latest[r]
      BY <1>1, <2>1 DEF MapPoints, MapTrue
    <2>3. CASE rt_valid1 /\ mt[r].tag = Nth(1)
      BY <2>2, <2>3, <1>4, <1>6 DEF E1
    <2>4. CASE rt_valid0 /\ mt[r].tag = Nth(0)
      <3>1. E0.res.id = latest[r] /\ latest[r] = oldest /\ reg_idx[Nth(0)] = r
        BY <2>2, <2>4, <1>2, <1>4 DEF E0
      <3>2. ~(rt_valid1 /\ rt1_reg = r)
        BY <3>1, <1>3, <1>4, <1>5
      <3>3. QED  BY <2>4, <3>1, <3>2, <1>6
    <2>5. QED  BY <2>1, <2>3, <2>4, PacketFacts
  <1>9. QED  BY <1>7, <1>8

-----------------------------------------------------------------------------
(* A clock edge without a squash: the station.                             *)

\* The core's clock edge is one of the reorder buffer's.
LEMMA CoreCycleIsCycle ==
  ASSUME CoreInv, NEW disable \in Disables, NEW cdb \in Finishing,
         NEW taken \in Mispredictions(cdb), NEW free, NEW prog \in Programs,
         CoreCycle(disable, cdb, taken, free, prog)
  PROVE  /\ ~halted /\ IInv /\ IInv' /\ [Next]_vars
         /\ cdb \in Broadcasts /\ cdb \subseteq executing /\ executing \subseteq pending
         /\ [k \in 0 .. Len(prog) - 1 |-> prog[k + 1].kind] \in [0 .. Len(prog) - 1 -> Kinds]
         /\ Cycle(disable, cdb, taken, Len(prog),
                  [k \in 0 .. Len(prog) - 1 |-> prog[k + 1].kind])
         /\ Len(prog) <= dp_available
         /\ pending' = (pending \ cdb) \cup
              Entered(prog)
         /\ next' = next + Len(prog)
  <1> DEFINE kinds == [k \in 0 .. Len(prog) - 1 |-> prog[k + 1].kind]
  <1>1. Cycle(disable, cdb, taken, Len(prog), kinds) /\ ~halted /\ IInv
    BY DEF CoreCycle, Cycle, CoreInv
  <1>2. cdb \in Broadcasts /\ cdb \subseteq executing /\ executing \subseteq pending
    BY DEF Finishing, Broadcasts, CoreInv, NoneLost
  <1>3. Len(prog) \in 0 .. 2 /\ \A k \in 1 .. Len(prog) : prog[k].kind \in Kinds
    BY ProgramFacts
  <1>4. kinds \in [0 .. Len(prog) - 1 -> Kinds]
    <2>1. \A k \in 0 .. Len(prog) - 1 : prog[k + 1].kind \in Kinds
      BY <1>3
    <2>2. QED  BY <2>1
  <1> HIDE DEF kinds
  <1>5. [Next]_vars
    BY <1>1, <1>2, <1>3, <1>4 DEF Next, Step
  <1>6. IInv'
    BY <1>1, <1>5, Inductive
  <1>7. /\ Len(prog) <= dp_available
        /\ pending' = (pending \ cdb) \cup Enter(Len(prog), kinds)
        /\ next' = next + Len(prog)
    BY <1>1 DEF Cycle, CanDispatch
  <1>8. Enter(Len(prog), kinds) =
          Entered(prog)
    BY <1>1, <1>7, TailSlots DEF kinds
  <1>9. QED  BY <1>1, <1>2, <1>4, <1>5, <1>6, <1>7, <1>8 DEF kinds

\* An operand captured by dispatch is the result of the youngest writer of its
\* register, or waits for that writer.
LEMMA CapturedFacts ==
  ASSUME CoreInv, ~halted, NEW prog \in Programs, Len(prog) <= dp_available,
         NEW k \in 1 .. Len(prog), NEW r \in Regs
  PROVE  /\ Captured(k, r, prog) \in Operands /\ Wanted(k, r, prog) \in Nat
         /\ ~Captured(k, r, prog).waits => Captured(k, r, prog).value = Wanted(k, r, prog)
         /\ Captured(k, r, prog).waits =>
              \/ \E q \in pending : /\ q.tag = Captured(k, r, prog).tag
                                    /\ q.insn.id = Wanted(k, r, prog)
              \/ k = 2 /\ Captured(k, r, prog).tag = TailSlot(1)
                       /\ Wanted(k, r, prog) = next
  <1> DEFINE m == Lookup(k, r, mt_dp(prog), rt_tags)
             v == CASE m.status = "Not_Ready"    -> 0
                    [] m.status = "Ready_in_ROB" -> rob[m.tag].res.id
                    [] m.status = "Ready_in_RF"  -> RegRead(r, rt_packet)
             w == Wanted(k, r, prog)
  <1>1. /\ IInv /\ CoreTypes /\ MapPoints /\ MapTrue
        /\ Captured(k, r, prog) =
             [tag |-> m.tag, waits |-> m.status = "Not_Ready", value |-> v]
    BY DEF CoreInv, Flying, Captured
  <1>2. /\ next \in Nat /\ latest \in [Regs -> Nat]
        /\ mt[r] \in [tag : Slots, status : Statuses]
        /\ rob \in [Slots -> Entries]
    BY <1>1 DEF IInv, TypeOK, CoreTypes
  <1>3. /\ k \in 1 .. 2 /\ (k = 2 => 1 \in 1 .. Len(prog))
    BY ProgramFacts
  <1>4. k = 2 => /\ mt_dp(prog)[1] = [dest_reg_idx |-> prog[1].dest, Tag |-> TailSlot(1)]
                 /\ TailSlot(1) \in Slots
    <2>1. k = 2 => 1 \in DOMAIN prog
      BY <1>3, ProgramFacts
    <2>2. k = 2 => TailSlot(1) \in Slots
      BY <1>1, <1>3, TailSlots
    <2>3. QED  BY <2>1, <2>2 DEF mt_dp
  <1>5. w \in Nat
    BY <1>2 DEF Wanted
  <1> HIDE DEF m, v, w
  <1>6. ASSUME m.tag \in Slots, m.status \in Statuses, m.status # "Not_Ready" => v = w,
               m.status = "Not_Ready" =>
                 \/ \E q \in pending : q.tag = m.tag /\ q.insn.id = w
                 \/ k = 2 /\ m.tag = TailSlot(1) /\ w = next
        PROVE  /\ Captured(k, r, prog) \in Operands
               /\ ~Captured(k, r, prog).waits => Captured(k, r, prog).value = w
               /\ Captured(k, r, prog).waits =>
                    \/ \E q \in pending : q.tag = Captured(k, r, prog).tag /\ q.insn.id = w
                    \/ k = 2 /\ Captured(k, r, prog).tag = TailSlot(1) /\ w = next
    <2>1. v \in Nat
      <3>1. m.status = "Not_Ready" => v = 0
        BY DEF v
      <3>2. QED  BY <3>1, <1>5, <1>6
    <2>2. (m.status = "Not_Ready") \in BOOLEAN
      OBVIOUS
    <2>3. Captured(k, r, prog) \in Operands
      BY <1>1, <1>6, <2>1, <2>2 DEF Operands
    <2>4. /\ Captured(k, r, prog).waits = (m.status = "Not_Ready")
          /\ Captured(k, r, prog).value = v
          /\ Captured(k, r, prog).tag = m.tag
      BY <1>1
    <2>5. QED  BY <1>6, <2>3, <2>4, Zenon
  <1>7. CASE k = 2 /\ prog[1].dest # Zero /\ prog[1].dest = r
    <2>1. m = [tag |-> TailSlot(1), status |-> "Not_Ready"]
      BY <1>4, <1>7 DEF m, Lookup
    <2>2. w = next
      BY <1>7 DEF w, Wanted
    <2>3. QED  BY <2>1, <2>2, <1>4, <1>5, <1>6, <1>7 DEF w, Statuses
  <1>8. CASE ~(k = 2 /\ prog[1].dest # Zero /\ prog[1].dest = r)
    <2>1. m = Read_port(r, rt_tags)
      BY <1>4, <1>8 DEF m, Lookup
    <2>2. CASE r = Zero
      <3>1. m = [tag |-> 0, status |-> "Ready_in_RF"]
        BY <2>1, <2>2 DEF Read_port, Reset
      <3>2. v = 0 /\ w = 0
        BY <2>2, <3>1 DEF v, w, Wanted, RegRead
      <3>3. 0 \in Slots
        BY RobAssumption DEF Slots
      <3>4. QED  BY <3>1, <3>2, <3>3, <1>5, <1>6 DEF w, Statuses
    <2>3. CASE r # Zero
      <3>1. w = latest[r]
        BY <1>8, <2>3 DEF w, Wanted
      <3>2. CASE Retiring(r, rt_tags)
        <4>1. m.tag = mt[r].tag /\ m.status = "Ready_in_RF"
          BY <2>1, <2>3, <3>2, <1>2 DEF Read_port
        <4>2. v = latest[r]
          BY <2>3, <3>2, <4>1, ReadsLatest DEF v
        <4>3. QED  BY <3>1, <4>1, <4>2, <1>2, <1>5, <1>6 DEF w, Statuses
      <3>3. CASE ~Retiring(r, rt_tags)
        <4>1. m.tag = mt[r].tag /\ m.status = mt[r].status
          BY <2>1, <2>3, <3>3 DEF Read_port
        <4>2. m.status = "Ready_in_RF" => v = latest[r]
          BY <2>3, <4>1, ReadsLatest DEF v
        <4>3. m.status = "Ready_in_ROB" => v = latest[r]
          BY <1>1, <2>3, <4>1 DEF v, MapTrue
        <4>4. m.status = "Not_Ready" => \E q \in pending : q.tag = m.tag /\ q.insn.id = latest[r]
          BY <1>1, <2>3, <4>1 DEF MapTrue
        <4>5. m.tag \in Slots /\ m.status \in Statuses
          BY <1>2, <4>1
        <4>6. QED  BY <3>1, <4>2, <4>3, <4>4, <4>5, <1>5, <1>6 DEF w, Statuses
      <3>4. QED  BY <3>2, <3>3
    <2>4. QED  BY <2>2, <2>3
  <1>9. QED  BY <1>7, <1>8

\* A dispatched instruction is a well-formed entry.
LEMMA NewEntry ==
  ASSUME CoreInv, ~halted, NEW prog \in Programs, Len(prog) <= dp_available,
         NEW k \in 1 .. Len(prog)
  PROVE  /\ rs_dp(prog)[k] \in RSEntries
         /\ rs_dp(prog)[k].busy
         /\ rs_dp(prog)[k].op \in Ops
         /\ rs_dp(prog)[k].op.tag = TailSlot(k)
         /\ rs_dp(prog)[k].op.insn = [id |-> next + k - 1, kind |-> prog[k].kind]
         /\ \A p \in Ports :
              /\ rs_dp(prog)[k].op.wanted[p] = Wanted(k, prog[k].src[p], prog)
              /\ rs_dp(prog)[k].src[p] = Captured(k, prog[k].src[p], prog)
  <1> DEFINE o == [tag    |-> TailSlot(k),
                   insn   |-> [id |-> next + k - 1, kind |-> prog[k].kind],
                   wanted |-> [p \in Ports |-> Wanted(k, prog[k].src[p], prog)]]
             c == [p \in Ports |-> Captured(k, prog[k].src[p], prog)]
  <1>1. k \in DOMAIN prog /\ prog[k].rd_mem \in BOOLEAN /\ prog[k].src \in [Ports -> Regs]
    BY ProgramFacts
  <1>2. rs_dp(prog)[k] = [busy |-> TRUE, rd_mem |-> prog[k].rd_mem, op |-> o, src |-> c]
    BY <1>1 DEF rs_dp
  <1>3. TailSlot(k) \in Slots /\ [id |-> next + k - 1, kind |-> prog[k].kind] \in Insns
    BY TailSlots DEF CoreInv
  <1>4. \A p \in Ports : /\ Wanted(k, prog[k].src[p], prog) \in Nat
                         /\ Captured(k, prog[k].src[p], prog) \in Operands
    BY <1>1, CapturedFacts
  <1>5. o \in Ops /\ c \in [Ports -> Operands]
    BY <1>3, <1>4 DEF Ops
  <1>6. /\ o.tag = TailSlot(k)
        /\ o.insn = [id |-> next + k - 1, kind |-> prog[k].kind]
        /\ \A p \in Ports : o.wanted[p] = Wanted(k, prog[k].src[p], prog)
        /\ \A p \in Ports : c[p] = Captured(k, prog[k].src[p], prog)
    OBVIOUS
  <1> HIDE DEF o, c
  <1>7. QED  BY <1>1, <1>2, <1>5, <1>6 DEF RSEntries

\* What hears the bus stays well formed.
LEMMA WakeUpType ==
  ASSUME NEW s \in RSEntries, NEW C, \A q \in C : q.value \in Nat
  PROVE  WakeUp(s, C) \in RSEntries
  <1>1. ASSUME NEW p \in Ports PROVE Heard(s, p, C) \in Operands
    <2>1. s.src[p] \in Operands
      BY DEF RSEntries
    <2>2. CASE Cardinality(Wakes(s, p, C)) = 1
      <3>1. Wakes(s, p, C) # {}
        BY <2>2, FS_EmptySet
      <3>2. (CHOOSE q \in Wakes(s, p, C) : TRUE).value \in Nat
        BY <3>1 DEF Wakes
      <3>3. QED  BY <2>1, <2>2, <3>2 DEF Operands, Heard
    <2>3. CASE Cardinality(Wakes(s, p, C)) # 1
      BY <2>1, <2>3 DEF Heard
    <2>4. QED  BY <2>2, <2>3
  <1>2. WakeUp(s, C) = [busy |-> s.busy, rd_mem |-> s.rd_mem, op |-> s.op,
                        src |-> [p \in Ports |-> Heard(s, p, C)]]
    BY WakeUpFields
  <1>3. QED  BY <1>1, <1>2 DEF RSEntries

\* Listening leaves the instruction alone.
LEMMA WakeUpKeeps ==
  ASSUME NEW s \in RSEntries, NEW C
  PROVE  WakeUp(s, C).busy = s.busy /\ WakeUp(s, C).rd_mem = s.rd_mem /\ WakeUp(s, C).op = s.op
  BY WakeUpFields

\* The station after a clock edge: below place e the entries that stay, in order
\* and with the gaps closed, then the dispatched ones; all have heard the bus.
Split(e, cdb, free, prog) ==
  /\ \A i \in Places :
       /\ i < e => /\ From(i, free) \in Busy \ free
                   /\ rs'[i] = WakeUp(rs[From(i, free)], cdb_packets(cdb))
       /\ i >= e /\ i < e + Len(prog) =>
            /\ i - e + 1 \in 1 .. Len(prog)
            /\ rs'[i] = WakeUp(rs_dp(prog)[i - e + 1], cdb_packets(cdb))
       /\ rs'[i].busy <=> i < e + Len(prog)
       /\ rs'[i] \in RSEntries
       /\ rs'[i].busy => rs'[i].op \in Ops
  /\ \A j \in Busy \ free : \E i \in Places : i < e /\ From(i, free) = j
  /\ \A k \in 1 .. Len(prog) : e + k - 1 \in Places /\ (e + k - 1) - e + 1 = k

\* Such a place exists.
LEMMA StationAfter ==
  ASSUME CoreInv, NEW disable \in Disables, NEW cdb \in Finishing,
         NEW taken \in Mispredictions(cdb), NEW free \in Frees, NEW prog \in Programs,
         CoreCycle(disable, cdb, taken, free, prog)
  PROVE  \E e \in Nat : Split(e, cdb, free, prog)
  <1> DEFINE n == Len(prog)
             C == cdb_packets(cdb)
             N(i) == N_RS_entry(i, free, rs_dp(prog))
  <1>1. /\ ~halted /\ CoreTypes /\ StationInOrder /\ IInv
        /\ n <= slots_left(free) /\ n <= dp_available
        /\ rs' = [i \in Places |-> WakeUp(N(i), C)]
        /\ cdb \subseteq pending
    BY CoreCycleIsCycle DEF CoreInv, CoreCycle, RSEdge
  <1>2. rs \in [Places -> RSEntries] /\ \A i \in Places : rs[i].busy => rs[i].op \in Ops
    BY <1>1 DEF CoreTypes
  <1>3. PICK e \in Nat :
          /\ e + n <= RS_SIZE
          /\ \A i \in Places :
               /\ i < e => /\ From(i, free) \in Places /\ rs[From(i, free)].busy
                           /\ N(i) = rs[From(i, free)]
               /\ i >= e => ~(From(i, free) \in Places /\ rs[From(i, free)].busy)
               /\ i >= e /\ i < e + n => N(i) = rs_dp(prog)[i - e + 1]
               /\ i >= e + n => N(i) = UP_RS_entry(i, free) /\ ~UP_RS_entry(i, free).busy
    BY <1>1, <1>2, StationStep
  <1>4. n \in 0 .. 2
    BY ProgramFacts
  <1>5. \A q \in C : q.value \in Nat
    BY <1>1, PendingFacts DEF cdb_packets
  <1> HIDE DEF n, C, N
  <1>6. \A k \in 1 .. n : /\ rs_dp(prog)[k] \in RSEntries /\ rs_dp(prog)[k].busy
                          /\ rs_dp(prog)[k].op \in Ops
    BY <1>1, NewEntry DEF n
  <1>7. ASSUME NEW i \in Places
        PROVE  /\ N(i) \in RSEntries
               /\ N(i).busy <=> i < e + n
               /\ N(i).busy => N(i).op \in Ops
    <2>1. CASE i < e
      BY <2>1, <1>2, <1>3, <1>4 DEF Places
    <2>2. CASE i >= e /\ i < e + n
      <3>1. i - e + 1 \in 1 .. n
        BY <2>2, <1>4 DEF Places
      <3>2. N(i) = rs_dp(prog)[i - e + 1]
        BY <2>2, <1>3
      <3>3. QED  BY <2>2, <3>1, <3>2, <1>6
    <2>3. CASE i >= e + n
      <3>1. N(i) = UP_RS_entry(i, free) /\ ~N(i).busy
        BY <2>3, <1>3
      <3>2. UP_RS_entry(i, free) = IF From(i, free) \in Places
                                   THEN rs[From(i, free)] ELSE Noop
        BY DEF UP_RS_entry, From
      <3>3. Noop \in RSEntries
        BY RobAssumption DEF Noop, RSEntries, Operands, Slots
      <3>4. QED  BY <2>3, <3>1, <3>2, <3>3, <1>2, <1>4 DEF Places
    <2>4. QED  BY <2>1, <2>2, <2>3, <1>4 DEF Places
  <1>8. ASSUME NEW i \in Places
        PROVE  /\ rs'[i] = WakeUp(N(i), C) /\ rs'[i] \in RSEntries
               /\ rs'[i].busy <=> i < e + n
               /\ rs'[i].busy => rs'[i].op \in Ops
    <2>1. rs'[i] = WakeUp(N(i), C) /\ rs'[i] \in RSEntries
      BY <1>1, <1>5, <1>7, WakeUpType
    <2>2. rs'[i].busy = N(i).busy /\ rs'[i].op = N(i).op
      BY <2>1, <1>7, WakeUpKeeps
    <2>3. QED  BY <2>1, <2>2, <1>7
  <1>9. ASSUME NEW i \in Places
        PROVE  /\ i < e => /\ From(i, free) \in Busy \ free
                           /\ rs'[i] = WakeUp(rs[From(i, free)], C)
               /\ i >= e /\ i < e + n =>
                    /\ i - e + 1 \in 1 .. n
                    /\ rs'[i] = WakeUp(rs_dp(prog)[i - e + 1], C)
    <2>1. i >= e /\ i < e + n => i - e + 1 \in 1 .. n
      BY <1>4 DEF Places
    <2>2. From(i, free) \notin free
      BY Gaps
    <2>3. QED  BY <2>1, <2>2, <1>3, <1>8 DEF Busy
  <1>10. ASSUME NEW j \in Busy \ free
         PROVE  \E i \in Places : i < e /\ From(i, free) = j
    <2>1. j \in Places \ free /\ rs[j].busy
      BY DEF Busy
    <2>2. PICK i \in Places : From(i, free) = j
      BY <2>1, Gaps
    <2>3. i < e
      BY <2>1, <2>2, <1>3 DEF Places
    <2>4. QED  BY <2>2, <2>3
  <1>11. \A k \in 1 .. n : e + k - 1 \in Places /\ (e + k - 1) - e + 1 = k
    BY <1>3, <1>4, RSAssumption DEF Places
  <1>12. Split(e, cdb, free, prog)
    BY <1>8, <1>9, <1>10, <1>11 DEF n, C, Split
  <1>13. QED  BY <1>12

\* Issue, dispatch and the bus lose no instruction and double none.
LEMMA NoneLostStep ==
  ASSUME CoreInv, NEW disable \in Disables, NEW cdb \in Finishing,
         NEW taken \in Mispredictions(cdb), NEW free \in Frees, NEW prog \in Programs,
         CoreCycle(disable, cdb, taken, free, prog)
  PROVE  NoneLost'
  <1> DEFINE n == Len(prog)
             item(i) == [tag |-> rs[i].op.tag, insn |-> rs[i].op.insn]
             entered(k) == [tag |-> TailSlot(k), insn |-> [id |-> next + k - 1, kind |-> prog[k].kind]]
  <1>1. /\ ~halted /\ CoreTypes /\ StationInOrder /\ IInv /\ NoneLost
        /\ cdb \subseteq executing /\ executing \subseteq pending
        /\ pending' = (pending \ cdb) \cup Entered(prog)
        /\ executing' = (executing \ cdb) \cup Issued(free)
        /\ n <= dp_available
    BY CoreCycleIsCycle DEF CoreInv, CoreCycle
  <1>2. /\ \A i \in Busy : /\ rs[i] \in RSEntries /\ rs[i].op \in Ops
                           /\ item(i) \in pending \ executing
                           /\ rs[i].op.insn.id < next /\ rs[i].op.insn.id \in Nat
        /\ \A i, j \in Busy : rs[i].op.insn.id = rs[j].op.insn.id => i = j
    BY <1>1, StationFacts
  <1>3. free \subseteq Busy
    BY DEF Frees, ready, Busy
  <1>4. PICK e \in Nat : Split(e, cdb, free, prog)
    BY StationAfter
  <1>5. n \in 0 .. 2 /\ next \in Nat
    BY <1>1, ProgramFacts DEF IInv, TypeOK
  <1>6. \A k \in 1 .. n : /\ rs_dp(prog)[k] \in RSEntries
                          /\ [tag |-> rs_dp(prog)[k].op.tag, insn |-> rs_dp(prog)[k].op.insn]
                               = entered(k)
                          /\ entered(k).insn.id >= next
    <2> SUFFICES ASSUME NEW k \in 1 .. n
                 PROVE  /\ rs_dp(prog)[k] \in RSEntries
                        /\ [tag |-> rs_dp(prog)[k].op.tag, insn |-> rs_dp(prog)[k].op.insn]
                             = entered(k)
                        /\ entered(k).insn.id >= next
      OBVIOUS
    <2>1. entered(k).insn.id >= next
      BY <1>5
    <2>2. /\ rs_dp(prog)[k] \in RSEntries
          /\ rs_dp(prog)[k].op.tag = TailSlot(k)
          /\ rs_dp(prog)[k].op.insn = [id |-> next + k - 1, kind |-> prog[k].kind]
      BY <1>1, NewEntry
    <2>3. QED  BY <2>1, <2>2
  <1>7. Issued(free) = {item(i) : i \in free} /\ Issued(Busy) = {item(i) : i \in Busy}
    BY DEF Issued
  <1> DEFINE stay == {item(j) : j \in Busy \ free}
             come == {entered(k) : k \in 1 .. n}
  <1>8. Issued(Busy)' = stay \cup come
    <2> DEFINE item2(i) == [tag |-> rs'[i].op.tag, insn |-> rs'[i].op.insn]
    <2>1. Issued(Busy)' = {item2(i) : i \in {j \in Places : rs'[j].busy}}
      BY DEF Issued, Busy
    <2>2. ASSUME NEW i \in Places, i < e
          PROVE  item2(i) = item(From(i, free)) /\ From(i, free) \in Busy \ free
      <3>1. /\ From(i, free) \in Busy \ free
            /\ rs'[i] = WakeUp(rs[From(i, free)], cdb_packets(cdb))
        BY <2>2, <1>4 DEF Split
      <3>2. rs'[i].op = rs[From(i, free)].op
        <4>1. rs[From(i, free)] \in RSEntries
          BY <3>1, <1>2
        <4>2. QED  BY <3>1, <4>1, WakeUpKeeps
      <3>3. QED  BY <3>1, <3>2
    <2>3. ASSUME NEW i \in Places, i >= e, i < e + n
          PROVE  item2(i) = entered(i - e + 1) /\ i - e + 1 \in 1 .. n
      <3>1. /\ i - e + 1 \in 1 .. n
            /\ rs'[i] = WakeUp(rs_dp(prog)[i - e + 1], cdb_packets(cdb))
        BY <2>3, <1>4 DEF Split
      <3>2. rs'[i].op = rs_dp(prog)[i - e + 1].op
        <4>1. rs_dp(prog)[i - e + 1] \in RSEntries
          BY <3>1, <1>6
        <4>2. QED  BY <3>1, <4>1, WakeUpKeeps
      <3>3. QED  BY <3>1, <3>2, <1>6
    <2> HIDE DEF item, entered, item2
    <2>4. ASSUME NEW i \in Places, rs'[i].busy PROVE item2(i) \in stay \cup come
      <3>1. i < e \/ (i >= e /\ i < e + n)
        BY <2>4, <1>4, <1>5 DEF Places, Split
      <3>2. QED  BY <3>1, <2>2, <2>3
    <2>5. ASSUME NEW j \in Busy \ free
          PROVE  \E i \in Places : rs'[i].busy /\ item2(i) = item(j)
      <3>1. PICK i \in Places : i < e /\ From(i, free) = j
        BY <1>4 DEF Split
      <3>2. rs'[i].busy
        BY <3>1, <1>4, <1>5 DEF Places, Split
      <3>3. QED  BY <3>1, <3>2, <2>2
    <2>6. ASSUME NEW k \in 1 .. n
          PROVE  \E i \in Places : rs'[i].busy /\ item2(i) = entered(k)
      <3>1. e + k - 1 \in Places /\ (e + k - 1) - e + 1 = k
        BY <1>4 DEF Split
      <3>2. e + k - 1 >= e /\ e + k - 1 < e + n
        BY <1>5
      <3>3. rs'[e + k - 1].busy /\ item2(e + k - 1) = entered(k)
        BY <3>1, <3>2, <1>4, <2>3 DEF Split
      <3>4. QED  BY <3>1, <3>3
    <2>7. Issued(Busy)' \subseteq stay \cup come
      BY <2>1, <2>4
    <2>8. stay \subseteq Issued(Busy)'
      BY <2>1, <2>5
    <2>9. come \subseteq Issued(Busy)'
      BY <2>1, <2>6
    <2>10. QED  BY <2>7, <2>8, <2>9
  <1>9. \A x \in come : x \notin pending
    <2>1. \A x \in pending : x.insn.id < next /\ x.insn.id \in Nat
      BY <1>1, PendingFacts
    <2>2. QED  BY <2>1, <1>5, <1>6
  <1>10. \A x \in stay : x \notin Issued(free) /\ x \in pending \ executing
    <2>1. ASSUME NEW i \in free, NEW j \in Busy \ free PROVE item(i) # item(j)
      <3>1. i \in Busy /\ i # j
        BY <1>3
      <3>2. rs[i].op.insn.id # rs[j].op.insn.id
        BY <3>1, <1>2
      <3>3. QED  BY <3>2
    <2>2. QED  BY <2>1, <1>2, <1>7
  <1>11. \A x \in Issued(free) : x \in pending \ executing
    BY <1>2, <1>3, <1>7
  <1>12. Issued(Busy) = stay \cup Issued(free)
    BY <1>3, <1>7
  <1> HIDE DEF stay, come
  <1>13. pending = executing \cup Issued(Busy)
    BY <1>1 DEF NoneLost
  <1>14. pending' = executing' \cup Issued(Busy)'
    <2>1. pending' = (pending \ cdb) \cup come
      BY <1>1 DEF come, Entered
    <2>2. QED  BY <2>1, <1>1, <1>8, <1>10, <1>11, <1>12, <1>13
  <1>15. executing' \cap Issued(Busy)' = {}
    BY <1>1, <1>8, <1>9, <1>10, <1>11
  <1>16. QED  BY <1>14, <1>15 DEF NoneLost

\* The station stays packed and in program order.
LEMMA StationInOrderStep ==
  ASSUME CoreInv, NEW disable \in Disables, NEW cdb \in Finishing,
         NEW taken \in Mispredictions(cdb), NEW free \in Frees, NEW prog \in Programs,
         CoreCycle(disable, cdb, taken, free, prog)
  PROVE  StationInOrder'
  <1> DEFINE n == Len(prog)
  <1>1. /\ ~halted /\ CoreTypes /\ StationInOrder /\ IInv /\ NoneLost
        /\ n <= dp_available /\ n \in 0 .. 2 /\ next \in Nat
    BY CoreCycleIsCycle, ProgramFacts DEF CoreInv, IInv, TypeOK
  <1>2. PICK e \in Nat : Split(e, cdb, free, prog)
    BY StationAfter
  <1>3. ASSUME NEW i \in Places, i < e
        PROVE  /\ From(i, free) \in Busy /\ rs'[i].op = rs[From(i, free)].op
               /\ rs[From(i, free)].op.insn.id < next
               /\ rs[From(i, free)].op.insn.id \in Nat
    <2>1. /\ From(i, free) \in Busy
          /\ rs'[i] = WakeUp(rs[From(i, free)], cdb_packets(cdb))
      BY <1>2, <1>3 DEF Split
    <2>2. /\ rs[From(i, free)] \in RSEntries
          /\ rs[From(i, free)].op.insn.id < next /\ rs[From(i, free)].op.insn.id \in Nat
      BY <1>1, <2>1, StationFacts
    <2>3. QED  BY <2>1, <2>2, WakeUpKeeps
  <1> HIDE DEF n
  <1>4. ASSUME NEW i \in Places, i >= e, i < e + n
        PROVE  rs'[i].op.insn.id = next + (i - e)
    <2>1. /\ i - e + 1 \in 1 .. n
          /\ rs'[i] = WakeUp(rs_dp(prog)[i - e + 1], cdb_packets(cdb))
      BY <1>2, <1>4 DEF Split, n
    <2>2. /\ rs_dp(prog)[i - e + 1] \in RSEntries
          /\ rs_dp(prog)[i - e + 1].op.insn =
               [id |-> next + (i - e + 1) - 1, kind |-> prog[i - e + 1].kind]
      BY <1>1, <2>1, NewEntry DEF n
    <2>3. rs'[i].op = rs_dp(prog)[i - e + 1].op
      BY <2>1, <2>2, WakeUpKeeps
    <2>4. next + (i - e + 1) - 1 = next + (i - e)
      BY <1>1 DEF Places
    <2>5. QED  BY <2>2, <2>3, <2>4
  <1>5. ASSUME NEW i \in Places, NEW j \in Places, i < j, rs'[j].busy
        PROVE  rs'[i].busy /\ rs'[i].op.insn.id < rs'[j].op.insn.id
    <2>1. i < e + n /\ j < e + n /\ rs'[i].busy
      BY <1>1, <1>2, <1>5 DEF Places, Split, n
    <2>2. CASE j < e
      <3>1. i < e
        BY <2>2, <1>5 DEF Places
      <3>2. From(i, free) < From(j, free)
        BY <1>5, Gaps
      <3>3. From(i, free) \in Busy /\ From(j, free) \in Busy
        BY <3>1, <2>2, <1>3
      <3>4. rs[From(i, free)].op.insn.id < rs[From(j, free)].op.insn.id
        BY <3>2, <3>3, <1>1 DEF StationInOrder, Busy
      <3>5. QED  BY <3>1, <3>4, <2>1, <2>2, <1>3
    <2>3. CASE j >= e
      <3>1. rs'[j].op.insn.id = next + (j - e)
        BY <2>1, <2>3, <1>4
      <3>2. CASE i < e
        BY <3>1, <3>2, <2>1, <2>3, <1>1, <1>3 DEF Places
      <3>3. CASE i >= e
        <4>1. rs'[i].op.insn.id = next + (i - e)
          BY <3>3, <2>1, <1>4
        <4>2. QED  BY <4>1, <3>1, <2>1, <1>1, <1>5 DEF Places
      <3>4. QED  BY <3>2, <3>3 DEF Places
    <2>4. QED  BY <2>2, <2>3 DEF Places
  <1>6. QED  BY <1>5 DEF StationInOrder

\* Operand o has the result w, or waits for it, or for an instruction that is not
\* on its way to the bus yet.
Promised(o, w) ==
  IF o.waits
  THEN \/ \E q \in pending : q.tag = o.tag /\ q.insn.id = w
       \/ \A q \in pending : q.tag # o.tag
  ELSE o.value = w

\* Once it has listened, it has the result or waits for what is still to come.
Listened(s, p, w, cdb) ==
  /\ ~Heard(s, p, cdb_packets(cdb)).waits => Heard(s, p, cdb_packets(cdb)).value = w
  /\ Heard(s, p, cdb_packets(cdb)).waits =>
       \/ \E q \in pending \ cdb :
            q.tag = Heard(s, p, cdb_packets(cdb)).tag /\ q.insn.id = w
       \/ /\ s.src[p].waits /\ Heard(s, p, cdb_packets(cdb)) = s.src[p]
          /\ \A q \in pending : q.tag # s.src[p].tag

\* An operand that listens to the bus for the right result gets it, in the very
\* cycle in which it passes.
LEMMA Hears ==
  ASSUME IInv, ~halted, NEW cdb \in SUBSET pending,
         NEW s \in RSEntries, NEW p \in Ports, NEW w, Promised(s.src[p], w)
  PROVE  Listened(s, p, w, cdb)
  <1> DEFINE C == cdb_packets(cdb)
             o == Heard(s, p, C)
             W == Wakes(s, p, C)
             heard == [s.src[p] EXCEPT !.waits = FALSE,
                                       !.value = (CHOOSE q \in W : TRUE).value]
  <1>1. o = IF Cardinality(W) = 1 THEN heard ELSE s.src[p]
    BY DEF Heard
  <1>2. \A x : x \in W <=> /\ s.src[p].waits
                           /\ \E q \in cdb : /\ x = [tag |-> q.tag, value |-> q.insn.id]
                                             /\ q.tag = s.src[p].tag
    BY DEF Wakes, cdb_packets
  <1>3. s.src[p] \in Operands
    BY DEF RSEntries
  <1>4. \A q, q2 \in pending : q.tag = q2.tag => q = q2
    BY PendingFacts
  <1>0. IF s.src[p].waits
        THEN \/ \E q \in pending : q.tag = s.src[p].tag /\ q.insn.id = w
             \/ \A q \in pending : q.tag # s.src[p].tag
        ELSE s.src[p].value = w
    BY DEF Promised
  <1> HIDE DEF W, C
  <1>5. W = {} => o = s.src[p]
    BY <1>1, FS_EmptySet
  <1>6. CASE ~s.src[p].waits
    <2>1. W = {}
      BY <1>2, <1>6
    <2>2. QED  BY <2>1, <1>0, <1>5, <1>6 DEF C, Listened
  <1>7. CASE s.src[p].waits /\ \A q \in pending : q.tag # s.src[p].tag
    <2>1. W = {}
      BY <1>2, <1>7
    <2>2. QED  BY <2>1, <1>5, <1>7 DEF C, Listened
  <1>8. ASSUME s.src[p].waits, NEW q \in pending, q.tag = s.src[p].tag, q.insn.id = w
        PROVE  /\ ~o.waits => o.value = w
               /\ o.waits => \E q2 \in pending \ cdb : q2.tag = o.tag /\ q2.insn.id = w
    <2>1. CASE q \in cdb
      <3>1. \A x : x \in W <=> x = [tag |-> q.tag, value |-> q.insn.id]
        BY <2>1, <1>2, <1>4, <1>8
      <3>2. W = {[tag |-> q.tag, value |-> q.insn.id]}
        BY <3>1
      <3>3. Cardinality(W) = 1
        BY <3>2, FS_Singleton
      <3>4. (CHOOSE x \in W : TRUE).value = w
        <4>1. \A x \in W : x.value = w
          BY <3>2, <1>8
        <4>2. (CHOOSE x \in W : TRUE) \in W
          BY <3>2
        <4>3. QED  BY <4>1, <4>2
      <3>5. ~heard.waits /\ heard.value = w
        BY <3>4, <1>3 DEF Operands
      <3>6. QED  BY <3>3, <3>5, <1>1
    <2>2. CASE q \notin cdb
      <3>1. W = {}
        BY <2>2, <1>2, <1>4, <1>8
      <3>2. QED  BY <3>1, <2>2, <1>5, <1>8
    <2>3. QED  BY <2>1, <2>2
  <1>9. QED  BY <1>0, <1>6, <1>7, <1>8 DEF C, Listened

\* Every operand keeps its promise.
LEMMA OperandsStep ==
  ASSUME CoreInv, NEW disable \in Disables, NEW cdb \in Finishing,
         NEW taken \in Mispredictions(cdb), NEW free \in Frees, NEW prog \in Programs,
         CoreCycle(disable, cdb, taken, free, prog)
  PROVE  OperandsCorrect'
  <1> DEFINE n == Len(prog)
             C == cdb_packets(cdb)
  <1>1. /\ ~halted /\ CoreTypes /\ StationInOrder /\ IInv /\ NoneLost /\ OperandsCorrect
        /\ n <= dp_available /\ n \in 0 .. 2 /\ next \in Nat
        /\ cdb \subseteq pending
    BY CoreCycleIsCycle, ProgramFacts DEF CoreInv, IInv, TypeOK
  <1>8. pending' = (pending \ cdb) \cup Entered(prog)
    BY CoreCycleIsCycle
  <1>2. PICK e \in Nat : Split(e, cdb, free, prog)
    BY StationAfter
  <1> SUFFICES ASSUME NEW i \in Places, rs'[i].busy, NEW p \in Ports
               PROVE  IF rs'[i].src[p].waits
                      THEN \E q \in pending' : /\ q.tag = rs'[i].src[p].tag
                                               /\ q.insn.id = rs'[i].op.wanted[p]
                      ELSE rs'[i].src[p].value = rs'[i].op.wanted[p]
    BY DEF OperandsCorrect, Busy
  <1> HIDE DEF n, C
  <1>3. ASSUME NEW s \in RSEntries, rs'[i] = WakeUp(s, C),
               ~s.src[p].waits => s.src[p].value = s.op.wanted[p],
               s.src[p].waits =>
                 \/ \E q \in pending : q.tag = s.src[p].tag /\ q.insn.id = s.op.wanted[p]
                 \/ /\ n = 2 /\ s.src[p].tag = TailSlot(1) /\ s.op.wanted[p] = next
                    /\ \A q \in pending : q.tag # s.src[p].tag
        PROVE  IF rs'[i].src[p].waits
               THEN \E q \in pending' : /\ q.tag = rs'[i].src[p].tag
                                        /\ q.insn.id = rs'[i].op.wanted[p]
               ELSE rs'[i].src[p].value = rs'[i].op.wanted[p]
    <2> DEFINE w == s.op.wanted[p]
               o == Heard(s, p, C)
    <2>1. rs'[i].op = s.op /\ rs'[i].src[p] = o
      BY <1>3, WakeUpFields
    <2>2. /\ ~o.waits => o.value = w
          /\ o.waits => \/ \E q \in pending \ cdb : q.tag = o.tag /\ q.insn.id = w
                        \/ /\ s.src[p].waits /\ o = s.src[p]
                           /\ \A q \in pending : q.tag # s.src[p].tag
      <3>1. IInv /\ ~halted /\ cdb \in SUBSET pending
        BY <1>1
      <3>2. Promised(s.src[p], w)
        BY <1>3 DEF Promised
      <3> HIDE DEF w
      <3>3. Listened(s, p, w, cdb)
        BY <3>1, <3>2, Hears
      <3>4. QED  BY <3>3 DEF C, o, Listened
    <2> HIDE DEF w, o
    <2>3. ASSUME s.src[p].waits, o = s.src[p], \A q \in pending : q.tag # s.src[p].tag
          PROVE  \E q \in pending' : q.tag = o.tag /\ q.insn.id = w
      <3>1. n = 2 /\ o.tag = TailSlot(1) /\ w = next
        BY <1>3, <2>3 DEF w
      <3>2. [tag |-> TailSlot(1), insn |-> [id |-> next + 1 - 1, kind |-> prog[1].kind]] \in pending'
        BY <3>1, <1>8 DEF Entered, n
      <3>3. next + 1 - 1 = next
        BY <1>1
      <3>4. QED  BY <3>1, <3>2, <3>3
    <2>4. o.waits => \E q \in pending' : q.tag = o.tag /\ q.insn.id = w
      BY <2>2, <2>3, <1>8
    <2>5. QED  BY <2>1, <2>2, <2>4 DEF w
  <1>6. i < e + n
    BY <1>2 DEF Split, n
  <1>4. CASE i < e
    <2>1. From(i, free) \in Busy /\ rs'[i] = WakeUp(rs[From(i, free)], C)
      BY <1>2, <1>4 DEF Split, C
    <2>2. rs[From(i, free)] \in RSEntries
      BY <1>1, <2>1, StationFacts
    <2>3. IF rs[From(i, free)].src[p].waits
          THEN \E q \in pending : /\ q.tag = rs[From(i, free)].src[p].tag
                                  /\ q.insn.id = rs[From(i, free)].op.wanted[p]
          ELSE rs[From(i, free)].src[p].value = rs[From(i, free)].op.wanted[p]
      BY <1>1, <2>1 DEF OperandsCorrect
    <2>4. QED  BY <2>1, <2>2, <2>3, <1>3
  <1>5. CASE i >= e
    <2> DEFINE k == i - e + 1
    <2>1. k \in 1 .. n /\ rs'[i] = WakeUp(rs_dp(prog)[k], C)
      BY <1>2, <1>5, <1>6 DEF Split, C, n
    <2> HIDE DEF k
    <2>2. /\ rs_dp(prog)[k] \in RSEntries
          /\ rs_dp(prog)[k].op.wanted[p] = Wanted(k, prog[k].src[p], prog)
          /\ rs_dp(prog)[k].src[p] = Captured(k, prog[k].src[p], prog)
      BY <1>1, <2>1, NewEntry DEF n
    <2>3. prog[k].src[p] \in Regs
      BY <2>1, ProgramFacts DEF n
    <2>4. \A q \in pending : n = 2 => q.tag # TailSlot(1)
      <3>1. n = 2 => /\ TailSlot(1) \in Slots /\ Off(TailSlot(1)) = Count + 1 - 1
        <4>1. n = 2 => 1 \in 1 .. Len(prog)
          BY DEF n
        <4>2. QED  BY <1>1, <4>1, TailSlots DEF n
      <3>2. Count \in Nat
        BY <1>1 DEF IInv, Running
      <3>3. QED  BY <1>1, <3>1, <3>2, PendingFacts
    <2>5. k = 2 => n = 2
      BY <2>1, <1>1
    <2>6. LET c == Captured(k, prog[k].src[p], prog)
              w == Wanted(k, prog[k].src[p], prog)
          IN /\ ~c.waits => c.value = w
             /\ c.waits => \/ \E q \in pending : q.tag = c.tag /\ q.insn.id = w
                           \/ k = 2 /\ c.tag = TailSlot(1) /\ w = next
      BY <1>1, <2>1, <2>3, CapturedFacts DEF n
    <2>7. QED  BY <2>1, <2>2, <2>4, <2>5, <2>6, <1>3
  <1>7. QED  BY <1>4, <1>5, <1>1 DEF Places

-----------------------------------------------------------------------------
(* A clock edge without a squash and without a WFI: the reorder buffer, the *)
(* map table and the register file.                                         *)

\* The slot keeps its instruction.
Kept(i, disable, cdb, taken) ==
  /\ retire_count(disable) <= Off(i) /\ Off(i) < Count
  /\ Off(i)' < Count' /\ oldest' + Off(i)' = oldest + Off(i)
  /\ reg_idx'[i] = reg_idx[i]
  /\ rob'[i] = AfterCDB(i, disable, cdb, taken)

\* The slot takes the k-th instruction dispatched.
Filled(i, k, prog) ==
  /\ i = TailSlot(k)
  /\ Off(i)' < Count' /\ oldest' + Off(i)' = next + k - 1
  /\ reg_idx'[i] = prog[k].dest
  /\ rob'[i].insn.kind = prog[k].kind

\* The occupied slots after the edge are those whose instruction does not
\* retire and those dispatch fills.
LEMMA SlotStep ==
  ASSUME CoreInv, NEW disable \in Disables, NEW cdb \in Finishing,
         NEW taken \in Mispredictions(cdb), NEW free \in Frees, NEW prog \in Programs,
         CoreCycle(disable, cdb, taken, free, prog), ~halted'
  PROVE  /\ retire_count(disable) \in 0 .. 2 /\ retire_count(disable) <= Count
         /\ completed_insts(disable) = retire_count(disable)
         /\ oldest' = oldest + retire_count(disable)
         /\ \A i \in Slots : Off(i)' < Count' =>
              \/ Kept(i, disable, cdb, taken)
              \/ \E k \in 1 .. Len(prog) : Filled(i, k, prog)
         /\ \A i \in Slots : retire_count(disable) <= Off(i) /\ Off(i) < Count =>
              Kept(i, disable, cdb, taken)
         /\ \A k \in 1 .. Len(prog) : \E i \in Slots : Filled(i, k, prog)
  <1> DEFINE r == retire_count(disable)
             n == Len(prog)
             kinds == [k \in 0 .. Len(prog) - 1 |-> prog[k + 1].kind]
             a(i) == AfterCDB(i, disable, cdb, taken)
  <1> USE RobAssumption
  <1>1. /\ ~halted /\ IInv /\ TypeOK /\ Running /\ cdb \in Broadcasts /\ n <= dp_available
        /\ Cycle(disable, cdb, taken, n, kinds)
        /\ n \in 0 .. 2 /\ DOMAIN prog = 1 .. n
        /\ reg_idx' = [i \in Slots |->
                        IF \E k \in DOMAIN prog : i = TailSlot(k)
                        THEN prog[CHOOSE k \in DOMAIN prog : i = TailSlot(k)].dest
                        ELSE reg_idx[i]]
    BY CoreCycleIsCycle, ProgramFacts DEF CoreCycle, IInv
  <1>2. /\ ~squash_signal(disable) /\ ~wfi_retires(disable)
        /\ head' = Plus(head, r)
        /\ rob' = rob_n(disable, cdb, taken, n, kinds)
        /\ next' = next + n /\ oldest' = oldest + completed_insts(disable)
    BY <1>1 DEF Cycle
  <1>3. /\ head \in Ptrs /\ tail \in Ptrs /\ Count \in 0 .. ROB_SIZE /\ tail = Plus(head, Count)
        /\ next \in Nat /\ oldest \in Nat /\ next = oldest + Count
        /\ rob \in [Slots -> Entries]
    BY <1>1 DEF TypeOK, Running, Count
  <1>4. /\ Nth(0) \in Slots /\ Nth(1) \in Slots
        /\ Off(Nth(0)) = 0 /\ Off(Nth(1)) = 1
        /\ \A i \in Slots : Off(i) \in 0 .. ROB_SIZE - 1
        /\ \A i, j \in Slots : Off(i) = Off(j) => i = j
    BY <1>3, Offsets
  <1>5. /\ r \in 0 .. 2 /\ completed_insts(disable) = r
        /\ r >= 1 => rob[Nth(0)].cp_bit
        /\ r = 2 => rob[Nth(1)].cp_bit
    BY <1>2, <1>3, <1>4, RetireAgrees DEF E0, E1
  <1>6. r <= Count
    <2>1. SlotInv(Nth(0)) /\ SlotInv(Nth(1))
      BY <1>1, <1>4 DEF Running
    <2>2. QED  BY <2>1, <1>3, <1>4, <1>5 DEF SlotInv
  <1>7. /\ Count + n <= ROB_SIZE
        /\ \A k \in 1 .. n : TailSlot(k) \in Slots /\ Off(TailSlot(k)) = Count + k - 1
        /\ \A j, k \in 1 .. n : TailSlot(j) = TailSlot(k) => j = k
    BY <1>1, TailSlots
  <1>8. Count' = Count - r + n
    BY <1>2, <1>3, <1>5 DEF Count
  <1>9. \A i \in Slots : Off(i)' = IF Off(i) >= r THEN Off(i) - r ELSE Off(i) - r + ROB_SIZE
    BY <1>2, <1>3, <1>5, OffsetsMove
  <1>10. /\ n >= 1 => Idx(tail) = TailSlot(1)
         /\ n = 2 => Idx(Plus(tail, 1)) = TailSlot(2)
    BY <1>3 DEF TailSlot, Plus, Ptrs
  <1>11. ASSUME NEW i \in Slots
         PROVE  /\ a(i) \in Entries
                /\ rob'[i] = IF n >= 1 /\ i = Idx(tail)
                             THEN [a(i) EXCEPT !.insn = Offered(0, kinds)]
                             ELSE IF n = 2 /\ i = Idx(Plus(tail, 1))
                             THEN [a(i) EXCEPT !.insn = Offered(1, kinds)]
                             ELSE a(i)
    BY <1>1, <1>2, AfterCDBType DEF rob_n
  <1>12. \A k \in 1 .. n : Offered(k - 1, kinds).kind = prog[k].kind
    <2>1. \A k \in 1 .. n : kinds[k - 1] = prog[k].kind
      BY <1>1
    <2>2. QED  BY <2>1 DEF Offered
  <1> HIDE DEF r, a, n, kinds
  <1>13. ASSUME NEW k \in 1 .. n, NEW i \in Slots, i = TailSlot(k)
         PROVE  Filled(i, k, prog)
    <2>1. Off(i) = Count + k - 1 /\ k \in 1 .. 2
      BY <1>13, <1>7, <1>1
    <2>2. Off(i)' = Count + k - 1 - r
      BY <2>1, <1>3, <1>5, <1>6, <1>9
    <2>3. Off(i)' < Count' /\ oldest' + Off(i)' = next + k - 1
      BY <2>1, <2>2, <1>1, <1>2, <1>3, <1>5, <1>8
    <2>4. reg_idx'[i] = prog[k].dest
      <3>1. (CHOOSE j \in DOMAIN prog : i = TailSlot(j)) = k
        BY <1>1, <1>7, <1>13
      <3>2. \E j \in DOMAIN prog : i = TailSlot(j)
        BY <1>1, <1>13
      <3>3. QED  BY <3>1, <3>2, <1>1
    <2>5. rob'[i].insn.kind = prog[k].kind
      <3>1. CASE k = 1
        <4>0. n >= 1
          BY <3>1, <1>1
        <4>1. rob'[i] = [a(i) EXCEPT !.insn = Offered(0, kinds)] /\ a(i) \in Entries
          BY <4>0, <3>1, <1>13, <1>10, <1>11
        <4>2. Offered(0, kinds).kind = prog[1].kind
          BY <3>1, <1>12
        <4>3. QED  BY <4>1, <4>2, <3>1, WriteInsn
      <3>2. CASE k = 2
        <4>1. n = 2 /\ 1 \in 1 .. n
          BY <3>2, <1>1
        <4>2. i # TailSlot(1)
          BY <4>1, <3>2, <1>13, <1>7
        <4>3. rob'[i] = [a(i) EXCEPT !.insn = Offered(1, kinds)] /\ a(i) \in Entries
          BY <3>2, <4>1, <4>2, <1>13, <1>10, <1>11
        <4>4. Offered(1, kinds).kind = prog[2].kind
          BY <3>2, <1>12
        <4>5. QED  BY <4>3, <4>4, <3>2, WriteInsn
      <3>3. QED  BY <3>1, <3>2, <2>1
    <2>6. QED  BY <2>3, <2>4, <2>5, <1>13 DEF Filled
  <1>14. ASSUME NEW i \in Slots, r <= Off(i), Off(i) < Count
         PROVE  Kept(i, disable, cdb, taken)
    <2>1. Off(i)' < Count' /\ oldest' + Off(i)' = oldest + Off(i)
      <3>1. Off(i)' = Off(i) - r /\ Off(i) \in 0 .. ROB_SIZE - 1
        BY <1>14, <1>4, <1>9
      <3>2. oldest' = oldest + r /\ Count' = Count - r + n
        BY <1>2, <1>5, <1>8
      <3>3. r \in 0 .. 2 /\ n \in 0 .. 2 /\ oldest \in Nat /\ Count \in 0 .. ROB_SIZE
        BY <1>1, <1>3, <1>5
      <3>4. QED  BY <3>1, <3>2, <3>3, <1>14
    <2>2. \A k \in 1 .. n : i # TailSlot(k)
      BY <1>14, <1>3, <1>4, <1>7
    <2>3. reg_idx'[i] = reg_idx[i]
      BY <2>2, <1>1
    <2>4. rob'[i] = a(i)
      <3>1. n >= 1 => 1 \in 1 .. n
        BY <1>1
      <3>2. n = 2 => 2 \in 1 .. n
        BY <1>1
      <3>3. (n >= 1 => i # Idx(tail)) /\ (n = 2 => i # Idx(Plus(tail, 1)))
        BY <3>1, <3>2, <2>2, <1>10
      <3>4. QED  BY <3>3, <1>11
    <2>5. QED  BY <1>14, <2>1, <2>3, <2>4 DEF Kept, r, a
  <1>15. ASSUME NEW i \in Slots, Off(i)' < Count'
         PROVE  \/ Kept(i, disable, cdb, taken)
                \/ \E k \in 1 .. n : Filled(i, k, prog)
    <2>1. Off(i) \in 0 .. ROB_SIZE - 1
      BY <1>4
    <2>2. Off(i) >= r /\ Off(i) < Count + n
      <3>1. Off(i)' = IF Off(i) >= r THEN Off(i) - r ELSE Off(i) - r + ROB_SIZE
        BY <1>9
      <3>2. Off(i)' < Count - r + n
        BY <1>8, <1>15
      <3>3. /\ r \in 0 .. 2 /\ n \in 0 .. 2 /\ Count \in 0 .. ROB_SIZE
            /\ Count + n <= ROB_SIZE
        BY <1>1, <1>3, <1>5, <1>7
      <3>4. QED  BY <3>1, <3>2, <3>3, <2>1
    <2>3. CASE Off(i) < Count
      BY <2>2, <2>3, <1>14
    <2>4. CASE Off(i) >= Count
      <3>1. PICK k \in 1 .. n : Off(i) = Count + k - 1
        <4>1. Off(i) - Count + 1 \in 1 .. n /\ Off(i) = Count + (Off(i) - Count + 1) - 1
          BY <2>1, <2>2, <2>4, <1>1, <1>3
        <4>2. QED  BY <4>1
      <3>2. i = TailSlot(k)
        BY <3>1, <1>4, <1>7
      <3>3. QED  BY <3>2, <1>13
    <2>5. QED  BY <2>1, <2>3, <2>4, <1>3
  <1>16. ASSUME NEW k \in 1 .. n PROVE \E i \in Slots : Filled(i, k, prog)
    <2>1. PICK i \in Slots : i = TailSlot(k)
      BY <1>7
    <2>2. QED  BY <2>1, <1>13
  <1>17. QED  BY <1>2, <1>5, <1>6, <1>14, <1>15, <1>16 DEF r, n

\* The register file after the edge holds what a read in the cycle returns: the
\* two write ports never keep each other from a write that counts.
LEMMA RegStep ==
  ASSUME CoreInv, ~halted, RegEdge(rt_packet), NEW r \in Regs
  PROVE  registers'[r] = RegRead(r, rt_packet) /\ registers'[r] \in Nat
  <1>1. /\ IInv /\ CoreTypes /\ NoDestination
    BY DEF CoreInv, Flying
  <1>2. /\ E0 \in Entries /\ E1 \in Entries
        /\ E0.cp_bit => /\ E0.halt = (E0.insn.kind = "halt")
                        /\ E0.insn.kind \in {"store", "halt"} => reg_idx[Nth(0)] = Zero
    BY <1>1, HeadFacts
  <1>3. E0.res.id \in Nat /\ E1.res.id \in Nat /\ registers[r] \in Nat
    BY <1>1, <1>2 DEF Entries, Insns, CoreTypes
  <1>4. rt1_reg = r /\ r # Zero /\ ~rt_valid1 => E0.halt /\ E0.cp_bit
    BY <1>2 DEF rt1_reg, rt_valid1, Entries
  <1>5. E0.cp_bit /\ E0.halt => reg_idx[Nth(0)] = Zero
    <2>1. E0.cp_bit /\ E0.halt => E0.insn.kind = "halt"
      BY <1>2, Zenon
    <2>2. QED  BY <2>1, <1>2
  <1>6. registers'[r] = RegRead(r, rt_packet)
    <2>1. registers'[r] =
            IF r = Zero THEN 0
            ELSE IF rt_packet[1].valid /\ rt_packet[1].retire_reg = r THEN rt_packet[1].value
            ELSE IF rt_packet[0].valid /\ true_wr_idx_0(rt_packet) = r THEN rt_packet[0].value
            ELSE registers[r]
      BY DEF RegEdge
    <2>2. QED  BY <2>1, <1>4, <1>5, PacketFacts DEF RegRead, true_wr_idx_0
  <1>7. RegRead(r, rt_packet) \in Nat
    BY <1>3, PacketFacts DEF RegRead
  <1>8. QED  BY <1>6, <1>7

\* The youngest writer of a register among the instructions dispatched.
LEMMA YoungestDispatched ==
  ASSUME NEW prog \in Programs, NEW r \in Regs
  PROVE  /\ (\E k \in 1 .. Len(prog) : prog[k].dest = r) =>
              \E k \in 1 .. Len(prog) :
                /\ prog[k].dest = r
                /\ \A j \in 1 .. Len(prog) : prog[j].dest = r => j <= k
                /\ Written(r, mt_dp(prog)) = TailSlot(k)
                /\ r # Zero => Renamed(prog)[r] = next + k - 1
         /\ (\A k \in 1 .. Len(prog) : prog[k].dest # r) => Renamed(prog)[r] = latest[r]
         /\ \A k \in DOMAIN mt_dp(prog) : mt_dp(prog)[k].dest_reg_idx = prog[k].dest
  <1> DEFINE n == Len(prog)
             Youngest(k) == prog[k].dest = r /\ \A j \in 1 .. n : prog[j].dest = r => j <= k
  <1>1. n \in 0 .. 2 /\ DOMAIN prog = 1 .. n
        /\ DOMAIN mt_dp(prog) = 1 .. n /\ Len(mt_dp(prog)) = n
    BY ProgramFacts
  <1>2. \A k \in 1 .. n : mt_dp(prog)[k] = [dest_reg_idx |-> prog[k].dest, Tag |-> TailSlot(k)]
    BY <1>1 DEF mt_dp
  <1> HIDE DEF n
  <1>3. ASSUME NEW k \in 1 .. n, Youngest(k)
        PROVE  /\ Written(r, mt_dp(prog)) = TailSlot(k)
               /\ r # Zero => Renamed(prog)[r] = next + k - 1
    <2>1. Written(r, mt_dp(prog)) = TailSlot(k)
      <3>1. n = 2 /\ prog[2].dest = r => k = 2
        <4>1. n = 2 => 2 \in 1 .. n
          OBVIOUS
        <4>2. QED  BY <4>1, <1>1, <1>3
      <3>2. k = 2 => n = 2 /\ prog[2].dest = r
        BY <1>1, <1>3
      <3>3. k \in 1 .. 2 /\ 1 \in 1 .. n
        BY <1>1
      <3>4. CASE k = 2
        <4>1. Len(mt_dp(prog)) = 2 /\ 2 \in 1 .. n
          BY <3>2, <3>4, <1>1
        <4>2. mt_dp(prog)[2] = [dest_reg_idx |-> r, Tag |-> TailSlot(2)]
          BY <3>2, <3>4, <4>1, <1>2
        <4>3. Written(r, mt_dp(prog)) = mt_dp(prog)[2].Tag
          BY <4>1, <4>2 DEF Written
        <4>4. QED  BY <4>2, <4>3, <3>4
      <3>5. CASE k = 1
        <4>1. ~(n = 2 /\ prog[2].dest = r)
          BY <3>1, <3>5
        <4>2. n = 2 => mt_dp(prog)[2].dest_reg_idx = prog[2].dest
          BY <1>2
        <4>3. Written(r, mt_dp(prog)) = mt_dp(prog)[1].Tag
          BY <4>1, <4>2, <1>1 DEF Written
        <4>4. mt_dp(prog)[1].Tag = TailSlot(1)
          <5>1. mt_dp(prog)[1] = [dest_reg_idx |-> prog[1].dest, Tag |-> TailSlot(1)]
            BY <3>3, <1>2
          <5>2. QED  BY <5>1
        <4>5. QED  BY <4>3, <4>4, <3>5
      <3>6. QED  BY <3>3, <3>4, <3>5
    <2>2. ASSUME r # Zero PROVE Renamed(prog)[r] = next + k - 1
      <3>1. \A j \in 1 .. n : Youngest(j) => j = k
        BY <1>1, <1>3
      <3>2. (CHOOSE j \in DOMAIN prog : /\ prog[j].dest = r
                                        /\ \A l \in DOMAIN prog : prog[l].dest = r => l <= j) = k
        BY <3>1, <1>1, <1>3
      <3>3. \E j \in DOMAIN prog : prog[j].dest = r
        BY <1>1, <1>3
      <3>4. QED  BY <2>2, <3>2, <3>3 DEF Renamed
    <2>3. QED  BY <2>1, <2>2
  <1>4. ASSUME NEW k \in 1 .. n, prog[k].dest = r PROVE \E j \in 1 .. n : Youngest(j)
    <2>1. CASE n = 2 /\ prog[2].dest = r
      BY <2>1
    <2>2. CASE ~(n = 2 /\ prog[2].dest = r)
      <3>1. \A j \in 1 .. n : j = 1 \/ (j = 2 /\ n = 2)
        BY <1>1
      <3>2. 1 \in 1 .. n /\ prog[1].dest = r
        BY <2>2, <3>1, <1>1, <1>4
      <3>3. Youngest(1)
        BY <2>2, <3>1, <3>2
      <3>4. QED  BY <3>2, <3>3
    <2>3. QED  BY <2>1, <2>2
  <1>5. (\A k \in 1 .. n : prog[k].dest # r) => Renamed(prog)[r] = latest[r]
    BY <1>1 DEF Renamed
  <1>6. \A k \in DOMAIN mt_dp(prog) : mt_dp(prog)[k].dest_reg_idx = prog[k].dest
    BY <1>1, <1>2
  <1>7. (\E k \in 1 .. n : prog[k].dest = r) =>
              \E k \in 1 .. n :
                /\ Youngest(k)
                /\ Written(r, mt_dp(prog)) = TailSlot(k)
                /\ r # Zero => Renamed(prog)[r] = next + k - 1
    BY <1>3, <1>4
  <1>8. QED  BY <1>5, <1>6, <1>7 DEF n

\* What retires in a cycle without a squash and without a WFI.
LEMMA RetireFacts ==
  ASSUME CoreInv, ~halted, NEW disable \in Disables,
         ~squash_signal(disable), ~wfi_retires(disable)
  PROVE  /\ retire_count(disable) \in 0 .. 2
         /\ completed_insts(disable) = retire_count(disable)
         /\ retire_count(disable) >= 1 => rt_valid0
         /\ retire_count(disable) = 2 => rt_valid1
         /\ retire_count(disable) = 1 => ~(rt_valid1 /\ reg_idx[Nth(1)] # Zero)
         /\ retire_count(disable) = 0 => \/ ~rt_valid0 /\ ~rt_valid1
                                        \/ /\ rt_valid0 /\ E0.insn.kind = "store"
                                           /\ reg_idx[Nth(0)] = Zero
         /\ rt_valid0 => E0.cp_bit
         /\ rt_valid1 => E0.cp_bit /\ E1.cp_bit /\ rt1_reg = reg_idx[Nth(1)]
  <1>1. IInv /\ CoreTypes /\ NoDestination
    BY DEF CoreInv, Flying
  <1>2. /\ Nth(0) \in Slots /\ Nth(1) \in Slots /\ rob \in [Slots -> Entries]
        /\ E0 \in Entries /\ E1 \in Entries
        /\ E0.cp_bit /\ E0.insn.kind \in {"store", "halt"} => reg_idx[Nth(0)] = Zero
        /\ E1.cp_bit /\ E1.insn.kind \in {"store", "halt"} => reg_idx[Nth(1)] = Zero
    BY <1>1, HeadFacts DEF IInv, TypeOK
  <1>3. /\ retire_count(disable) \in 0 .. 2
        /\ completed_insts(disable) = retire_count(disable)
        /\ retire_count(disable) >= 1 => E0.cp_bit /\ ~E0.ep_bit
        /\ retire_count(disable) = 2 => E1.cp_bit /\ ~E1.ep_bit
    BY <1>2, RetireAgrees
  <1>4. disable \in {{}, {1}, {0, 1}}
    BY DEF Disables
  <1>5. E0.cp_bit => ~E0.halt
    BY DEF wfi_retires
  <1>6. retire_count(disable) = 1 => ~(rt_valid1 /\ reg_idx[Nth(1)] # Zero)
    <2>1. CASE disable = {}
      BY <2>1, <1>2, <1>3 DEF retire_count, rt_valid1, Entries
    <2>2. CASE disable = {1}
      <3>1. rt_valid1 /\ E1.insn.kind = "store"
        BY <2>2 DEF Disables
      <3>2. QED  BY <3>1, <1>2 DEF rt_valid1
    <2>3. CASE disable = {0, 1}
      BY <2>3 DEF retire_count
    <2>4. QED  BY <2>1, <2>2, <2>3, <1>4
  <1>7. retire_count(disable) = 0 => \/ ~rt_valid0 /\ ~rt_valid1
                                     \/ /\ rt_valid0 /\ E0.insn.kind = "store"
                                        /\ reg_idx[Nth(0)] = Zero
    <2>1. CASE ~E0.cp_bit
      BY <2>1 DEF rt_valid0, rt_valid1
    <2>2. CASE E0.cp_bit /\ 0 \in disable
      <3>1. rt_valid0 /\ E0.insn.kind = "store"
        BY <2>2 DEF Disables
      <3>2. QED  BY <2>2, <3>1, <1>2
    <2>3. CASE E0.cp_bit /\ 0 \notin disable
      BY <2>3 DEF retire_count
    <2>4. QED  BY <2>1, <2>2, <2>3
  <1>8. retire_count(disable) = 2 => rt_valid1
    BY <1>3, <1>5 DEF rt_valid1
  <1>9. QED  BY <1>3, <1>6, <1>7, <1>8 DEF rt_valid0, rt_valid1, rt1_reg

\* No two writers of a register are confused: it is known which is the youngest.
LEMMA LatestStep ==
  ASSUME CoreInv, NEW disable \in Disables, NEW cdb \in Finishing,
         NEW taken \in Mispredictions(cdb), NEW free \in Frees, NEW prog \in Programs,
         CoreCycle(disable, cdb, taken, free, prog), ~halted'
  PROVE  LatestInFlight'
  <1> DEFINE c == retire_count(disable)
             n == Len(prog)
  <1>1. /\ ~halted /\ IInv /\ CoreTypes /\ LatestInFlight /\ NoDestination
        /\ next' = next + n /\ n \in 0 .. 2
        /\ latest' = Renamed(prog) /\ arch' = Committed(disable)
        /\ ~squash_signal(disable) /\ ~wfi_retires(disable)
    BY CoreCycleIsCycle, ProgramFacts DEF CoreInv, Flying, CoreCycle, Cycle
  <1>2. /\ oldest \in Nat /\ next \in Nat /\ Count \in 0 .. ROB_SIZE /\ next = oldest + Count
        /\ latest \in [Regs -> Nat] /\ arch \in [Regs -> Nat]
    BY <1>1 DEF IInv, TypeOK, Running, Count, CoreTypes
  <1>3. /\ c \in 0 .. 2 /\ c <= Count /\ completed_insts(disable) = c
        /\ oldest' = oldest + c
        /\ \A i \in Slots : Off(i)' < Count' => \/ Kept(i, disable, cdb, taken)
                                                \/ \E k \in 1 .. n : Filled(i, k, prog)
    BY SlotStep
  <1>4. /\ c >= 1 => rt_valid0
        /\ c = 2 => rt_valid1
        /\ rt_valid0 => E0.cp_bit
        /\ rt_valid1 => E1.cp_bit
    BY <1>1, RetireFacts
  <1>5. /\ Nth(0) \in Slots /\ Nth(1) \in Slots /\ Off(Nth(0)) = 0 /\ Off(Nth(1)) = 1
        /\ E0.cp_bit => 0 < Count /\ E0.insn.id = oldest
        /\ E1.cp_bit => 1 < Count /\ E1.insn.id = oldest + 1
        /\ \A i \in Slots : Off(i) \in 0 .. ROB_SIZE - 1
    BY <1>1, HeadFacts, Offsets DEF IInv, Running, TypeOK
  <1> HIDE DEF c, n
  <1> SUFFICES ASSUME NEW r \in Regs \ {Zero}
                 PROVE  /\ arch'[r] < oldest'
                        /\ latest'[r] < next'
                        /\ latest'[r] < oldest' => latest'[r] = arch'[r]
                        /\ \A i \in Slots :
                             Off(i)' < Count' =>
                               /\ reg_idx'[i] = r => oldest' + Off(i)' <= latest'[r]
                               /\ oldest' + Off(i)' = latest'[r] => reg_idx'[i] = r
    BY DEF LatestInFlight
  <1>7. /\ arch[r] < oldest /\ latest[r] < next /\ latest[r] \in Nat /\ arch[r] \in Nat
        /\ latest[r] < oldest => latest[r] = arch[r]
        /\ \A i \in Slots :
             Off(i) < Count =>
               /\ reg_idx[i] = r => oldest + Off(i) <= latest[r]
               /\ oldest + Off(i) = latest[r] => reg_idx[i] = r
    BY <1>1, <1>2 DEF LatestInFlight
  <1>8. arch'[r] = IF c = 2 /\ reg_idx[Nth(1)] = r THEN oldest + 1
                   ELSE IF c >= 1 /\ reg_idx[Nth(0)] = r THEN oldest
                   ELSE arch[r]
    BY <1>1, <1>3, <1>4, <1>5 DEF Committed
  <1>9. arch'[r] < oldest' /\ arch'[r] \in Nat
    BY <1>2, <1>3, <1>7, <1>8
  <1>10. /\ c >= 1 => (reg_idx[Nth(0)] = r => oldest <= latest[r])
                      /\ (oldest = latest[r] => reg_idx[Nth(0)] = r)
         /\ c = 2 => (reg_idx[Nth(1)] = r => oldest + 1 <= latest[r])
                     /\ (oldest + 1 = latest[r] => reg_idx[Nth(1)] = r)
    <2>1. c >= 1 => Off(Nth(0)) < Count /\ oldest + Off(Nth(0)) = oldest
      BY <1>2, <1>3, <1>4, <1>5
    <2>2. c = 2 => Off(Nth(1)) < Count /\ oldest + Off(Nth(1)) = oldest + 1
      BY <1>2, <1>3, <1>4, <1>5
    <2>3. QED  BY <2>1, <2>2, <1>5, <1>7
  <1>11. latest[r] < oldest' => latest[r] = arch'[r]
    <2>1. c = 0 \/ c = 1 \/ c = 2
      BY <1>3
    <2>2. QED  BY <2>1, <1>2, <1>3, <1>7, <1>8, <1>10
  <1>12. CASE \A k \in 1 .. n : prog[k].dest # r
    <2>1. latest'[r] = latest[r]
      BY <1>1, <1>12, YoungestDispatched DEF n
    <2>2. ASSUME NEW i \in Slots, Off(i)' < Count'
          PROVE  /\ reg_idx'[i] = r => oldest' + Off(i)' <= latest'[r]
                 /\ oldest' + Off(i)' = latest'[r] => reg_idx'[i] = r
      <3>1. CASE Kept(i, disable, cdb, taken)
        BY <3>1, <2>1, <1>7 DEF Kept
      <3>2. ASSUME NEW k \in 1 .. n, Filled(i, k, prog)
            PROVE  reg_idx'[i] # r /\ oldest' + Off(i)' # latest'[r]
        <4>1. reg_idx'[i] = prog[k].dest /\ oldest' + Off(i)' = next + k - 1
          BY <3>2 DEF Filled
        <4>2. QED  BY <4>1, <2>1, <1>1, <1>2, <1>7, <1>12
      <3>3. QED  BY <3>1, <3>2, <2>2, <1>3
    <2>3. QED  BY <2>1, <2>2, <1>1, <1>2, <1>7, <1>9, <1>11
  <1>13. CASE \E k \in 1 .. n : prog[k].dest = r
    <2>1. PICK m \in 1 .. n : /\ prog[m].dest = r
                              /\ \A j \in 1 .. n : prog[j].dest = r => j <= m
                              /\ latest'[r] = next + m - 1
      BY <1>1, <1>13, YoungestDispatched DEF n
    <2>2. ASSUME NEW i \in Slots, Off(i)' < Count'
          PROVE  /\ reg_idx'[i] = r => oldest' + Off(i)' <= latest'[r]
                 /\ oldest' + Off(i)' = latest'[r] => reg_idx'[i] = r
      <3>1. CASE Kept(i, disable, cdb, taken)
        <4>1. oldest' + Off(i)' = oldest + Off(i) /\ Off(i) < Count
          BY <3>1 DEF Kept
        <4>2. oldest + Off(i) < next + m - 1
          BY <4>1, <2>1, <1>1, <1>2, <1>5
        <4>3. oldest + Off(i) \in Nat /\ next + m - 1 \in Nat
          BY <1>1, <1>2, <1>5
        <4>4. QED  BY <4>1, <4>2, <4>3, <2>1
      <3>2. ASSUME NEW k \in 1 .. n, Filled(i, k, prog)
            PROVE  /\ reg_idx'[i] = r => oldest' + Off(i)' <= latest'[r]
                   /\ oldest' + Off(i)' = latest'[r] => reg_idx'[i] = r
        <4>1. reg_idx'[i] = prog[k].dest /\ oldest' + Off(i)' = next + k - 1
          BY <3>2 DEF Filled
        <4>2. prog[k].dest = r => next + k - 1 <= next + m - 1
          BY <2>1, <1>1, <1>2
        <4>3. next + k - 1 = next + m - 1 => k = m
          BY <1>1, <1>2
        <4>4. QED  BY <4>1, <4>2, <4>3, <2>1
      <3>3. QED  BY <3>1, <3>2, <2>2, <1>3
    <2>3. latest'[r] < next' /\ ~(latest'[r] < oldest')
      BY <2>1, <1>1, <1>2, <1>3
    <2>4. QED  BY <2>2, <2>3, <1>9
  <1>14. QED  BY <1>12, <1>13

\* Stores and WFI in flight write no register.
LEMMA NoDestinationStep ==
  ASSUME CoreInv, NEW disable \in Disables, NEW cdb \in Finishing,
         NEW taken \in Mispredictions(cdb), NEW free \in Frees, NEW prog \in Programs,
         CoreCycle(disable, cdb, taken, free, prog), ~halted'
  PROVE  NoDestination'
  <1>1. /\ ~halted /\ TypeOK /\ Running /\ NoDestination
        /\ cdb \in Broadcasts
        /\ ~squash_signal(disable) /\ ~wfi_retires(disable)
    BY CoreCycleIsCycle DEF CoreInv, IInv, Flying, CoreCycle, Cycle
  <1> SUFFICES ASSUME NEW i \in Slots, Off(i)' < Count', rob'[i].insn.kind \in {"store", "halt"}
               PROVE  reg_idx'[i] = Zero
    BY DEF NoDestination
  <1>2. CASE Kept(i, disable, cdb, taken)
    <2>1. AfterCDB(i, disable, cdb, taken).insn = rob[i].insn
      BY <1>1, AfterCDBInv
    <2>2. QED  BY <1>1, <1>2, <2>1 DEF Kept, NoDestination
  <1>3. ASSUME NEW k \in 1 .. Len(prog), Filled(i, k, prog) PROVE reg_idx'[i] = Zero
    BY <1>3, ProgramFacts DEF Filled
  <1>4. QED  BY <1>2, <1>3, SlotStep

\* The register file stays what the retired instructions made it.
LEMMA RegistersStep ==
  ASSUME CoreInv, NEW disable \in Disables, NEW cdb \in Finishing,
         NEW taken \in Mispredictions(cdb), NEW free \in Frees, NEW prog \in Programs,
         CoreCycle(disable, cdb, taken, free, prog), ~halted'
  PROVE  RegistersRetired'
  <1> DEFINE c == retire_count(disable)
  <1>1. /\ ~halted /\ IInv /\ CoreTypes /\ NoDestination /\ RegistersRetired
        /\ RegEdge(rt_packet) /\ arch' = Committed(disable)
        /\ cdb \in Broadcasts /\ head' = Plus(head, c)
        /\ ~squash_signal(disable) /\ ~wfi_retires(disable)
    BY CoreCycleIsCycle DEF CoreInv, Flying, CoreCycle, Cycle
  <1>2. /\ c \in 0 .. 2 /\ completed_insts(disable) = c
        /\ c >= 1 => rt_valid0
        /\ c = 2 => rt_valid1
        /\ c = 1 => ~(rt_valid1 /\ reg_idx[Nth(1)] # Zero)
        /\ c = 0 => \/ ~rt_valid0 /\ ~rt_valid1
                    \/ rt_valid0 /\ E0.insn.kind = "store" /\ reg_idx[Nth(0)] = Zero
        /\ rt_valid0 => E0.cp_bit
        /\ rt_valid1 => E0.cp_bit /\ E1.cp_bit /\ rt1_reg = reg_idx[Nth(1)]
    BY <1>1, RetireFacts
  <1>3. /\ Nth(0) \in Slots /\ Nth(1) \in Slots
        /\ Off(Nth(0)) = 0 /\ Off(Nth(1)) = 1
        /\ E0.cp_bit => 0 < Count /\ E0.res.id = oldest /\ E0.insn.id = oldest
        /\ E1.cp_bit => 1 < Count /\ E1.res.id = oldest + 1 /\ E1.insn.id = oldest + 1
    BY <1>1, HeadFacts
  <1> HIDE DEF c
  <1> SUFFICES ASSUME NEW r \in Regs \ {Zero}
               PROVE  \/ registers'[r] = arch'[r]
                      \/ /\ E0'.cp_bit /\ E0'.insn.kind = "store"
                         /\ rt_valid1' /\ reg_idx'[Nth(1)'] = r /\ registers'[r] = E1'.res.id
    BY DEF RegistersRetired
  <1>4. \/ registers[r] = arch[r]
        \/ rt_valid1 /\ reg_idx[Nth(1)] = r /\ registers[r] = E1.res.id
    BY <1>1 DEF RegistersRetired
  <1>5. registers'[r] = IF rt_valid1 /\ reg_idx[Nth(1)] = r THEN E1.res.id
                        ELSE IF rt_valid0 /\ reg_idx[Nth(0)] = r THEN E0.res.id
                        ELSE registers[r]
    <2>1. registers'[r] = RegRead(r, rt_packet)
      BY <1>1, RegStep
    <2>2. QED  BY <2>1, <1>2, PacketFacts DEF RegRead
  <1>6. arch'[r] = IF c = 2 /\ reg_idx[Nth(1)] = r THEN E1.insn.id
                   ELSE IF c >= 1 /\ reg_idx[Nth(0)] = r THEN E0.insn.id
                   ELSE arch[r]
    BY <1>1, <1>2 DEF Committed
  <1>7. CASE c = 2
    BY <1>7, <1>2, <1>3, <1>4, <1>5, <1>6
  <1>8. CASE c = 1
    BY <1>8, <1>2, <1>3, <1>4, <1>5, <1>6
  <1>9. CASE c = 0 /\ ~(rt_valid1 /\ reg_idx[Nth(1)] = r)
    BY <1>9, <1>2, <1>4, <1>5, <1>6
  <1>10. CASE c = 0 /\ rt_valid1 /\ reg_idx[Nth(1)] = r
    <2>1. /\ rt_valid0 /\ E0.insn.kind = "store" /\ E0.cp_bit /\ E1.cp_bit
          /\ E1.res.id = oldest + 1 /\ registers'[r] = E1.res.id
      BY <1>10, <1>2, <1>3, <1>5
    <2>2. Nth(0)' = Nth(0) /\ Nth(1)' = Nth(1)
      <3>1. head' = head
        <4>1. head \in Ptrs /\ head' = Plus(head, 0)
          BY <1>1, <1>10 DEF IInv, TypeOK, c
        <4>2. QED  BY <4>1, RobAssumption DEF Plus, Ptrs
      <3>2. QED  BY <3>1 DEF Nth, Plus, Idx
    <2>3. PICK s0 \in Slots, s1 \in Slots : s0 = Nth(0) /\ s1 = Nth(1)
      BY <1>3
    <2>4. /\ Kept(s0, disable, cdb, taken) /\ Kept(s1, disable, cdb, taken)
      <3>1. /\ c <= Off(s0) /\ Off(s0) < Count
            /\ c <= Off(s1) /\ Off(s1) < Count
        BY <2>1, <2>3, <1>3, <1>10
      <3>2. QED  BY <3>1, SlotStep DEF c
    <2>5. ASSUME NEW s \in {s0, s1}
          PROVE  /\ rob'[s].insn = rob[s].insn /\ rob'[s].res = rob[s].res
                 /\ rob'[s].cp_bit /\ rob'[s].ep_bit = rob[s].ep_bit
                 /\ rob'[s].halt = rob[s].halt
                 /\ reg_idx'[s] = reg_idx[s]
      <3>1. /\ Kept(s, disable, cdb, taken) /\ rob[s].cp_bit /\ rob[s] \in Entries /\ s \in Slots
        BY <2>1, <2>3, <2>4, <1>1 DEF E0, E1, IInv, TypeOK
      <3>2. \A p \in cdb : p.tag # s
        BY <3>1, <1>1, PendingFacts DEF Broadcasts
      <3>3. ~Retires(s, disable)
        BY <1>10 DEF Retires, c
      <3>4. AfterCDB(s, disable, cdb, taken) = [rob[s] EXCEPT !.cp_bit = @ /\ ~Retires(s, disable)]
        BY <3>2 DEF AfterCDB
      <3>5. rob'[s] = [rob[s] EXCEPT !.cp_bit = @ /\ ~Retires(s, disable)]
        BY <3>1, <3>4 DEF Kept
      <3>6. QED  BY <3>1, <3>3, <3>5 DEF Entries, Kept
    <2>6. /\ E0' = rob'[s0] /\ E1' = rob'[s1] /\ E0 = rob[s0] /\ E1 = rob[s1]
          /\ reg_idx'[Nth(1)'] = reg_idx'[s1] /\ reg_idx[Nth(1)] = reg_idx[s1]
      BY <2>2, <2>3 DEF E0, E1
    <2>7. rt_valid1'
      BY <1>10, <2>5, <2>6 DEF rt_valid1
    <2>8. QED  BY <1>10, <2>1, <2>5, <2>6, <2>7
  <1>11. QED  BY <1>2, <1>7, <1>8, <1>9, <1>10

\* The entry of register r is in slot t, as far as the table says.
Tracked(r, t) ==
  /\ t = mt[r].tag
  /\ mt[r].status # "Ready_in_RF" => Off(t) < Count /\ reg_idx[t] = r
  /\ mt[r].status = "Not_Ready" =>
       \E q \in pending : q.tag = t /\ (r # Zero => q.insn.id = latest[r])
  /\ r # Zero /\ mt[r].status = "Ready_in_ROB" =>
       rob[t].cp_bit /\ rob[t].res.id = latest[r]
  /\ r # Zero /\ mt[r].status = "Ready_in_RF" => registers[r] = latest[r]

\* An instruction the map table knows to be finished, and that is not in the
\* retire stage's packets, does not retire.
LEMMA Waiting ==
  ASSUME CoreInv, ~halted, NEW disable \in Disables,
         ~squash_signal(disable), ~wfi_retires(disable),
         NEW t \in Slots, t \notin rt_tags
  PROVE  retire_count(disable) <= Off(t)
  <1>1. /\ retire_count(disable) \in 0 .. 2
        /\ retire_count(disable) >= 1 => rt_valid0
        /\ retire_count(disable) = 2 => rt_valid1
    BY RetireFacts
  <1>2. /\ Nth(0) \in Slots /\ Nth(1) \in Slots /\ Off(Nth(0)) = 0 /\ Off(Nth(1)) = 1
        /\ Off(t) \in 0 .. ROB_SIZE - 1
        /\ \A i, j \in Slots : Off(i) = Off(j) => i = j
    BY Offsets DEF CoreInv, IInv, Running, TypeOK
  <1>3. retire_count(disable) >= 1 => Off(t) # 0
    BY <1>1, <1>2, PacketFacts
  <1>4. retire_count(disable) = 2 => Off(t) # 1
    BY <1>1, <1>2, PacketFacts
  <1>5. QED  BY <1>1, <1>2, <1>3, <1>4

\* The map table keeps track of the youngest writer of every register.
LEMMA MapStep ==
  ASSUME CoreInv, NEW disable \in Disables, NEW cdb \in Finishing,
         NEW taken \in Mispredictions(cdb), NEW free \in Frees, NEW prog \in Programs,
         CoreCycle(disable, cdb, taken, free, prog), ~halted'
  PROVE  MapPoints' /\ MapTrue'
  <1> DEFINE c == retire_count(disable)
             n == Len(prog)
             disp(r) == \E k \in 1 .. n : prog[k].dest = r
             rt(r) == Retiring(r, rt_tags)
             cp(r) == Completing(r, cdb)
  <1>1. /\ ~halted /\ IInv /\ TypeOK /\ Running /\ CoreTypes /\ MapPoints /\ MapTrue
        /\ cdb \in Broadcasts /\ cdb \subseteq pending
        /\ RegEdge(rt_packet) /\ latest' = Renamed(prog) /\ MapEdge(mt_dp(prog), cdb, rt_tags)
        /\ ~squash_signal(disable) /\ ~wfi_retires(disable)
        /\ pending' = (pending \ cdb) \cup Entered(prog)
        /\ n <= dp_available /\ n \in 0 .. 2 /\ DOMAIN mt_dp(prog) = 1 .. n
    <2>1. /\ ~halted /\ IInv /\ cdb \in Broadcasts /\ cdb \subseteq pending
          /\ pending' = (pending \ cdb) \cup Entered(prog)
          /\ n <= dp_available
      BY CoreCycleIsCycle
    <2>2. TypeOK /\ Running /\ CoreTypes /\ MapPoints /\ MapTrue
      BY <2>1 DEF CoreInv, IInv, Flying
    <2>3. /\ RegEdge(rt_packet) /\ latest' = Renamed(prog)
          /\ MapEdge(mt_dp(prog), cdb, rt_tags)
          /\ ~squash_signal(disable) /\ ~wfi_retires(disable)
      BY DEF CoreCycle, Cycle
    <2>4. n \in 0 .. 2 /\ DOMAIN mt_dp(prog) = 1 .. n
      BY ProgramFacts
    <2>5. QED  BY <2>1, <2>2, <2>3, <2>4
  <1>2. /\ \A i \in Slots : c <= Off(i) /\ Off(i) < Count => Kept(i, disable, cdb, taken)
        /\ \A k \in 1 .. n : \E i \in Slots : Filled(i, k, prog)
    BY SlotStep
  <1> DEFINE Tag(r)    == IF disp(r) THEN Written(r, mt_dp(prog)) ELSE mt[r].tag
             Status(r) == IF rt(r) /\ ~(r # Zero /\ disp(r)) THEN "Ready_in_RF"
                          ELSE IF cp(r) /\ ~(r # Zero /\ disp(r)) THEN "Ready_in_ROB"
                          ELSE IF disp(r) THEN "Not_Ready"
                          ELSE mt[r].status
  <1>3. \A r \in Regs : mt'[r].tag = Tag(r) /\ mt'[r].status = Status(r)
    <2>1. \A r \in Regs :
            (\E k \in DOMAIN mt_dp(prog) : mt_dp(prog)[k].dest_reg_idx = r) <=> disp(r)
      BY <1>1, YoungestDispatched
    <2>2. \A r \in Regs : mt'[r] = [tag |-> Tag(r), status |-> Status(r)]
      BY <2>1, <1>1 DEF MapEdge, Blocked
    <2>3. ASSUME NEW r \in Regs
          PROVE  mt'[r].tag = Tag(r) /\ mt'[r].status = Status(r)
      <3> HIDE DEF Tag, Status
      <3>1. mt'[r] = [tag |-> Tag(r), status |-> Status(r)]
        BY <2>2
      <3>2. QED  BY <3>1
    <2>4. QED  BY <2>3
  <1>4. ASSUME NEW r \in Regs
        PROVE  /\ mt[r].tag \in Slots /\ mt[r].status \in Statuses
               /\ cp(r) <=> mt[r].status = "Not_Ready" /\ \E p \in cdb : p.tag = mt[r].tag
               /\ rt(r) <=> mt[r].status = "Ready_in_ROB" /\ mt[r].tag \in rt_tags
    BY <1>1, MatchFacts DEF CoreTypes
  <1> HIDE DEF c, n, rt, cp, disp
  <1>5. ASSUME NEW r \in Regs, disp(r)
        PROVE  \E t \in Slots : Tracked(r, t)'
    <2>1. PICK k \in 1 .. n : /\ prog[k].dest = r
                              /\ Written(r, mt_dp(prog)) = TailSlot(k)
                              /\ r # Zero => latest'[r] = next + k - 1
      BY <1>1, <1>5, YoungestDispatched DEF n, disp
    <2>2. PICK i \in Slots : Filled(i, k, prog)
      BY <1>2
    <2>3. /\ mt'[r].tag = i /\ reg_idx'[i] = r /\ Off(i)' < Count'
          /\ r # Zero => mt'[r].status = "Not_Ready"
      BY <1>3, <1>5, <2>1, <2>2 DEF Filled
    <2>4. [tag |-> i, insn |-> [id |-> next + k - 1, kind |-> prog[k].kind]] \in pending'
      BY <2>2, <1>1 DEF Entered, Filled, n
    <2>5. \E q \in pending' : q.tag = i /\ (r # Zero => q.insn.id = latest'[r])
      BY <2>1, <2>4
    <2>6. Tracked(r, i)'
      BY <2>3, <2>5 DEF Tracked
    <2>7. QED  BY <2>6
  <1>6. ASSUME NEW r \in Regs, ~disp(r)
        PROVE  \E t \in Slots : Tracked(r, t)'
    <2>1. latest'[r] = latest[r]
      BY <1>1, <1>6, YoungestDispatched DEF n, disp
    <2>2. PICK t \in Slots : t = mt[r].tag
      BY <1>4
    <2>3. /\ mt'[r].tag = t
          /\ mt'[r].status = IF rt(r) THEN "Ready_in_RF"
                             ELSE IF cp(r) THEN "Ready_in_ROB" ELSE mt[r].status
      BY <1>3, <1>6, <2>2
    <2>4. r # Zero /\ (rt(r) \/ mt[r].status = "Ready_in_RF") => registers'[r] = latest'[r]
      <3>1. registers'[r] = RegRead(r, rt_packet)
        BY <1>1, RegStep
      <3>2. QED  BY <3>1, <2>1, <1>1, ReadsLatest DEF rt
    <2>5. mt[r].status # "Ready_in_RF" => Off(t) < Count /\ reg_idx[t] = r
      BY <1>1, <2>2 DEF MapPoints
    <2>6. CASE rt(r) \/ (~cp(r) /\ mt[r].status = "Ready_in_RF")
      <3>1. mt'[r].status = "Ready_in_RF"
        BY <2>3, <2>6
      <3>2. Tracked(r, t)'
        BY <3>1, <2>3, <2>4, <2>6 DEF Tracked
      <3>3. QED  BY <3>2
    <2>7. CASE ~rt(r) /\ mt[r].status = "Not_Ready"
      <3>1. PICK q \in pending : q.tag = t /\ (r # Zero => q.insn.id = latest[r])
        <4>1. CASE r = Zero
          BY <4>1, <2>2, <2>7, <1>1 DEF MapPoints
        <4>2. CASE r # Zero
          BY <4>2, <2>2, <2>7, <1>1 DEF MapTrue
        <4>3. QED  BY <4>1, <4>2
      <3>2. c <= Off(t) /\ rob[t].insn = q.insn
        BY <3>1, <1>1, AfterCDBInv, PendingFacts DEF c
      <3>3. Kept(t, disable, cdb, taken)
        BY <3>2, <2>5, <2>7, <1>2
      <3>4. CASE q \notin cdb
        <4>1. ~cp(r) /\ q \in pending'
          BY <3>1, <3>4, <2>2, <1>1, <1>4, PendingFacts
        <4>2. Tracked(r, t)'
          BY <3>1, <3>3, <4>1, <2>1, <2>3, <2>5, <2>7 DEF Tracked, Kept
        <4>3. QED  BY <4>2
      <3>5. CASE q \in cdb
        <4>1. mt'[r].status = "Ready_in_ROB"
          BY <3>1, <3>5, <2>2, <2>3, <2>7, <1>4
        <4>2. AfterCDB(t, disable, cdb, taken).cp_bit
          BY <3>1, <3>5, <1>1, CompletedAfter
        <4>3. AfterCDB(t, disable, cdb, taken).res = q.insn
          BY <3>2, <4>2, <1>1, AfterCDBInv
        <4>4. Tracked(r, t)'
          BY <3>1, <3>3, <4>1, <4>2, <4>3, <2>1, <2>3, <2>5, <2>7 DEF Tracked, Kept
        <4>5. QED  BY <4>4
      <3>6. QED  BY <3>4, <3>5
    <2>8. CASE ~rt(r) /\ mt[r].status = "Ready_in_ROB"
      <3>1. t \notin rt_tags /\ mt'[r].status = "Ready_in_ROB"
        BY <2>2, <2>3, <2>8, <1>4
      <3>2. c <= Off(t)
        BY <3>1, <1>1, Waiting DEF c
      <3>3. Kept(t, disable, cdb, taken)
        BY <3>2, <2>5, <2>8, <1>2
      <3>4. r # Zero => rob'[t].cp_bit /\ rob'[t].res.id = latest'[r]
        <4> SUFFICES ASSUME r # Zero PROVE rob'[t].cp_bit /\ rob'[t].res.id = latest'[r]
          OBVIOUS
        <4>1. rob[t].cp_bit /\ rob[t].res.id = latest[r]
          BY <2>2, <2>8, <1>1 DEF MapTrue
        <4>2. \A p \in cdb : p.tag # t
          BY <4>1, <1>1, PendingFacts
        <4>3. AfterCDB(t, disable, cdb, taken).cp_bit
          BY <3>2, <4>1, <4>2, <1>1, CompletedAfter DEF c
        <4>4. AfterCDB(t, disable, cdb, taken).res = rob[t].insn
          BY <4>3, <1>1, AfterCDBInv
        <4>5. rob[t].res = rob[t].insn
          BY <4>1, <1>1 DEF Running, SlotInv
        <4>6. QED  BY <3>3, <4>1, <4>3, <4>4, <4>5, <2>1 DEF Kept
      <3>5. Tracked(r, t)'
        BY <3>1, <3>3, <3>4, <2>3, <2>5, <2>8 DEF Tracked, Kept
      <3>6. QED  BY <3>5
    <2>9. cp(r) => mt[r].status = "Not_Ready"
      BY <1>4
    <2>10. QED  BY <2>6, <2>7, <2>8, <2>9, <1>4 DEF Statuses
  <1>7. ASSUME NEW r \in Regs PROVE \E t \in Slots : Tracked(r, t)'
    BY <1>5, <1>6
  <1>8. MapPoints'
    <2> SUFFICES ASSUME NEW r \in Regs, mt'[r].status # "Ready_in_RF"
                 PROVE  /\ Off(mt[r].tag)' < Count'
                        /\ reg_idx'[mt'[r].tag] = r
                        /\ mt'[r].status = "Not_Ready" => \E q \in pending' : q.tag = mt'[r].tag
      BY DEF MapPoints
    <2>1. PICK t \in Slots : Tracked(r, t)'
      BY <1>7
    <2>2. t = mt'[r].tag /\ Off(t)' < Count'
      BY <2>1 DEF Tracked
    <2>3. Off(mt[r].tag)' < Count'
      BY <2>2 DEF Off
    <2>4. QED  BY <2>1, <2>3 DEF Tracked
  <1>9. MapTrue'
    <2> SUFFICES ASSUME NEW r \in Regs \ {Zero}
                 PROVE  CASE mt'[r].status = "Not_Ready" ->
                               \E q \in pending' : q.tag = mt'[r].tag /\ q.insn.id = latest'[r]
                          [] mt'[r].status = "Ready_in_ROB" ->
                               rob'[mt'[r].tag].cp_bit /\ rob'[mt'[r].tag].res.id = latest'[r]
                          [] mt'[r].status = "Ready_in_RF" -> registers'[r] = latest'[r]
      BY DEF MapTrue
    <2>1. PICK t \in Slots : Tracked(r, t)'
      BY <1>7
    <2>2. mt'[r].status \in Statuses
      BY <1>3, <1>4 DEF Statuses
    <2>3. QED  BY <2>1, <2>2 DEF Tracked, Statuses
  <1>10. QED  BY <1>8, <1>9

\* What retires is counted with a number.
LEMMA CommittedType ==
  ASSUME CoreInv, ~halted, NEW disable
  PROVE  Committed(disable) \in [Regs -> Nat]
  <1>1. /\ E0.insn.id \in Nat /\ E1.insn.id \in Nat /\ arch \in [Regs -> Nat]
    BY HeadFacts DEF CoreInv, Flying, CoreTypes, Entries, Insns
  <1>2. QED  BY <1>1 DEF Committed

\* The types are kept.
LEMMA TypesStep ==
  ASSUME CoreInv, NEW disable \in Disables, NEW cdb \in Finishing,
         NEW taken \in Mispredictions(cdb), NEW free \in Frees, NEW prog \in Programs,
         CoreCycle(disable, cdb, taken, free, prog)
  PROVE  CoreTypes'
  <1> DEFINE n == Len(prog)
  <1>1. /\ ~halted /\ IInv /\ CoreTypes /\ NoDestination /\ n <= dp_available
    BY CoreCycleIsCycle DEF CoreInv, Flying
  <1>2. /\ RegEdge(rt_packet) /\ latest' = Renamed(prog) /\ arch' = Committed(disable)
        /\ MapEdge(mt_dp(prog), cdb, rt_tags)
        /\ reg_idx' = [i \in Slots |->
                        IF \E k \in DOMAIN prog : i = TailSlot(k)
                        THEN prog[CHOOSE k \in DOMAIN prog : i = TailSlot(k)].dest
                        ELSE reg_idx[i]]
        /\ rs' = [i \in Places |->
                   WakeUp(N_RS_entry(i, free, rs_dp(prog)), cdb_packets(cdb))]
    BY DEF CoreCycle, RSEdge
  <1>3. /\ n \in 0 .. 2 /\ DOMAIN prog = 1 .. n /\ DOMAIN mt_dp(prog) = 1 .. n
        /\ \A k \in 1 .. n : prog[k].dest \in Regs
    BY ProgramFacts
  <1>4. /\ mt \in [Regs -> [tag : Slots, status : Statuses]]
        /\ registers \in [Regs -> Nat] /\ reg_idx \in [Slots -> Regs]
        /\ latest \in [Regs -> Nat] /\ arch \in [Regs -> Nat]
        /\ next \in Nat
    BY <1>1 DEF CoreTypes, IInv, TypeOK
  <1>5. \A k \in 1 .. n : TailSlot(k) \in Slots
    BY <1>1, TailSlots
  <1> HIDE DEF n
  <1>6. mt' \in [Regs -> [tag : Slots, status : Statuses]]
    <2> DEFINE disp(r) == \E k \in DOMAIN mt_dp(prog) : mt_dp(prog)[k].dest_reg_idx = r
               Tag(r) == IF disp(r) THEN Written(r, mt_dp(prog)) ELSE mt[r].tag
               Status(r) == IF Retiring(r, rt_tags) /\ ~Blocked(r, mt_dp(prog)) THEN "Ready_in_RF"
                            ELSE IF Completing(r, cdb) /\ ~Blocked(r, mt_dp(prog)) THEN "Ready_in_ROB"
                            ELSE IF disp(r) THEN "Not_Ready"
                            ELSE mt[r].status
    <2>1. mt' = [r \in Regs |-> [tag |-> Tag(r), status |-> Status(r)]]
      BY <1>2 DEF MapEdge
    <2>2. ASSUME NEW r \in Regs PROVE Tag(r) \in Slots /\ Status(r) \in Statuses
      <3>1. disp(r) => Written(r, mt_dp(prog)) \in Slots
        <4> SUFFICES ASSUME disp(r) PROVE Written(r, mt_dp(prog)) \in Slots
          OBVIOUS
        <4>1. \E k \in 1 .. n : prog[k].dest = r
          BY <1>3, YoungestDispatched
        <4>2. PICK k \in 1 .. n : Written(r, mt_dp(prog)) = TailSlot(k)
          BY <4>1, YoungestDispatched DEF n
        <4>3. QED  BY <4>2, <1>5
      <3>2. QED  BY <3>1, <1>4 DEF Statuses
    <2> HIDE DEF Tag, Status
    <2>3. QED  BY <2>1, <2>2
  <1>7. rs' \in [Places -> RSEntries] /\ \A i \in Places : rs'[i].busy => rs'[i].op \in Ops
    <2>1. PICK e \in Nat : Split(e, cdb, free, prog)
      BY StationAfter
    <2>2. \A i \in Places : rs'[i] \in RSEntries /\ (rs'[i].busy => rs'[i].op \in Ops)
      BY <2>1 DEF Split
    <2>3. QED  BY <2>2, <1>2
  <1>8. registers' \in [Regs -> Nat]
    <2>1. \A r \in Regs : registers'[r] \in Nat
      BY <1>1, <1>2, RegStep
    <2>2. QED  BY <2>1, <1>2 DEF RegEdge
  <1>9. reg_idx' \in [Slots -> Regs]
    <2>1. ASSUME NEW i \in Slots PROVE reg_idx'[i] \in Regs
      <3>1. CASE \E k \in DOMAIN prog : i = TailSlot(k)
        <4>1. (CHOOSE k \in DOMAIN prog : i = TailSlot(k)) \in 1 .. n
          BY <3>1, <1>3
        <4>2. QED  BY <3>1, <4>1, <1>2, <1>3
      <3>2. QED  BY <3>1, <1>2, <1>4
    <2>2. QED  BY <2>1, <1>2
  <1>10. latest' \in [Regs -> Nat]
    <2>1. ASSUME NEW r \in Regs PROVE Renamed(prog)[r] \in Nat
      <3>1. CASE r # Zero /\ \E k \in 1 .. n : prog[k].dest = r
        <4>1. PICK k \in 1 .. n : Renamed(prog)[r] = next + k - 1
          BY <3>1, YoungestDispatched DEF n
        <4>2. QED  BY <4>1, <1>3, <1>4
      <3>2. CASE r = Zero
        BY <3>2, <1>4 DEF Renamed
      <3>3. CASE \A k \in 1 .. n : prog[k].dest # r
        BY <3>3, <1>4, YoungestDispatched DEF n
      <3>4. QED  BY <3>1, <3>2, <3>3
    <2>2. QED  BY <2>1, <1>2 DEF Renamed
  <1>11. arch' \in [Regs -> Nat]
    BY <1>1, <1>2, CommittedType
  <1>12. QED  BY <1>6, <1>7, <1>8, <1>9, <1>10, <1>11 DEF CoreTypes

-----------------------------------------------------------------------------
(* The other steps.                                                        *)

\* Nothing is in flight, and the register file holds what retired.
Quiet ==
  /\ IInv
  /\ ~halted => Count = 0
  /\ head = 0 /\ pending = {} /\ executing = {}
  /\ MapInit /\ RSInit /\ reg_idx = [i \in Slots |-> Zero]
  /\ registers \in [Regs -> Nat] /\ latest \in [Regs -> Nat] /\ arch = latest
  /\ ~halted => \A r \in Regs \ {Zero} : registers[r] = arch[r] /\ arch[r] < oldest

\* In such a state the invariant holds.
LEMMA EmptyCore == Quiet => CoreInv
  <1> SUFFICES ASSUME Quiet PROVE CoreInv
    OBVIOUS
  <1> USE DEF Quiet
  <1> USE RobAssumption, RSAssumption, RegistersAssumption
  <1>1. ~halted => \A i \in Slots : ~(Off(i) < Count)
    BY DEF Off, Idx, Slots
  <1>2. mt = [r \in Regs |-> [tag |-> 0, status |-> "Ready_in_RF"]]
    BY DEF MapInit, Reset
  <1>3. rs = [i \in Places |-> Noop] /\ ~Noop.busy
    BY DEF RSInit, Noop
  <1>4. Busy = {}
    BY <1>3 DEF Busy
  <1>5. CoreTypes
    <2>1. Noop \in RSEntries
      BY DEF Noop, RSEntries, Operands, Slots
    <2>2. rs \in [Places -> RSEntries] /\ \A i \in Places : rs[i].busy => rs[i].op \in Ops
      BY <1>3, <2>1
    <2>3. 0 \in Slots /\ "Ready_in_RF" \in Statuses
      BY DEF Slots, Statuses
    <2>4. mt \in [Regs -> [tag : Slots, status : Statuses]]
      BY <1>2, <2>3
    <2>5. reg_idx \in [Slots -> Regs]
      OBVIOUS
    <2>6. QED  BY <2>2, <2>4, <2>5 DEF CoreTypes
  <1>6. NoneLost
    BY <1>4 DEF NoneLost, Issued
  <1>7. StationInOrder
    BY <1>3 DEF StationInOrder
  <1>8. OperandsCorrect
    BY <1>4 DEF OperandsCorrect
  <1>9. MapTrue
    BY <1>2 DEF MapTrue
  <1>10. RegistersRetired
    BY DEF RegistersRetired
  <1>11. ~halted => Flying
    <2> SUFFICES ASSUME ~halted PROVE Flying
      OBVIOUS
    <2>1. MapPoints
      BY <1>2 DEF MapPoints
    <2>2. LatestInFlight
      <3>1. next = oldest /\ oldest \in Nat
        BY DEF IInv, TypeOK, Count
      <3>2. QED  BY <3>1, <1>1 DEF LatestInFlight
    <2>3. NoDestination
      BY <1>1 DEF NoDestination
    <2>4. QED  BY <2>1, <2>2, <2>3 DEF Flying
  <1>12. QED  BY <1>5, <1>6, <1>7, <1>8, <1>9, <1>10, <1>11 DEF CoreInv

\* Reset.
LEMMA CoreInitially == CoreInit => CoreInv
  <1> SUFFICES ASSUME CoreInit PROVE CoreInv
    OBVIOUS
  <1>1. IInv /\ Count = 0 /\ head = 0 /\ pending = {} /\ executing = {}
    BY Initially DEF CoreInit, Init, Count
  <1>2. /\ MapInit /\ RSInit /\ reg_idx = [i \in Slots |-> Zero]
        /\ registers = [r \in Regs |-> 0]
        /\ latest = [r \in Regs |-> 0] /\ arch = [r \in Regs |-> 0] /\ oldest = 1
    BY DEF CoreInit, RegInit, Init
  <1>3. /\ registers \in [Regs -> Nat] /\ latest \in [Regs -> Nat] /\ arch = latest
        /\ \A r \in Regs \ {Zero} : registers[r] = arch[r] /\ arch[r] < oldest
    BY <1>2
  <1>4. QED  BY <1>1, <1>2, <1>3, EmptyCore DEF Quiet

\* A squash: in flight is nothing any more, and the register file has what
\* retired before the squash and in its cycle.
LEMMA SquashStep ==
  ASSUME CoreInv, NEW disable \in Disables, CoreSquash(disable)
  PROVE  CoreInv'
  <1> USE RobAssumption
  <1>1. /\ ~halted /\ IInv /\ CoreTypes /\ RegistersRetired /\ LatestInFlight /\ NoDestination
        /\ Squash(disable) /\ RegEdge(rt_packet)
        /\ latest' = Committed(disable) /\ arch' = Committed(disable)
        /\ executing' = {} /\ reg_idx' = [i \in Slots |-> Zero]
    BY DEF CoreInv, Flying, CoreSquash, Squash
  <1>2. IInv'
    BY <1>1, Inductive DEF Next
  <1>3. /\ squash_signal(disable) /\ head' = 0 /\ pending' = {} /\ next' = next
        /\ halted' = wfi_retires(disable)
        /\ ~wfi_retires(disable) => oldest' = next
    BY <1>1 DEF Squash
  <1>4. disable = {}
    BY <1>3 DEF squash_signal
  <1>5. /\ mt' = [r \in Regs |-> Reset] /\ rs' = [i \in Places |-> Noop]
    BY DEF CoreSquash, MapReset, RSClear
  <1>6. /\ \A r \in Regs : registers'[r] = RegRead(r, rt_packet) /\ registers'[r] \in Nat
        /\ Committed(disable) \in [Regs -> Nat]
    BY <1>1, RegStep, CommittedType
  <1>7. registers' \in [Regs -> Nat]
    BY <1>1, <1>6 DEF RegEdge
  <1>8. /\ oldest \in Nat /\ next \in Nat /\ oldest <= next
        /\ arch \in [Regs -> Nat]
        /\ E0.cp_bit => 0 < Count /\ E0.res.id = oldest /\ E0.insn.id = oldest
        /\ E1.cp_bit => 1 < Count /\ E1.res.id = oldest + 1 /\ E1.insn.id = oldest + 1
    BY <1>1, HeadFacts DEF IInv, TypeOK, Running, Count, CoreTypes
  <1>9. ASSUME ~halted', NEW r \in Regs \ {Zero}
        PROVE  registers'[r] = arch'[r] /\ arch'[r] < oldest'
    <2>1. /\ rt_valid0 => E0.cp_bit
          /\ rt_valid1 => rt_valid0 /\ E0.cp_bit /\ E1.cp_bit /\ rt1_reg = reg_idx[Nth(1)]
      BY DEF rt_valid0, rt_valid1, rt1_reg
    <2>2. registers'[r] = IF rt_valid1 /\ reg_idx[Nth(1)] = r THEN E1.res.id
                          ELSE IF rt_valid0 /\ reg_idx[Nth(0)] = r THEN E0.res.id
                          ELSE registers[r]
      BY <1>6, <2>1, PacketFacts DEF RegRead
    <2>3. arch'[r] = IF rt_valid1 /\ reg_idx[Nth(1)] = r THEN E1.insn.id
                     ELSE IF rt_valid0 /\ reg_idx[Nth(0)] = r THEN E0.insn.id
                     ELSE arch[r]
      <3>1. /\ completed_insts(disable) >= 1 <=> rt_valid0
            /\ completed_insts(disable) = 2 <=> rt_valid1
        BY <1>4, <2>1 DEF completed_insts
      <3>2. QED  BY <3>1, <1>1 DEF Committed
    <2>4. \/ registers[r] = arch[r]
          \/ rt_valid1 /\ reg_idx[Nth(1)] = r
      BY <1>1 DEF RegistersRetired
    <2>5. arch[r] < oldest /\ oldest' = next /\ arch[r] \in Nat
      BY <1>1, <1>3, <1>8, <1>9 DEF LatestInFlight
    <2>6. /\ E0.cp_bit => oldest < next
          /\ E1.cp_bit => oldest + 1 < next
      BY <1>8 DEF Count
    <2>7. registers'[r] = arch'[r]
      BY <2>1, <2>2, <2>3, <2>4, <1>8
    <2>8. QED  BY <2>1, <2>3, <2>5, <2>6, <2>7, <1>8
  <1>10. CoreInv'
    <2>1. ~halted' => Count' = 0
      BY <1>3, <1>8 DEF Count
    <2>2. Quiet'
      BY <2>1, <1>1, <1>2, <1>3, <1>5, <1>6, <1>7, <1>9 DEF MapInit, RSInit, Quiet
    <2>3. Quiet' => CoreInv'
      BY EmptyCore, PTL
    <2>4. QED  BY <2>2, <2>3
  <1>11. QED  BY <1>10

\* The invariant is inductive.
LEMMA CoreInductive == CoreInv /\ [CoreNext]_coreVars => CoreInv'
  <1> SUFFICES ASSUME CoreInv, [CoreNext]_coreVars PROVE CoreInv'
    OBVIOUS
  <1>1. ASSUME NEW disable \in Disables, NEW cdb \in Finishing, NEW free \in Frees,
               NEW taken \in Mispredictions(cdb), NEW prog \in Programs,
               CoreCycle(disable, cdb, taken, free, prog)
        PROVE  CoreInv'
    <2>1. IInv' /\ CoreTypes'
      BY <1>1, CoreCycleIsCycle, TypesStep
    <2>2. NoneLost' /\ StationInOrder' /\ OperandsCorrect'
      BY <1>1, NoneLostStep, StationInOrderStep, OperandsStep
    <2>3. ASSUME ~halted' PROVE MapTrue' /\ RegistersRetired' /\ Flying'
      <3>1. MapTrue' /\ MapPoints'
        BY <1>1, <2>3, MapStep
      <3>2. RegistersRetired' /\ LatestInFlight' /\ NoDestination'
        BY <1>1, <2>3, RegistersStep, LatestStep, NoDestinationStep
      <3>3. QED  BY <3>1, <3>2 DEF Flying
    <2>4. halted' => MapTrue' /\ RegistersRetired'
      BY DEF MapTrue, RegistersRetired
    <2>5. QED  BY <2>1, <2>2, <2>3, <2>4 DEF CoreInv
  <1>2. ASSUME NEW disable \in Disables, CoreSquash(disable)
        PROVE  CoreInv'
    BY <1>2, SquashStep
  <1>3. CASE UNCHANGED coreVars
    <2>1. /\ UNCHANGED vars
          /\ UNCHANGED <<mt, rs, registers, reg_idx, executing, latest, arch>>
      BY <1>3 DEF coreVars
    <2>2. IInv'
      BY <2>1, Inductive DEF CoreInv
    <2>3. /\ E0' = E0 /\ E1' = E1 /\ Nth(1)' = Nth(1) /\ rt_valid1' = rt_valid1
          /\ halted' = halted
      BY <2>1 DEF vars, E0, E1, Nth, rt_valid1, Idx, Plus
    <2>4. CoreTypes'
      BY <2>1 DEF CoreInv, CoreTypes
    <2>5. NoneLost' /\ StationInOrder'
      BY <2>1 DEF CoreInv, NoneLost, Issued, Busy, StationInOrder, vars
    <2>6. OperandsCorrect'
      BY <2>1 DEF CoreInv, OperandsCorrect, Busy, vars
    <2>7. MapTrue'
      BY <2>1 DEF CoreInv, MapTrue, vars
    <2>8. RegistersRetired'
      BY <2>1, <2>3 DEF CoreInv, RegistersRetired
    <2>9. ASSUME ~halted' PROVE Flying'
      <3>1. Flying
        BY <2>3, <2>9 DEF CoreInv
      <3>2. MapPoints'
        BY <2>1, <3>1 DEF Flying, MapPoints, Off, Idx, Count, vars
      <3>3. LatestInFlight'
        BY <2>1, <3>1 DEF Flying, LatestInFlight, Off, Idx, Count, vars
      <3>4. NoDestination'
        BY <2>1, <3>1 DEF Flying, NoDestination, Off, Idx, Count, vars
      <3>5. QED  BY <3>2, <3>3, <3>4 DEF Flying
    <2>10. QED  BY <2>2, <2>4, <2>5, <2>6, <2>7, <2>8, <2>9 DEF CoreInv
  <1>4. QED  BY <1>1, <1>2, <1>3 DEF CoreNext, CoreStep, CoreStopped

\* The inductive invariant holds in every reachable state.
THEOREM CoreInvariant == CoreSpec => []CoreInv
  BY CoreInitially, CoreInductive, PTL DEF CoreSpec

\* Every instruction in flight that has not broadcast is in the station or in a
\* functional unit, and in one of them only (RS_one.sv:111-226, issue_stage.sv:41-145),
\* whatever the size of the station.
THEOREM NoneLostHolds == CoreSpec => []NoneLost
  <1>1. CoreInv => NoneLost
    BY DEF CoreInv
  <1>2. QED  BY <1>1, CoreInvariant, PTL

\* The station stays packed and in program order while two entries leave from
\* any places and two enter in the same cycle (sel_ctl.sv:18-35, allocate.sv:19-30).
THEOREM StationInOrderHolds == CoreSpec => []StationInOrder
  <1>1. CoreInv => StationInOrder
    BY DEF CoreInv
  <1>2. QED  BY <1>1, CoreInvariant, PTL

\* An operand has the result the program says, or waits for the instruction that
\* computes it (RS_one.sv:94-107 and 228-262): a result is never missed
\* in the cycle in which it arrives, retires or is renamed.
THEOREM OperandsCorrectHolds == CoreSpec => []OperandsCorrect
  <1>1. CoreInv => OperandsCorrect
    BY DEF CoreInv
  <1>2. QED  BY <1>1, CoreInvariant, PTL

\* The map table says where the youngest writer of every register is
\* (maptable.sv:19-87, MapTableRF.sv:100-249): its encoders never meet two registers
\* with one entry.
THEOREM MapTrueHolds == CoreSpec => []MapTrue
  <1>1. CoreInv => MapTrue
    BY DEF CoreInv
  <1>2. QED  BY <1>1, CoreInvariant, PTL

\* The register file is what the retired instructions made it, but for a result
\* directly behind a store that is held back (rt_stage.sv:33-56, regfile.sv:59-93).
THEOREM RegistersRetiredHolds == CoreSpec => []RegistersRetired
  <1>1. CoreInv => RegistersRetired
    BY DEF CoreInv
  <1>2. QED  BY <1>1, CoreInvariant, PTL

\* No load is issued before a load that dispatch sent earlier
\* (RS.sv:94-128, RS_one.sv:109), on which lsq.sv relies.
THEOREM LoadsInOrderHolds == CoreSpec => LoadsInOrder
  <1> DEFINE Issues(i, j) ==
               /\ rs[i].rd_mem /\ rs[j].rd_mem
               /\ rs[i].op.insn.id < rs[j].op.insn.id
               /\ \E q \in executing' : q.insn = rs[j].op.insn
  <1>1. CoreInv /\ [CoreNext]_coreVars => [\A i, j \in Busy : Issues(i, j) => FALSE]_coreVars
    <2> SUFFICES ASSUME CoreInv, CoreNext, NEW i \in Busy, NEW j \in Busy, Issues(i, j),
                        ~(UNCHANGED coreVars)
                 PROVE  FALSE
      OBVIOUS
    <2>1. PICK q \in executing' : q.insn = rs[j].op.insn
      OBVIOUS
    <2>2. ASSUME NEW disable \in Disables, NEW cdb \in Finishing, NEW free \in Frees,
                 NEW taken \in Mispredictions(cdb), NEW prog \in Programs,
                 CoreCycle(disable, cdb, taken, free, prog)
          PROVE  FALSE
      <3>1. /\ ~halted /\ IInv /\ CoreTypes /\ NoneLost /\ StationInOrder
        BY <2>2, CoreCycleIsCycle DEF CoreInv
      <3>2. /\ \A k \in Busy :
                 /\ [tag |-> rs[k].op.tag, insn |-> rs[k].op.insn] \in pending \ executing
                 /\ rs[k].op.insn.id \in Nat
            /\ \A k, l \in Busy : rs[k].op.insn.id = rs[l].op.insn.id => k = l
            /\ executing \subseteq pending
        BY <3>1, StationFacts
      <3>3. q \notin executing
        <4> SUFFICES ASSUME q \in executing PROVE FALSE
          OBVIOUS
        <4>1. q = [tag |-> rs[j].op.tag, insn |-> rs[j].op.insn]
          <5> DEFINE e == [tag |-> rs[j].op.tag, insn |-> rs[j].op.insn]
          <5>1. q \in pending /\ e \in pending /\ e.insn = q.insn
            BY <2>1, <3>2
          <5>2. \A x, y \in pending : x.insn.id = y.insn.id => x = y
            BY <3>1, PendingFacts
          <5> HIDE DEF e
          <5>3. q = e
            BY <5>1, <5>2
          <5>4. QED  BY <5>3 DEF e
        <4>2. QED  BY <4>1, <3>2
      <3>4. PICK k \in free : q = [tag |-> rs[k].op.tag, insn |-> rs[k].op.insn]
        BY <2>1, <2>2, <3>3 DEF CoreCycle, Issued
      <3>5. k \in Busy /\ ready(k)
        BY DEF Frees, ready, Busy
      <3>6. k = j
        BY <2>1, <3>2, <3>4, <3>5
      <3>7. i \in Places /\ j \in Places /\ rs[i].busy /\ rs[j].busy
        BY DEF Busy
      <3>8. i < j
        <4>1. i < j \/ i = j \/ j < i
          BY <3>7, RSAssumption DEF Places
        <4>2. /\ rs[i].op.insn.id < rs[j].op.insn.id
              /\ rs[i].op.insn.id \in Nat /\ rs[j].op.insn.id \in Nat
          BY <3>2
        <4>3. j < i => rs[j].op.insn.id < rs[i].op.insn.id
          BY <3>1, <3>7 DEF StationInOrder
        <4>4. QED  BY <4>1, <4>2, <4>3
      <3>9. i \in 0 .. j - 1
        BY <3>7, <3>8, RSAssumption DEF Places
      <3>10. QED  BY <3>5, <3>6, <3>9 DEF ready, has_ld_from_above
    <2>3. ASSUME NEW disable \in Disables, CoreSquash(disable) PROVE FALSE
      BY <2>1, <2>3 DEF CoreSquash
    <2>4. QED  BY <2>2, <2>3 DEF CoreNext, CoreStep, CoreStopped
  <1>2. QED  BY <1>1, CoreInvariant, PTL DEF CoreSpec, LoadsInOrder

\* The core is the reorder buffer with its environment made concrete: what the
\* station, the functional units and the bus do (pipeline.sv:331-478) is something
\* that Rob lets its environment do.
THEOREM CoreImplementsRob == CoreSpec => Spec
  <1>1. CoreInit => Init
    BY DEF CoreInit
  <1>2. CoreInv /\ [CoreNext]_coreVars => [Next]_vars
    <2> SUFFICES ASSUME CoreInv, [CoreNext]_coreVars PROVE [Next]_vars
      OBVIOUS
    <2>1. ASSUME NEW disable \in Disables, NEW cdb \in Finishing, NEW free \in Frees,
                 NEW taken \in Mispredictions(cdb), NEW prog \in Programs,
                 CoreCycle(disable, cdb, taken, free, prog)
          PROVE  [Next]_vars
      BY <2>1, CoreCycleIsCycle
    <2>2. ASSUME NEW disable \in Disables, CoreSquash(disable) PROVE [Next]_vars
      BY <2>2 DEF CoreSquash, Next
    <2>3. CASE UNCHANGED coreVars
      BY <2>3 DEF coreVars
    <2>4. QED  BY <2>1, <2>2, <2>3 DEF CoreNext, CoreStep, CoreStopped
  <1>3. QED  BY <1>1, <1>2, CoreInvariant, PTL DEF CoreSpec, Spec

\* So the core as a whole retires in program order, each instruction once and after
\* it finished, and none behind a misprediction: it implements RetireOrder too.
THEOREM CoreRetiresInOrder == CoreSpec => RetiresInOrder
  BY CoreImplementsRob, RetiresInOrderHolds, PTL

\* And nothing behind a WFI is counted (rt_stage.sv:33-56, pipeline.sv:157-176).
THEOREM CoreWfiRetiresLast == CoreSpec => WfiRetiresLast
  BY CoreImplementsRob, WfiRetiresLastHolds, PTL
=============================================================================
