----------------------------- MODULE Rob_proofs -----------------------------
(***************************************************************************)
(* Proofs about Rob, for every ROB_SIZE of at least two and any number of  *)
(* instructions.  The inductive invariant looks at a slot through its      *)
(* distance from the head, which is linear arithmetic for every size.      *)
(***************************************************************************)
EXTENDS Rob, TLAPS

\* How many slots after the head slot i is.
Off(i) == IF i >= Idx(head) THEN i - Idx(head) ELSE i - Idx(head) + ROB_SIZE

SlotInv(i) ==
  /\ Off(i) < Count => rob[i].insn.id = oldest + Off(i)
  /\ rob[i].cp_bit => /\ Off(i) < Count
                      /\ rob[i].res = rob[i].insn
                      /\ rob[i].halt = (rob[i].insn.kind = "halt")

PendingInv ==
  \A p \in pending : /\ Off(p.tag) < Count
                     /\ rob[p.tag].insn = p.insn
                     /\ ~rob[p.tag].cp_bit

Running ==
  /\ Count \in 0 .. ROB_SIZE
  /\ tail = Plus(head, Count)
  /\ \A i \in Slots : SlotInv(i)
  /\ PendingInv

IInv == TypeOK /\ (~halted => Running)

-----------------------------------------------------------------------------
(* Facts about one cycle.                                                  *)

\* What dispatch offers fits between tail and head: dp_available tells a
\* full buffer from an empty one by the top bits of the pointers.
LEMMA DispatchFits ==
  ASSUME head \in Ptrs, Count \in 0 .. ROB_SIZE, tail = Plus(head, Count),
         NEW n \in 0 .. 2, n <= dp_available
  PROVE  Count + n <= ROB_SIZE
  <1> USE RobAssumption
  <1>1. Idx(head) \in 0 .. ROB_SIZE - 1 /\ Idx(tail) \in 0 .. ROB_SIZE - 1
    BY DEF Ptrs, Plus, Idx
  <1>2. CASE Count = ROB_SIZE
    BY <1>2, <1>1 DEF dp_available, space_available, Idx, Msb, Plus, Ptrs
  <1>3. CASE Count = 0
    BY <1>3, <1>1 DEF dp_available, space_available, Idx, Msb, Plus, Ptrs
  <1>4. CASE Count \in 1 .. ROB_SIZE - 1
    <2>1. space_available = ROB_SIZE - Count
      BY <1>4, <1>1 DEF space_available, Idx, Plus, Ptrs
    <2>2. QED  BY <2>1, <1>4 DEF dp_available
  <1>5. QED  BY <1>2, <1>3, <1>4

\* The head moves exactly over completed entries, and by the number the
\* retire stage reports.
LEMMA RetireAgrees ==
  ASSUME NEW disable \in Disables, ~squash_signal(disable),
         ~wfi_retires(disable),
         Nth(0) \in Slots, Nth(1) \in Slots, rob \in [Slots -> Entries]
  PROVE  /\ retire_count(disable) \in 0 .. 2
         /\ completed_insts(disable) = retire_count(disable)
         /\ retire_count(disable) >= 1 => E0.cp_bit /\ ~E0.ep_bit
         /\ retire_count(disable) = 2 => E1.cp_bit /\ ~E1.ep_bit
  <1>1. disable \in {{}, {1}, {0, 1}}
    BY DEF Disables
  <1>2. /\ E0.cp_bit \in BOOLEAN /\ E1.cp_bit \in BOOLEAN
        /\ E0.ep_bit \in BOOLEAN /\ E1.ep_bit \in BOOLEAN
        /\ E0.halt \in BOOLEAN /\ E1.halt \in BOOLEAN
    BY DEF E0, E1, Entries
  <1>3. CASE disable = {}
    BY <1>2, <1>3 DEF retire_count, completed_insts, rt_valid0, rt_valid1,
                      squash_signal, wfi_retires
  <1>4. CASE disable = {1}
    <2>1. rt_valid1
      BY <1>4 DEF Disables
    <2>2. QED
      BY <1>2, <1>4, <2>1 DEF retire_count, completed_insts, rt_valid0, rt_valid1
  <1>5. CASE disable = {0, 1}
    BY <1>2, <1>5 DEF retire_count, completed_insts, rt_valid0, rt_valid1
  <1>6. QED  BY <1>1, <1>3, <1>4, <1>5

\* The two slots dispatch may write lie right after the occupied ones.
LEMMA Offsets ==
  ASSUME head \in Ptrs, Count \in 0 .. ROB_SIZE, tail = Plus(head, Count)
  PROVE  /\ Nth(0) \in Slots /\ Nth(1) \in Slots
         /\ Off(Nth(0)) = 0 /\ Off(Nth(1)) = 1
         /\ Idx(tail) \in Slots
         /\ Count < ROB_SIZE => Off(Idx(tail)) = Count
         /\ Idx(Plus(tail, 1)) \in Slots
         /\ Count + 1 < ROB_SIZE => Off(Idx(Plus(tail, 1))) = Count + 1
         /\ \A i \in Slots : Off(i) \in 0 .. ROB_SIZE - 1
         /\ \A i, j \in Slots : Off(i) = Off(j) => i = j
  BY RobAssumption DEF Nth, Off, Idx, Plus, Ptrs, Slots

\* Moving both ends by what leaves and what enters keeps the tail Count
\* slots behind the head.
LEMMA EndsMove ==
  ASSUME NEW p \in Ptrs, NEW c \in 0 .. ROB_SIZE,
         NEW r \in 0 .. 2, NEW n \in 0 .. 2, r <= c, c + n <= ROB_SIZE
  PROVE  Plus(Plus(p, c), n) = Plus(Plus(p, r), c - r + n)
  BY RobAssumption DEF Plus, Ptrs

\* After the head moved by r, every slot is r closer to it, or went to the
\* far end.
LEMMA OffsetsMove ==
  ASSUME head \in Ptrs, NEW r \in 0 .. 2, head' = Plus(head, r),
         NEW i \in Slots
  PROVE  Off(i)' = IF Off(i) >= r THEN Off(i) - r ELSE Off(i) - r + ROB_SIZE
  BY RobAssumption DEF Off, Idx, Plus, Ptrs, Slots

\* What a broadcast leaves in a slot is an entry.
LEMMA AfterCDBType ==
  ASSUME TypeOK, NEW disable, NEW cdb \in Broadcasts, NEW taken, NEW i \in Slots
  PROVE  AfterCDB(i, disable, cdb, taken) \in Entries
  <1>1. rob[i] \in Entries /\ cdb \subseteq [tag : Slots, insn : Insns]
    BY DEF TypeOK, Broadcasts
  <1>2. CASE \E p \in cdb : p.tag = i
    <2> DEFINE p == CHOOSE q \in cdb : q.tag = i
    <2>1. p \in cdb /\ p.insn \in Insns
      BY <1>2, <1>1
    <2>2. AfterCDB(i, disable, cdb, taken) =
            [rob[i] EXCEPT !.res = p.insn, !.cp_bit = TRUE,
                           !.ep_bit = p \in taken, !.halt = p.insn.kind = "halt"]
      BY <1>2 DEF AfterCDB
    <2> HIDE DEF p
    <2>3. (p \in taken) \in BOOLEAN /\ (p.insn.kind = "halt") \in BOOLEAN
      OBVIOUS
    <2>4. QED  BY <1>1, <2>1, <2>2, <2>3 DEF Entries
  <1>3. CASE ~ \E p \in cdb : p.tag = i
    <2>1. AfterCDB(i, disable, cdb, taken) =
            [rob[i] EXCEPT !.cp_bit = @ /\ ~Retires(i, disable)]
      BY <1>3 DEF AfterCDB
    <2>2. QED  BY <1>1, <2>1 DEF Entries
  <1>4. QED  BY <1>2, <1>3

\* Types are preserved by every step.
LEMMA TypePreserved == TypeOK /\ [Next]_vars => TypeOK'
  <1> SUFFICES ASSUME TypeOK, [Next]_vars PROVE TypeOK'
    OBVIOUS
  <1> USE RobAssumption
  <1>1. ASSUME NEW disable \in Disables, NEW cdb \in Broadcasts,
               NEW taken \in Mispredictions(cdb), NEW n \in 0 .. 2,
               NEW kinds \in [0 .. n - 1 -> Kinds],
               Cycle(disable, cdb, taken, n, kinds)
        PROVE  TypeOK'
    <2>1. /\ Nth(0) \in Slots /\ Nth(1) \in Slots
          /\ Idx(tail) \in Slots /\ Idx(Plus(tail, 1)) \in Slots
      BY DEF TypeOK, Nth, Idx, Plus, Ptrs, Slots
    <2>2. cdb \subseteq [tag : Slots, insn : Insns]
      BY DEF Broadcasts, TypeOK
    <2>3. retire_count(disable) \in 0 .. 2 /\ completed_insts(disable) \in 0 .. 2
      BY DEF retire_count, completed_insts
    <2>4. head' \in Ptrs /\ tail' \in Ptrs
      BY <1>1, <2>3 DEF Cycle, TypeOK, Plus, Ptrs
    <2>5. ASSUME NEW i \in Slots PROVE AfterCDB(i, disable, cdb, taken) \in Entries
      BY AfterCDBType
    <2>6. /\ n >= 1 => Offered(0, kinds) \in Insns
          /\ n = 2 => Offered(1, kinds) \in Insns
      BY DEF Offered, Insns, TypeOK
    <2>7. rob' \in [Slots -> Entries]
      <3>1. ASSUME NEW i \in Slots, n >= 1
            PROVE [AfterCDB(i, disable, cdb, taken) EXCEPT !.insn = Offered(0, kinds)]
                    \in Entries
        BY <2>5, <2>6, <3>1 DEF Entries
      <3>2. ASSUME NEW i \in Slots, n = 2
            PROVE [AfterCDB(i, disable, cdb, taken) EXCEPT !.insn = Offered(1, kinds)]
                    \in Entries
        BY <2>5, <2>6, <3>2 DEF Entries
      <3>3. QED  BY <1>1, <2>5, <3>1, <3>2 DEF Cycle, rob_n
    <2>8. pending' \subseteq [tag : Slots, insn : Insns]
      BY <1>1, <2>1, <2>6 DEF Cycle, Enter, TypeOK
    <2>9. /\ next' \in Nat \ {0} /\ oldest' \in Nat \ {0} /\ halted' \in BOOLEAN
      BY <1>1, <2>3 DEF Cycle, TypeOK, wfi_retires
    <2>10. QED  BY <2>4, <2>7, <2>8, <2>9 DEF TypeOK
  <1>2. ASSUME NEW disable \in Disables, Squash(disable) PROVE TypeOK'
    <2>1. completed_insts(disable) \in 0 .. 2
      BY DEF completed_insts
    <2>2. rob' \in [Slots -> Entries]
      BY <1>2 DEF Squash, Empty, Entries, Insns, NoInsn, Kinds
    <2>3. /\ next' \in Nat \ {0} /\ oldest' \in Nat \ {0} /\ halted' \in BOOLEAN
      BY <1>2, <2>1 DEF Squash, TypeOK, wfi_retires
    <2>4. QED  BY <1>2, <2>2, <2>3 DEF Squash, TypeOK, Ptrs
  <1>3. CASE UNCHANGED vars
    BY <1>3 DEF TypeOK, vars
  <1>4. QED  BY <1>1, <1>2, <1>3 DEF Next, Step, Stopped

-----------------------------------------------------------------------------
(* What one clock edge without a squash does to a slot.                    *)

\* Before dispatch writes: an entry is complete after the edge only if it
\* was occupied, does not retire, and holds the result of its instruction.
LEMMA AfterCDBInv ==
  ASSUME TypeOK, Running,
         NEW disable \in Disables, NEW cdb \in Broadcasts,
         NEW taken \in Mispredictions(cdb),
         ~squash_signal(disable), ~wfi_retires(disable),
         NEW i \in Slots
  PROVE  LET a == AfterCDB(i, disable, cdb, taken) IN
         /\ a.insn = rob[i].insn
         /\ a.cp_bit => /\ retire_count(disable) <= Off(i) /\ Off(i) < Count
                        /\ a.res = a.insn
                        /\ a.halt = (a.insn.kind = "halt")
         /\ (\E p \in pending : p.tag = i) => retire_count(disable) <= Off(i)
         /\ (~rob[i].cp_bit /\ \A p \in cdb : p.tag # i) => ~a.cp_bit
  <1> DEFINE a == AfterCDB(i, disable, cdb, taken)
             r == retire_count(disable)
  <1>1. /\ rob[i] \in Entries
        /\ cdb \subseteq pending
        /\ SlotInv(i)
    BY DEF TypeOK, Running, Broadcasts
  <1>2. /\ Nth(0) \in Slots /\ Nth(1) \in Slots
        /\ Off(Nth(0)) = 0 /\ Off(Nth(1)) = 1
        /\ Off(i) \in 0 .. ROB_SIZE - 1
        /\ \A j \in Slots : Off(i) = Off(j) => i = j
    BY Offsets DEF TypeOK, Running
  <1>3. /\ r \in 0 .. 2
        /\ r >= 1 => rob[Nth(0)].cp_bit
        /\ r = 2 => rob[Nth(1)].cp_bit
    BY <1>2, RetireAgrees DEF TypeOK, E0, E1
  <1>4. r > Off(i) => Retires(i, disable) /\ rob[i].cp_bit
    <2>1. CASE Off(i) = 0
      BY <2>1, <1>2, <1>3 DEF Retires
    <2>2. CASE Off(i) = 1
      BY <2>2, <1>2, <1>3 DEF Retires
    <2>3. QED  BY <2>1, <2>2, <1>2, <1>3
  <1>5. CASE \E p \in cdb : p.tag = i
    <2> DEFINE p == CHOOSE q \in cdb : q.tag = i
    <2>1. p \in cdb /\ p.tag = i
      BY <1>5
    <2>2. a = [rob[i] EXCEPT !.res = p.insn, !.cp_bit = TRUE,
                             !.ep_bit = p \in taken,
                             !.halt = p.insn.kind = "halt"]
      BY <1>5 DEF AfterCDB
    <2> HIDE DEF p, a, r
    <2>3. Off(i) < Count /\ rob[i].insn = p.insn /\ ~rob[i].cp_bit
      BY <2>1, <1>1 DEF Running, PendingInv
    <2>4. /\ a.insn = rob[i].insn /\ a.res = p.insn
          /\ a.halt = (p.insn.kind = "halt")
      BY <2>2, <1>1 DEF Entries
    <2>5. r <= Off(i)
      BY <2>3, <1>4, <1>3, <1>2
    <2>6. QED  BY <2>1, <2>3, <2>4, <2>5 DEF a, r
  <1>6. CASE ~ \E p \in cdb : p.tag = i
    <2>1. a = [rob[i] EXCEPT !.cp_bit = @ /\ ~Retires(i, disable)]
      BY <1>6 DEF AfterCDB
    <2> HIDE DEF a, r
    <2>2. /\ a.insn = rob[i].insn /\ a.res = rob[i].res
          /\ a.halt = rob[i].halt
          /\ a.cp_bit = (rob[i].cp_bit /\ ~Retires(i, disable))
      BY <2>1, <1>1 DEF Entries
    <2>3. a.cp_bit => r <= Off(i)
      <3>1. a.cp_bit => ~Retires(i, disable)
        BY <2>2, Zenon
      <3>2. r <= Off(i) \/ r > Off(i)
        BY <1>3, <1>2
      <3>3. QED  BY <3>1, <3>2, <1>4
    <2>4. (\E p \in pending : p.tag = i) => r <= Off(i)
      BY <1>4, <1>3, <1>2 DEF Running, PendingInv
    <2>5. QED  BY <2>2, <2>3, <2>4, <1>1 DEF SlotInv, a, r
  <1>7. QED  BY <1>5, <1>6

\* Writing the dispatch side of an entry leaves the completion side alone.
LEMMA WriteInsn ==
  ASSUME NEW e \in Entries, NEW x
  PROVE  /\ [e EXCEPT !.insn = x].insn = x
         /\ [e EXCEPT !.insn = x].cp_bit = e.cp_bit
         /\ [e EXCEPT !.insn = x].ep_bit = e.ep_bit
  BY DEF Entries

\* A clock edge without a squash and without a WFI keeps the window.
LEMMA CycleRunning ==
  ASSUME TypeOK, Running,
         NEW disable \in Disables, NEW cdb \in Broadcasts,
         NEW taken \in Mispredictions(cdb), NEW n \in 0 .. 2,
         NEW kinds \in [0 .. n - 1 -> Kinds],
         Cycle(disable, cdb, taken, n, kinds), ~halted'
  PROVE  Running'
  <1> DEFINE r == retire_count(disable)
             a(i) == AfterCDB(i, disable, cdb, taken)
  <1> USE RobAssumption
  <1>1. /\ ~squash_signal(disable) /\ ~wfi_retires(disable)
        /\ head' = Plus(head, r) /\ tail' = Plus(tail, n)
        /\ rob' = rob_n(disable, cdb, taken, n, kinds)
        /\ pending' = (pending \ cdb) \cup Enter(n, kinds)
        /\ next' = next + n /\ oldest' = oldest + completed_insts(disable)
        /\ n <= dp_available
    BY DEF Cycle, CanDispatch
  <1>2. /\ head \in Ptrs /\ Count \in 0 .. ROB_SIZE /\ tail = Plus(head, Count)
        /\ next \in Nat /\ oldest \in Nat
        /\ cdb \subseteq pending
        /\ pending \subseteq [tag : Slots, insn : Insns]
    BY DEF TypeOK, Running, Broadcasts
  <1>3. /\ Nth(0) \in Slots /\ Nth(1) \in Slots
        /\ Off(Nth(0)) = 0 /\ Off(Nth(1)) = 1
        /\ Idx(tail) \in Slots
        /\ Count < ROB_SIZE => Off(Idx(tail)) = Count
        /\ Idx(Plus(tail, 1)) \in Slots
        /\ Count + 1 < ROB_SIZE => Off(Idx(Plus(tail, 1))) = Count + 1
        /\ \A i \in Slots : Off(i) \in 0 .. ROB_SIZE - 1
        /\ \A i, j \in Slots : Off(i) = Off(j) => i = j
    BY <1>2, Offsets
  <1>4. /\ r \in 0 .. 2 /\ completed_insts(disable) = r
        /\ r >= 1 => rob[Nth(0)].cp_bit
        /\ r = 2 => rob[Nth(1)].cp_bit
    BY <1>1, <1>3, RetireAgrees DEF TypeOK, E0, E1
  <1>5. Count + n <= ROB_SIZE
    BY <1>1, <1>2, DispatchFits
  <1>6. r <= Count
    <2>1. SlotInv(Nth(0)) /\ SlotInv(Nth(1))
      BY <1>3 DEF Running
    <2>2. QED  BY <2>1, <1>2, <1>3, <1>4 DEF SlotInv
  <1>7. Count' = Count - r + n
    BY <1>1, <1>2, <1>4 DEF Count
  <1>8. Count' \in 0 .. ROB_SIZE /\ tail' = Plus(head, Count)'
    <2>1. Plus(Plus(head, Count), n) = Plus(Plus(head, r), Count - r + n)
      BY <1>2, <1>4, <1>5, <1>6, EndsMove
    <2>2. Plus(head, Count)' = Plus(head', Count')
      BY DEF Plus
    <2>3. QED  BY <2>1, <2>2, <1>1, <1>2, <1>4, <1>5, <1>6, <1>7
  <1>9. \A i \in Slots : Off(i)' = IF Off(i) >= r THEN Off(i) - r
                                     ELSE Off(i) - r + ROB_SIZE
    BY <1>1, <1>2, <1>4, OffsetsMove
  <1>10. ASSUME NEW i \in Slots
         PROVE  /\ a(i).insn = rob[i].insn
                /\ a(i).cp_bit => /\ r <= Off(i) /\ Off(i) < Count
                                  /\ a(i).res = a(i).insn
                                  /\ a(i).halt = (a(i).insn.kind = "halt")
                /\ (\E p \in pending : p.tag = i) => r <= Off(i)
                /\ (~rob[i].cp_bit /\ \A p \in cdb : p.tag # i) => ~a(i).cp_bit
    BY <1>1, AfterCDBInv
  <1> HIDE DEF a, r
  <1>11. ASSUME NEW i \in Slots
         PROVE  /\ a(i) \in Entries
                /\ rob'[i] = IF n >= 1 /\ i = Idx(tail)
                             THEN [a(i) EXCEPT !.insn = Offered(0, kinds)]
                             ELSE IF n = 2 /\ i = Idx(Plus(tail, 1))
                             THEN [a(i) EXCEPT !.insn = Offered(1, kinds)]
                             ELSE a(i)
    BY <1>1, AfterCDBType DEF rob_n, a
  <1>12. ASSUME NEW i \in Slots PROVE SlotInv(i)'
    <2>1. SlotInv(i) /\ Off(i) \in 0 .. ROB_SIZE - 1
      BY <1>3 DEF Running
    <2>2. oldest' = oldest + r /\ next = oldest + Count
      BY <1>1, <1>2, <1>4 DEF Count
    <2>3. CASE n >= 1 /\ i = Idx(tail)
      <3>1. Off(i) = Count /\ Count < ROB_SIZE /\ ~a(i).cp_bit
        BY <2>3, <1>2, <1>3, <1>5, <1>10
      <3>2. rob'[i].insn.id = next /\ ~rob'[i].cp_bit
        <4>1. rob'[i] = [a(i) EXCEPT !.insn = Offered(0, kinds)] /\ a(i) \in Entries
          BY <2>3, <1>11
        <4>2. Offered(0, kinds).id = next
          BY <1>2 DEF Offered
        <4>3. QED  BY <4>1, <4>2, <3>1, WriteInsn
      <3>3. Off(i)' = Count - r
        BY <3>1, <1>9, <1>6, <1>2, <1>4
      <3>4. QED  BY <3>2, <3>3, <2>2, <1>2, <1>4 DEF SlotInv
    <2>4. CASE n = 2 /\ i = Idx(Plus(tail, 1)) /\ i # Idx(tail)
      <3>1. Off(i) = Count + 1 /\ ~a(i).cp_bit
        BY <2>4, <1>2, <1>3, <1>5, <1>10
      <3>2. rob'[i].insn.id = next + 1 /\ ~rob'[i].cp_bit
        <4>1. rob'[i] = [a(i) EXCEPT !.insn = Offered(1, kinds)] /\ a(i) \in Entries
          BY <2>4, <1>11
        <4>2. Offered(1, kinds).id = next + 1
          BY DEF Offered
        <4>3. QED  BY <4>1, <4>2, <3>1, WriteInsn
      <3>3. Off(i)' = Count + 1 - r
        BY <3>1, <1>9, <1>6, <1>2, <1>4
      <3>4. QED  BY <3>2, <3>3, <2>2, <1>2, <1>4 DEF SlotInv
    <2>5. CASE ~(n >= 1 /\ i = Idx(tail)) /\ ~(n = 2 /\ i = Idx(Plus(tail, 1)))
      <3>1. rob'[i] = a(i)
        BY <2>5, <1>11
      <3>2. Off(i) >= Count + n \/ Off(i) < Count
        BY <2>5, <2>1, <1>2, <1>3, <1>5
      <3>3. Off(i)' < Count' => /\ Off(i) < Count
                                /\ Off(i)' = Off(i) - r
        BY <3>2, <2>1, <1>2, <1>4, <1>5, <1>6, <1>7, <1>9
      <3>4. Off(i)' < Count' => rob'[i].insn.id = oldest' + Off(i)'
        BY <3>1, <3>3, <2>1, <2>2, <1>2, <1>4, <1>10 DEF SlotInv
      <3>5. r <= Off(i) /\ Off(i) < Count => Off(i)' < Count'
        BY <2>1, <1>2, <1>4, <1>7, <1>9
      <3>6. rob'[i].cp_bit => /\ Off(i)' < Count'
                              /\ rob'[i].res = rob'[i].insn
                              /\ rob'[i].halt = (rob'[i].insn.kind = "halt")
        BY <3>1, <3>5, <1>10
      <3>7. QED  BY <3>4, <3>6 DEF SlotInv
    <2>6. QED  BY <2>3, <2>4, <2>5
  <1>13. PendingInv'
    <2> SUFFICES ASSUME NEW p \in pending'
                 PROVE  /\ Off(p.tag)' < Count'
                        /\ rob'[p.tag].insn = p.insn
                        /\ ~rob'[p.tag].cp_bit
      BY DEF PendingInv
    <2>1. CASE p \in pending \ cdb
      <3>1. /\ p \in [tag : Slots, insn : Insns]
            /\ Off(p.tag) < Count
            /\ rob[p.tag].insn = p.insn
            /\ ~rob[p.tag].cp_bit
        BY <2>1, <1>2 DEF Running, PendingInv
      <3>2. \A q \in cdb : q.tag # p.tag
        <4> SUFFICES ASSUME NEW q \in cdb, q.tag = p.tag PROVE FALSE
          OBVIOUS
        <4>1. q \in [tag : Slots, insn : Insns] /\ q.insn = p.insn
          BY <3>1, <1>2 DEF Running, PendingInv
        <4>2. q = p
          BY <4>1, <3>1
        <4>3. QED  BY <4>2, <2>1
      <3>3. /\ a(p.tag).insn = p.insn /\ ~a(p.tag).cp_bit
            /\ r <= Off(p.tag) /\ Off(p.tag) \in 0 .. ROB_SIZE - 1
        BY <3>1, <3>2, <2>1, <1>3, <1>10
      <3>4. rob'[p.tag] = a(p.tag)
        <4>1. p.tag \in Slots
          BY <3>1
        <4>2. n >= 1 => p.tag # Idx(tail)
          BY <3>1, <1>2, <1>3, <1>5
        <4>3. n = 2 => p.tag # Idx(Plus(tail, 1))
          BY <3>1, <1>2, <1>3, <1>5
        <4>4. QED  BY <4>1, <4>2, <4>3, <1>11
      <3>5. Off(p.tag)' < Count'
        BY <3>1, <3>3, <1>2, <1>4, <1>7, <1>9
      <3>6. QED  BY <3>3, <3>4, <3>5
    <2>2. CASE p \in Enter(n, kinds)
      <3>1. CASE n >= 1 /\ p = [tag |-> Idx(tail), insn |-> Offered(0, kinds)]
        <4>1. p.tag \in Slots /\ Off(p.tag) = Count /\ p.tag = Idx(tail)
          BY <3>1, <1>2, <1>3, <1>5
        <4>2. ~a(p.tag).cp_bit
          BY <4>1, <1>2, <1>10
        <4>3. rob'[p.tag].insn = p.insn /\ ~rob'[p.tag].cp_bit
          BY <3>1, <4>1, <4>2, <1>11 DEF Entries
        <4>4. Off(p.tag)' < Count'
          BY <3>1, <4>1, <1>2, <1>4, <1>6, <1>7, <1>9
        <4>5. QED  BY <4>3, <4>4
      <3>2. CASE n = 2 /\ p = [tag |-> Idx(Plus(tail, 1)), insn |-> Offered(1, kinds)]
        <4>1. /\ p.tag \in Slots /\ Off(p.tag) = Count + 1
              /\ p.tag = Idx(Plus(tail, 1)) /\ p.tag # Idx(tail)
          BY <3>2, <1>2, <1>3, <1>5
        <4>2. ~a(p.tag).cp_bit
          BY <4>1, <1>2, <1>10
        <4>3. rob'[p.tag].insn = p.insn /\ ~rob'[p.tag].cp_bit
          BY <3>2, <4>1, <4>2, <1>11 DEF Entries
        <4>4. Off(p.tag)' < Count'
          BY <3>2, <4>1, <1>2, <1>4, <1>6, <1>7, <1>9
        <4>5. QED  BY <4>3, <4>4
      <3>3. QED  BY <2>2, <3>1, <3>2 DEF Enter
    <2>3. QED  BY <2>1, <2>2, <1>1
  <1>14. QED  BY <1>8, <1>12, <1>13 DEF Running

-----------------------------------------------------------------------------
(* The invariant and its consequences.                                     *)

\* No step leaves the invariant: a clock edge with or without a squash, the
\* stopped clock, a stutter.
LEMMA Inductive == IInv /\ [Next]_vars => IInv'
  <1> SUFFICES ASSUME IInv, [Next]_vars PROVE IInv'
    OBVIOUS
  <1>1. TypeOK'
    BY TypePreserved DEF IInv
  <1>2. ASSUME ~halted' PROVE Running'
    <2>1. ASSUME NEW disable \in Disables, NEW cdb \in Broadcasts,
                 NEW taken \in Mispredictions(cdb), NEW n \in 0 .. 2,
                 NEW kinds \in [0 .. n - 1 -> Kinds],
                 Cycle(disable, cdb, taken, n, kinds)
          PROVE  Running'
      BY <1>2, <2>1, CycleRunning DEF IInv, Cycle
    <2>2. ASSUME NEW disable \in Disables, Squash(disable) PROVE Running'
      <3>1. /\ Count' = 0 /\ tail' = 0 /\ head' = 0 /\ pending' = {}
        BY <1>2, <2>2 DEF Squash, Count, IInv, TypeOK
      <3>2. ASSUME NEW i \in Slots PROVE SlotInv(i)'
        <4>1. rob'[i] = Empty
          BY <2>2 DEF Squash
        <4>2. Off(i)' = i
          BY <3>1, RobAssumption DEF Off, Idx, Slots
        <4>3. QED  BY <3>1, <4>1, <4>2 DEF SlotInv, Slots, Empty
      <3>3. Count' \in 0 .. ROB_SIZE /\ tail' = Plus(head, Count)'
        BY <3>1, RobAssumption DEF Plus
      <3>4. PendingInv'
        BY <3>1 DEF PendingInv
      <3>5. QED  BY <3>2, <3>3, <3>4 DEF Running
    <2>3. CASE UNCHANGED vars
      BY <1>2, <2>3 DEF IInv, vars, Running, SlotInv, PendingInv, Count, Plus,
                        Off, Idx
    <2>4. QED  BY <2>1, <2>2, <2>3 DEF Next, Step, Stopped
  <1>3. QED  BY <1>1, <1>2 DEF IInv

\* The buffer as reset leaves it (ROB.sv:213-216) satisfies the invariant.
LEMMA Initially == Init => IInv
  <1> SUFFICES ASSUME Init PROVE IInv
    OBVIOUS
  <1> USE RobAssumption
  <1>1. TypeOK
    <2>1. Empty \in Entries
      BY DEF Empty, Entries, Insns, NoInsn, Kinds
    <2>2. head \in Ptrs /\ tail \in Ptrs
      BY DEF Init, Ptrs
    <2>3. rob \in [Slots -> Entries]
      BY <2>1 DEF Init
    <2>4. halted \in BOOLEAN
      BY Zenon DEF Init
    <2>5. next \in Nat \ {0} /\ oldest \in Nat \ {0} /\ pending = {}
      BY DEF Init
    <2>6. QED  BY <2>2, <2>3, <2>4, <2>5 DEF TypeOK
  <1>2. Count = 0 /\ head = 0 /\ tail = 0 /\ pending = {}
    BY DEF Init, Count
  <1>3. ASSUME NEW i \in Slots PROVE SlotInv(i)
    <2>1. rob[i] = Empty /\ Off(i) = i
      BY <1>2 DEF Init, Off, Idx, Slots
    <2>2. QED  BY <1>2, <2>1 DEF SlotInv, Slots, Empty
  <1>4. QED  BY <1>1, <1>2, <1>3 DEF IInv, Running, PendingInv, Plus

\* IInv is an invariant of the specification.
THEOREM Invariant == Spec => []IInv
  BY Initially, Inductive, PTL DEF Spec

\* The k-th slot from the head is at distance k, and every slot is one.
LEMMA NthOffset ==
  ASSUME head \in Ptrs, NEW k \in 0 .. ROB_SIZE - 1
  PROVE  Nth(k) \in Slots /\ Off(Nth(k)) = k
  BY RobAssumption DEF Nth, Off, Idx, Plus, Ptrs, Slots

\* TypeOK holds in every reachable state, for every size of the buffer.
THEOREM TypeCorrect == Spec => []TypeOK
  <1>1. IInv => TypeOK
    BY DEF IInv
  <1>2. QED  BY <1>1, Invariant, PTL

\* The entries between head and tail are the instructions in flight in
\* program order (ROB.sv:60-87 against the count pipeline.sv:164-186 makes
\* from rt_stage.sv:39-56), whatever the size of the buffer.
THEOREM WindowInOrderHolds == Spec => []WindowInOrder
  <1>1. IInv => WindowInOrder
    <2> SUFFICES ASSUME IInv, ~halted
                 PROVE  /\ Count \in 0 .. ROB_SIZE
                        /\ tail = Plus(head, Count)
                        /\ \A k \in 0 .. ROB_SIZE - 1 :
                             k < Count => rob[Nth(k)].insn.id = oldest + k
      BY DEF WindowInOrder
    <2>1. ASSUME NEW k \in 0 .. ROB_SIZE - 1, k < Count
          PROVE  rob[Nth(k)].insn.id = oldest + k
      <3>1. Nth(k) \in Slots /\ Off(Nth(k)) = k
        BY NthOffset DEF IInv, TypeOK
      <3>2. SlotInv(Nth(k))
        BY <3>1 DEF IInv, Running
      <3>3. QED  BY <2>1, <3>1, <3>2 DEF SlotInv
    <2>2. QED  BY <2>1 DEF IInv, Running
  <1>2. QED  BY <1>1, Invariant, PTL

\* A completion bit is set only in an occupied entry and by the result of
\* the instruction it holds, although dispatch never clears the bit
\* (ROB.sv:142-182) and retirement never asks whether the entry after the
\* head is occupied (ROB.sv:60).
THEOREM NoStaleCompletionHolds == Spec => []NoStaleCompletion
  <1>1. IInv => NoStaleCompletion
    <2> SUFFICES ASSUME IInv, ~halted, NEW k \in 0 .. ROB_SIZE - 1,
                        rob[Nth(k)].cp_bit
                 PROVE  k < Count /\ rob[Nth(k)].res = rob[Nth(k)].insn
      BY DEF NoStaleCompletion
    <2>1. Nth(k) \in Slots /\ Off(Nth(k)) = k
      BY NthOffset DEF IInv, TypeOK
    <2>2. SlotInv(Nth(k))
      BY <2>1 DEF IInv, Running
    <2>3. QED  BY <2>1, <2>2 DEF SlotInv
  <1>2. QED  BY <1>1, Invariant, PTL

\* An instruction is its two fields.
LEMMA InsnFields ==
  ASSUME NEW x \in Insns PROVE x = [id |-> x.id, kind |-> x.kind]
  BY DEF Insns

\* The last instruction counted when the testbench stops is the WFI
\* (rt_stage.sv:49-56, pipeline.sv:165-180).
THEOREM WfiRetiresLastHolds == Spec => WfiRetiresLast
  <1>1. IInv /\ [Next]_vars =>
          [halted' /\ ~halted =>
             \E k \in 0 .. 1 :
               rob[Nth(k)].insn = [id |-> oldest' - 1, kind |-> "halt"]]_vars
    <2> SUFFICES ASSUME IInv, Next, halted', ~halted
                 PROVE  \E k \in 0 .. 1 :
                          rob[Nth(k)].insn = [id |-> oldest' - 1, kind |-> "halt"]
      BY DEF vars
    <2>1. PICK disable \in Disables :
            wfi_retires(disable) /\ oldest' = oldest + completed_insts(disable)
      BY DEF Next, Step, Cycle, Squash, Stopped
    <2>2. /\ Nth(0) \in Slots /\ Nth(1) \in Slots
          /\ Off(Nth(0)) = 0 /\ Off(Nth(1)) = 1
          /\ SlotInv(Nth(0)) /\ SlotInv(Nth(1))
      BY NthOffset, RobAssumption DEF IInv, Running, TypeOK
    <2>3. /\ E0.cp_bit => /\ E0.insn.id = oldest
                          /\ E0.halt = (E0.insn.kind = "halt")
          /\ E1.cp_bit => /\ E1.insn.id = oldest + 1
                          /\ E1.halt = (E1.insn.kind = "halt")
          /\ E0.insn \in Insns /\ E1.insn \in Insns
          /\ oldest \in Nat
      BY <2>2 DEF SlotInv, E0, E1, IInv, TypeOK, Entries
    <2>4. disable \in {{}, {1}, {0, 1}}
      BY DEF Disables
    <2>5. CASE E0.cp_bit /\ E0.halt
      <3>1. disable = {}
        BY <2>3, <2>4, <2>5 DEF Disables, rt_valid0, rt_valid1
      <3>2. completed_insts(disable) = 1
        BY <2>5, <3>1 DEF completed_insts, rt_valid0, rt_valid1
      <3>3. E0.insn = [id |-> oldest' - 1, kind |-> "halt"]
        <4>1. E0.insn.id = oldest' - 1 /\ E0.insn.kind = "halt"
          <5>1. E0.insn.id = oldest' - 1
            BY <2>1, <2>3, <2>5, <3>2
          <5>2. E0.insn.kind = "halt"
            BY <2>3, <2>5, Zenon
          <5>3. QED  BY <5>1, <5>2
        <4>2. QED  BY <4>1, <2>3, InsnFields
      <3>4. QED  BY <3>3 DEF E0
    <2>6. CASE ~(E0.cp_bit /\ E0.halt)
      <3>1. rt_valid0 /\ rt_valid1 /\ E1.cp_bit /\ E1.halt
        BY <2>1, <2>6 DEF wfi_retires, rt_valid0, rt_valid1
      <3>2. disable = {}
        BY <2>1, <2>3, <2>4, <2>6, <3>1 DEF Disables, wfi_retires
      <3>3. completed_insts(disable) = 2
        BY <3>1, <3>2 DEF completed_insts
      <3>4. E1.insn = [id |-> oldest' - 1, kind |-> "halt"]
        <4>1. E1.insn.id = oldest' - 1 /\ E1.insn.kind = "halt"
          <5>1. E1.insn.id = oldest' - 1
            BY <2>1, <2>3, <3>1, <3>3
          <5>2. E1.insn.kind = "halt"
            BY <2>3, <3>1, Zenon
          <5>3. QED  BY <5>1, <5>2
        <4>2. QED  BY <4>1, <2>3, InsnFields
      <3>5. QED  BY <3>4 DEF E1
    <2>7. QED  BY <2>5, <2>6
  <1>2. QED  BY <1>1, Invariant, PTL DEF Spec, WfiRetiresLast

-----------------------------------------------------------------------------
(* Rob implements RetireOrder.  The finished instructions are collected    *)
(* slot by slot instead of by distance from the head.                      *)

DoneAt == {oldest + Off(i) : i \in {j \in Slots : rob[j].cp_bit}}
MispredAt == {oldest + Off(i) : i \in {j \in Slots : rob[j].cp_bit /\ rob[j].ep_bit}}

\* Collecting the finished instructions by slot or by distance is the same.
LEMMA BySlot ==
  ASSUME IInv, ~halted
  PROVE  doneIds = DoneAt /\ mispredIds = MispredAt
  <1>1. ASSUME NEW k \in 0 .. Count - 1
        PROVE  Nth(k) \in Slots /\ Off(Nth(k)) = k
    BY NthOffset, RobAssumption DEF IInv, Running, TypeOK
  <1>2. ASSUME NEW i \in Slots, rob[i].cp_bit
        PROVE  Off(i) \in 0 .. Count - 1 /\ Nth(Off(i)) = i
    <2>1. Off(i) < Count
      BY <1>2 DEF IInv, Running, SlotInv
    <2>2. Off(i) \in 0 .. ROB_SIZE - 1
      BY Offsets DEF IInv, Running, TypeOK
    <2>3. Nth(Off(i)) = i
      BY RobAssumption DEF Nth, Off, Idx, Plus, Ptrs, Slots, IInv, TypeOK
    <2>4. QED  BY <2>1, <2>2, <2>3 DEF IInv, Running
  <1>3. doneIds = DoneAt
    BY <1>1, <1>2 DEF doneIds, DoneAt
  <1>4. mispredIds = MispredAt
    BY <1>1, <1>2 DEF mispredIds, MispredAt
  <1>5. QED  BY <1>3, <1>4

\* Which slots are complete after a clock edge without a squash.
LEMMA CompletedAfter ==
  ASSUME TypeOK, Running,
         NEW disable \in Disables, NEW cdb \in Broadcasts,
         NEW taken \in Mispredictions(cdb),
         ~squash_signal(disable), ~wfi_retires(disable),
         NEW i \in Slots
  PROVE  LET a == AfterCDB(i, disable, cdb, taken) IN
         /\ (\E p \in cdb : p.tag = i) =>
               /\ a.cp_bit /\ (a.ep_bit <=> \E p \in taken : p.tag = i)
               /\ ~rob[i].cp_bit /\ Off(i) < Count
         /\ (\A p \in cdb : p.tag # i) =>
               /\ a.cp_bit <=> (rob[i].cp_bit /\ retire_count(disable) <= Off(i))
               /\ a.ep_bit <=> rob[i].ep_bit
  <1> DEFINE a == AfterCDB(i, disable, cdb, taken)
  <1>1. /\ rob[i] \in Entries /\ SlotInv(i)
        /\ cdb \subseteq pending /\ taken \subseteq cdb
        /\ pending \subseteq [tag : Slots, insn : Insns]
    BY DEF TypeOK, Running, Broadcasts, Mispredictions
  <1>2. CASE \E p \in cdb : p.tag = i
    <2> DEFINE p == CHOOSE q \in cdb : q.tag = i
    <2>1. p \in cdb /\ p.tag = i
      BY <1>2
    <2>2. a = [rob[i] EXCEPT !.res = p.insn, !.cp_bit = TRUE,
                             !.ep_bit = p \in taken,
                             !.halt = p.insn.kind = "halt"]
      BY <1>2 DEF AfterCDB
    <2> HIDE DEF p, a
    <2>3. Off(i) < Count /\ rob[i].insn = p.insn /\ ~rob[i].cp_bit
      BY <2>1, <1>1 DEF Running, PendingInv
    <2>4. ASSUME NEW q \in taken, q.tag = i PROVE q = p
      <3>1. q.insn = rob[i].insn
        BY <2>4, <1>1 DEF Running, PendingInv
      <3>2. /\ q \in [tag : Slots, insn : Insns]
            /\ p \in [tag : Slots, insn : Insns]
        BY <1>1, <2>1
      <3>3. q.tag = p.tag /\ q.insn = p.insn
        BY <3>1, <2>1, <2>3, <2>4
      <3>4. QED  BY <3>2, <3>3
    <2>5. a.ep_bit <=> p \in taken
      BY <2>2, <1>1 DEF Entries
    <2>6. a.cp_bit
      BY <2>2, <1>1 DEF Entries
    <2>7. (p \in taken) <=> \E q \in taken : q.tag = i
      BY <2>1, <2>4
    <2>8. QED  BY <1>2, <2>3, <2>5, <2>6, <2>7 DEF a
  <1>3. CASE \A p \in cdb : p.tag # i
    <2>1. a = [rob[i] EXCEPT !.cp_bit = @ /\ ~Retires(i, disable)]
      BY <1>3 DEF AfterCDB
    <2> HIDE DEF a
    <2>2. /\ a.ep_bit = rob[i].ep_bit
          /\ a.cp_bit = (rob[i].cp_bit /\ ~Retires(i, disable))
      BY <2>1, <1>1 DEF Entries
    <2>3. rob[i].cp_bit => (Retires(i, disable) <=> retire_count(disable) > Off(i))
      <3>1. /\ Nth(0) \in Slots /\ Nth(1) \in Slots
            /\ Off(Nth(0)) = 0 /\ Off(Nth(1)) = 1
            /\ Off(i) \in 0 .. ROB_SIZE - 1
            /\ \A j \in Slots : Off(i) = Off(j) => i = j
        BY Offsets DEF TypeOK, Running
      <3>2. retire_count(disable) \in 0 .. 2
        BY DEF retire_count
      <3>3. QED  BY <3>1, <3>2 DEF Retires
    <2>4. Off(i) \in 0 .. ROB_SIZE - 1 /\ retire_count(disable) \in 0 .. 2
      BY Offsets DEF TypeOK, Running, retire_count
    <2>5. retire_count(disable) <= Off(i) <=> ~(retire_count(disable) > Off(i))
      BY <2>4
    <2>6. QED  BY <1>3, <2>2, <2>3, <2>5, Zenon DEF a
  <1>4. QED  BY <1>2, <1>3

\* A clock edge without a squash is a cycle of RetireOrder.
LEMMA CycleRefines ==
  ASSUME IInv, IInv', ~halted, ~halted',
         NEW disable \in Disables, NEW cdb \in Broadcasts,
         NEW taken \in Mispredictions(cdb), NEW n \in 0 .. 2,
         NEW kinds \in [0 .. n - 1 -> Kinds],
         Cycle(disable, cdb, taken, n, kinds)
  PROVE  Order!Next
  <1> DEFINE r == retire_count(disable)
             a(i) == AfterCDB(i, disable, cdb, taken)
             C == {oldest + Off(p.tag) : p \in cdb}
             B == {oldest + Off(p.tag) : p \in taken}
             gone == oldest .. oldest + r - 1
  <1> USE RobAssumption
  <1>1. /\ ~squash_signal(disable) /\ ~wfi_retires(disable)
        /\ head' = Plus(head, r)
        /\ rob' = rob_n(disable, cdb, taken, n, kinds)
        /\ next' = next + n /\ oldest' = oldest + completed_insts(disable)
        /\ n <= dp_available
    BY DEF Cycle, CanDispatch
  <1>2. /\ TypeOK /\ Running
        /\ head \in Ptrs /\ Count \in 0 .. ROB_SIZE /\ tail = Plus(head, Count)
        /\ next \in Nat /\ oldest \in Nat /\ next = oldest + Count
        /\ cdb \subseteq pending /\ taken \subseteq cdb
        /\ pending \subseteq [tag : Slots, insn : Insns]
    BY DEF IInv, TypeOK, Running, Broadcasts, Mispredictions, Count
  <1>3. /\ Nth(0) \in Slots /\ Nth(1) \in Slots
        /\ Off(Nth(0)) = 0 /\ Off(Nth(1)) = 1
        /\ \A i \in Slots : Off(i) \in 0 .. ROB_SIZE - 1
        /\ \A i, j \in Slots : Off(i) = Off(j) => i = j
    BY <1>2, Offsets
  <1>4. /\ r \in 0 .. 2 /\ completed_insts(disable) = r
        /\ r >= 1 => rob[Nth(0)].cp_bit /\ ~rob[Nth(0)].ep_bit
        /\ r = 2 => rob[Nth(1)].cp_bit /\ ~rob[Nth(1)].ep_bit
    BY <1>1, <1>2, <1>3, RetireAgrees DEF TypeOK, E0, E1
  <1>5. Count + n <= ROB_SIZE
    BY <1>1, <1>2, DispatchFits
  <1>6. \A i \in Slots : Off(i)' = IF Off(i) >= r THEN Off(i) - r
                                    ELSE Off(i) - r + ROB_SIZE
    BY <1>1, <1>2, <1>4, OffsetsMove
  <1>7. ASSUME NEW i \in Slots
        PROVE  rob'[i].cp_bit = a(i).cp_bit /\ rob'[i].ep_bit = a(i).ep_bit
    <2>1. a(i) \in Entries
      BY <1>2, AfterCDBType DEF a
    <2>2. \/ rob'[i] = a(i)
          \/ rob'[i] = [a(i) EXCEPT !.insn = Offered(0, kinds)]
          \/ rob'[i] = [a(i) EXCEPT !.insn = Offered(1, kinds)]
      BY <1>1 DEF rob_n, a
    <2> HIDE DEF a
    <2>3. CASE rob'[i] = a(i)
      BY <2>3
    <2>4. CASE rob'[i] = [a(i) EXCEPT !.insn = Offered(0, kinds)]
      BY <2>1, <2>4, WriteInsn
    <2>5. CASE rob'[i] = [a(i) EXCEPT !.insn = Offered(1, kinds)]
      BY <2>1, <2>5, WriteInsn
    <2>6. QED  BY <2>2, <2>3, <2>4, <2>5
  <1>8. ASSUME NEW i \in Slots
        PROVE  /\ (\E p \in cdb : p.tag = i) =>
                     /\ a(i).cp_bit /\ (a(i).ep_bit <=> \E p \in taken : p.tag = i)
                     /\ ~rob[i].cp_bit /\ Off(i) < Count
               /\ (\A p \in cdb : p.tag # i) =>
                     /\ a(i).cp_bit <=> (rob[i].cp_bit /\ r <= Off(i))
                     /\ a(i).ep_bit <=> rob[i].ep_bit
               /\ a(i).cp_bit => r <= Off(i)
    BY <1>1, <1>2, CompletedAfter, AfterCDBInv
  <1>9. doneIds = DoneAt /\ mispredIds = MispredAt
    BY BySlot
  <1>10. (doneIds = DoneAt)' /\ (mispredIds = MispredAt)'
    BY BySlot, PTL
  <1> HIDE DEF r, a
  <1>11. ASSUME NEW i \in Slots, r <= Off(i)
         PROVE  oldest' + Off(i)' = oldest + Off(i)
    BY <1>1, <1>2, <1>3, <1>4, <1>6, <1>11
  <1>12. DoneAt' = (DoneAt \ gone) \cup C
    <2>1. ASSUME NEW i \in Slots, rob'[i].cp_bit
          PROVE  oldest' + Off(i)' \in (DoneAt \ gone) \cup C
      <3>1. r <= Off(i) /\ oldest' + Off(i)' = oldest + Off(i)
        BY <2>1, <1>7, <1>8, <1>11
      <3>2. CASE \E p \in cdb : p.tag = i
        BY <3>1, <3>2
      <3>3. CASE \A p \in cdb : p.tag # i
        <4>1. rob[i].cp_bit
          BY <2>1, <3>3, <1>7, <1>8
        <4>2. oldest + Off(i) \notin gone
          BY <3>1, <1>2, <1>3, <1>4
        <4>3. QED  BY <3>1, <4>1, <4>2 DEF DoneAt
      <3>4. QED  BY <3>2, <3>3
    <2>2. ASSUME NEW p \in cdb PROVE oldest + Off(p.tag) \in DoneAt'
      <3>1. p.tag \in Slots /\ rob'[p.tag].cp_bit
        BY <1>2, <1>7, <1>8
      <3>2. oldest' + Off(p.tag)' = oldest + Off(p.tag)
        BY <3>1, <1>7, <1>8, <1>11
      <3>3. QED  BY <3>1, <3>2 DEF DoneAt
    <2>3. ASSUME NEW i \in Slots, rob[i].cp_bit, oldest + Off(i) \notin gone
          PROVE  oldest + Off(i) \in DoneAt'
      <3>1. r <= Off(i)
        BY <2>3, <1>2, <1>3, <1>4
      <3>2. rob'[i].cp_bit
        BY <2>3, <3>1, <1>7, <1>8
      <3>3. QED  BY <3>1, <3>2, <1>11 DEF DoneAt
    <2>4. (DoneAt \ gone) \cup C \subseteq DoneAt'
      BY <2>2, <2>3 DEF DoneAt
    <2>5. DoneAt' \subseteq (DoneAt \ gone) \cup C
      BY <2>1 DEF DoneAt
    <2>6. QED  BY <2>4, <2>5
  <1>13. MispredAt' = MispredAt \cup B
    <2>1. ASSUME NEW i \in Slots, rob'[i].cp_bit, rob'[i].ep_bit
          PROVE  oldest' + Off(i)' \in MispredAt \cup B
      <3>1. oldest' + Off(i)' = oldest + Off(i)
        BY <2>1, <1>7, <1>8, <1>11
      <3>2. CASE \E p \in cdb : p.tag = i
        <4>1. \E p \in taken : p.tag = i
          BY <2>1, <3>2, <1>7, <1>8
        <4>2. QED  BY <3>1, <4>1
      <3>3. CASE \A p \in cdb : p.tag # i
        <4>1. rob[i].cp_bit /\ rob[i].ep_bit
          BY <2>1, <3>3, <1>7, <1>8
        <4>2. QED  BY <3>1, <4>1 DEF MispredAt
      <3>4. QED  BY <3>2, <3>3
    <2>2. ASSUME NEW p \in taken PROVE oldest + Off(p.tag) \in MispredAt'
      <3>1. p.tag \in Slots /\ rob'[p.tag].cp_bit /\ rob'[p.tag].ep_bit
        BY <1>2, <1>7, <1>8
      <3>2. oldest' + Off(p.tag)' = oldest + Off(p.tag)
        BY <3>1, <1>7, <1>8, <1>11
      <3>3. QED  BY <3>1, <3>2 DEF MispredAt
    <2>3. ASSUME NEW i \in Slots, rob[i].cp_bit, rob[i].ep_bit
          PROVE  oldest + Off(i) \in MispredAt'
      <3>1. r <= Off(i)
        <4>1. Off(i) = 0 => i = Nth(0)
          BY <1>3
        <4>2. Off(i) = 1 => i = Nth(1)
          BY <1>3
        <4>3. QED  BY <2>3, <4>1, <4>2, <1>3, <1>4
      <3>2. rob'[i].cp_bit /\ rob'[i].ep_bit
        BY <2>3, <3>1, <1>7, <1>8
      <3>3. QED  BY <3>1, <3>2, <1>11 DEF MispredAt
    <2>4. MispredAt \cup B \subseteq MispredAt'
      BY <2>2, <2>3 DEF MispredAt
    <2>5. MispredAt' \subseteq MispredAt \cup B
      BY <2>1 DEF MispredAt
    <2>6. QED  BY <2>4, <2>5
  <1>14. gone \subseteq DoneAt \ MispredAt
    <2> SUFFICES ASSUME NEW x \in gone PROVE x \in DoneAt /\ x \notin MispredAt
      OBVIOUS
    <2>1. PICK k \in 0 .. 1 : k < r /\ x = oldest + k
      <3>1. x - oldest \in 0 .. 1 /\ x - oldest < r /\ x = oldest + (x - oldest)
        BY <1>2, <1>4
      <3>2. QED  BY <3>1
    <2>2. /\ Nth(k) \in Slots /\ Off(Nth(k)) = k
          /\ rob[Nth(k)].cp_bit /\ ~rob[Nth(k)].ep_bit
      BY <2>1, <1>3, <1>4
    <2>3. x \in DoneAt
      BY <2>1, <2>2 DEF DoneAt
    <2>4. ASSUME NEW i \in Slots, rob[i].ep_bit, x = oldest + Off(i) PROVE FALSE
      <3>1. Off(i) = Off(Nth(k))
        BY <2>1, <2>2, <2>4, <1>2, <1>3
      <3>2. i = Nth(k)
        BY <3>1, <2>2, <1>3
      <3>3. QED  BY <3>2, <2>2, <2>4
    <2>5. QED  BY <2>3, <2>4 DEF MispredAt
  <1>15. C \subseteq (oldest .. next - 1) \ DoneAt /\ B \subseteq C
    <2>1. ASSUME NEW p \in cdb
          PROVE  /\ oldest + Off(p.tag) \in oldest .. next - 1
                 /\ oldest + Off(p.tag) \notin DoneAt
      <3>1. p.tag \in Slots /\ ~rob[p.tag].cp_bit /\ Off(p.tag) < Count
        BY <1>2, <1>8
      <3>2. ASSUME NEW i \in Slots, rob[i].cp_bit, oldest + Off(p.tag) = oldest + Off(i)
            PROVE  FALSE
        <4>1. Off(i) = Off(p.tag)
          BY <3>1, <3>2, <1>2, <1>3
        <4>2. i = p.tag
          BY <3>1, <4>1, <1>3
        <4>3. QED  BY <4>2, <3>1, <3>2
      <3>3. oldest + Off(p.tag) \in oldest .. next - 1
        BY <3>1, <1>2, <1>3
      <3>4. QED  BY <3>2, <3>3 DEF DoneAt
    <2>2. QED  BY <2>1, <1>2
  <1>16. Order!Cycle(r, n, C, B)
    BY <1>1, <1>2, <1>4, <1>5, <1>9, <1>10, <1>12, <1>13, <1>14, <1>15
       DEF Order!Cycle, Order!InFlight
  <1>17. QED
    <2>1. C \in SUBSET Order!InFlight /\ B \in SUBSET C
      BY <1>15 DEF Order!InFlight
    <2>2. r \in 0 .. 2 /\ n \in 0 .. 2
      BY <1>4
    <2>3. QED  BY <1>16, <2>1, <2>2 DEF Order!Next

\* A squash is a squash of RetireOrder: a mispredicted branch retires, last
\* of its cycle, and nothing younger survives.
LEMMA SquashRefines ==
  ASSUME IInv, IInv', ~halted, ~halted',
         NEW disable \in Disables, Squash(disable)
  PROVE  Order!Next
  <1> USE RobAssumption
  <1>1. /\ squash_signal(disable) /\ ~wfi_retires(disable) /\ disable = {}
        /\ next' = next /\ oldest' = next
        /\ rob' = [i \in Slots |-> Empty]
    BY DEF Squash, squash_signal
  <1>2. /\ Nth(0) \in Slots /\ Nth(1) \in Slots
        /\ Off(Nth(0)) = 0 /\ Off(Nth(1)) = 1
        /\ \A i, j \in Slots : Off(i) = Off(j) => i = j
        /\ \A i \in Slots : Off(i) \in 0 .. ROB_SIZE - 1
        /\ oldest \in Nat
    BY Offsets DEF IInv, Running, TypeOK
  <1>3. doneIds = DoneAt /\ mispredIds = MispredAt
    BY BySlot
  <1>4. doneIds' = {} /\ mispredIds' = {}
    <2>1. (doneIds = DoneAt)' /\ (mispredIds = MispredAt)'
      BY BySlot, PTL
    <2>2. \A i \in Slots : ~rob'[i].cp_bit
      BY <1>1 DEF Empty
    <2>3. QED  BY <2>1, <2>2 DEF DoneAt, MispredAt
  <1>5. /\ E0.cp_bit => oldest \in DoneAt
        /\ E0.cp_bit /\ E0.ep_bit => oldest \in MispredAt
        /\ E1.cp_bit => oldest + 1 \in DoneAt
        /\ E1.cp_bit /\ E1.ep_bit => oldest + 1 \in MispredAt
    BY <1>2 DEF E0, E1, DoneAt, MispredAt
  <1>6. ~E0.ep_bit => oldest \notin MispredAt
    <2> SUFFICES ASSUME NEW i \in Slots, rob[i].ep_bit, oldest + Off(i) = oldest
                 PROVE  E0.ep_bit
      BY DEF MispredAt
    <2>1. i = Nth(0)
      BY <1>2
    <2>2. QED  BY <2>1 DEF E0
  <1>7. CASE E0.cp_bit /\ E0.ep_bit
    <2>1. /\ oldest .. oldest + 1 - 1 = {oldest}
          /\ oldest .. oldest + 1 - 2 = {}
          /\ oldest + 1 - 1 = oldest
      BY <1>2
    <2>2. Order!Squash(1)
      BY <1>1, <1>3, <1>4, <1>5, <1>7, <2>1 DEF Order!Squash
    <2>3. QED  BY <2>2 DEF Order!Next
  <1>8. CASE ~(E0.cp_bit /\ E0.ep_bit)
    <2>1. E0.cp_bit /\ E1.cp_bit /\ ~E0.ep_bit /\ E1.ep_bit
      BY <1>1, <1>8 DEF squash_signal
    <2>2. /\ oldest .. oldest + 2 - 1 = {oldest, oldest + 1}
          /\ oldest .. oldest + 2 - 2 = {oldest}
          /\ oldest + 2 - 1 = oldest + 1
      BY <1>2
    <2>3. Order!Squash(2)
      BY <1>1, <1>3, <1>4, <1>5, <1>6, <2>1, <2>2 DEF Order!Squash
    <2>4. QED  BY <2>3 DEF Order!Next
  <1>9. QED  BY <1>7, <1>8

\* The reorder buffer and the retire stage implement in-order retirement
\* for every size: each instruction retires once, complete, in program
\* order, and none younger than a mispredicted branch (ROB.sv:60-100,
\* rt_stage.sv:30-60).
THEOREM RetiresInOrderHolds == Spec => RetiresInOrder
  <1>1. Init => Order!Init
    <2> SUFFICES ASSUME Init PROVE Order!Init
      OBVIOUS
    <2>1. Count = 0
      BY DEF Init, Count
    <2>2. doneIds = {} /\ mispredIds = {}
      BY <2>1 DEF doneIds, mispredIds
    <2>3. QED  BY <2>2 DEF Init, Order!Init
  <1>2. IInv /\ IInv' /\ [Next]_vars => [halted' \/ Order!Next]_(Order!vars)
    <2> SUFFICES ASSUME IInv, IInv', [Next]_vars
                 PROVE  [halted' \/ Order!Next]_(Order!vars)
      OBVIOUS
    <2>1. ASSUME ~halted', NEW disable \in Disables, NEW cdb \in Broadcasts,
                 NEW taken \in Mispredictions(cdb), NEW n \in 0 .. 2,
                 NEW kinds \in [0 .. n - 1 -> Kinds],
                 Cycle(disable, cdb, taken, n, kinds)
          PROVE  Order!Next
      <3>1. ~halted
        BY <2>1 DEF Cycle
      <3>2. QED  BY <2>1, <3>1, CycleRefines
    <2>2. ASSUME ~halted', NEW disable \in Disables, Squash(disable)
          PROVE  Order!Next
      <3>1. ~halted
        BY <2>2 DEF Squash
      <3>2. QED  BY <2>2, <3>1, SquashRefines
    <2>3. CASE UNCHANGED vars
      BY <2>3 DEF vars, Order!vars, doneIds, mispredIds, Count, Nth, Idx, Plus
    <2>4. QED  BY <2>1, <2>2, <2>3 DEF Next, Step, Stopped
  <1>3. QED  BY <1>1, <1>2, Invariant, PTL DEF Spec, RetiresInOrder
=============================================================================
