--------------------------- MODULE Frontend_proofs ---------------------------
(***************************************************************************)
(* Proofs about Frontend, for every depth of the buffer of at least three  *)
(* places and any number of PCs.  The invariant is inductive as it stands; *)
(* what takes an argument is that pointers with an extra bit, which wrap   *)
(* at twice the depth, are distances from the read pointer, and that the   *)
(* places a cycle writes and reads are told apart by these.                *)
(***************************************************************************)
EXTENDS Frontend, TLAPS

Pointers == 0 .. 2 * DEPTH - 1

\* The place of the k-th packet behind the read pointer.
Pos(k) == Idx(Plus(rptr, k))

FrontendInv == TypeOK /\ NoOverrun /\ Chained

-----------------------------------------------------------------------------
(* Pointers as distances.                                                  *)

\* A pointer moved on is a pointer, and two moves are one.
LEMMA Moves ==
  ASSUME NEW p \in Pointers, NEW j \in Nat, NEW k \in Nat, j + k < 2 * DEPTH
  PROVE  /\ Plus(p, j) \in Pointers
         /\ Plus(Plus(p, j), k) = Plus(p, j + k)
  BY FrontendAssumption DEF Plus, Pointers

\* The write pointer is the read pointer moved on by the size, and by no other
\* distance.
LEMMA SizeIsDistance ==
  ASSUME rptr \in Pointers, wptr \in Pointers
  PROVE  /\ Size \in Pointers
         /\ wptr = Plus(rptr, Size)
         /\ \A s \in Pointers : wptr = Plus(rptr, s) => s = Size
  BY FrontendAssumption DEF Plus, Pointers, Size

\* Fewer than DEPTH apart, two distances are two places.
LEMMA PlacesDiffer ==
  ASSUME rptr \in Pointers, NEW j \in 0 .. DEPTH - 1, NEW k \in 0 .. DEPTH - 1
  PROVE  /\ Pos(j) \in 0 .. DEPTH - 1
         /\ Pos(j) = Pos(k) => j = k
  BY FrontendAssumption DEF Plus, Pointers, Pos, Idx

\* The conditions empty and buffer_full, as sizes.
LEMMA Conditions ==
  ASSUME rptr \in Pointers, wptr \in Pointers, NoOverrun
  PROVE  /\ empty <=> Size <= 1
         /\ buffer_full <=> Size >= DEPTH - 1
  BY FrontendAssumption
     DEF Plus, Pointers, Size, NoOverrun, empty, buffer_full, Opposite

-----------------------------------------------------------------------------
(* One cycle.                                                              *)

\* What the predictor says of the two instructions are PCs.
LEMMA GuessesArePCs ==
  ASSUME TypeOK, NEW guess \in Guesses
  PROVE  /\ bp_pc(guess) \in PCs
         /\ bp_npc(0, guess) \in PCs
         /\ bp_npc(1, guess) \in PCs
  <1>1. \A p \in PCs : Next_PC(p) \in PCs
    BY FrontendAssumption DEF PCs, Next_PC
  <1>2. PC_reg[0] \in PCs /\ PC_reg[1] \in PCs
    BY DEF TypeOK
  <1>3. \A i \in 0 .. 1 : guess[i] \in PCs \/ guess[i] = NoGuess
    BY DEF Guesses
  <1>4. QED  BY <1>1, <1>2, <1>3 DEF bp_pc, bp_npc

\* Packets already in the buffer stay, the new ones come behind them.
LEMMA WritesBehind ==
  ASSUME TypeOK, NoOverrun, NEW n \in 0 .. 2, NEW npc, Write(n, npc),
         Size + n <= DEPTH
  PROVE  /\ \A k \in 0 .. Size - 1 : mem'[Pos(k)] = Nth(k)
         /\ n >= 1 => mem'[Pos(Size)] = [PC |-> PC_reg[0], NPC |-> npc[0]]
         /\ n = 2 => mem'[Pos(Size + 1)] = [PC |-> PC_reg[1], NPC |-> npc[1]]
  <1>1. rptr \in Pointers /\ wptr \in Pointers
    BY DEF TypeOK, Pointers
  <1>2. Size \in 0 .. DEPTH /\ wptr = Plus(rptr, Size)
    BY <1>1, SizeIsDistance, FrontendAssumption DEF NoOverrun, Pointers
  <1>3. Idx(wptr) = Pos(Size) /\ (n = 2 => Idx(Plus(wptr, 1)) = Pos(Size + 1))
    <2>1. n = 2 => Plus(wptr, 1) = Plus(rptr, Size + 1)
      BY <1>1, <1>2, Moves, FrontendAssumption
    <2>2. QED  BY <1>2, <2>1 DEF Pos
  <1>4. \A j, k \in 0 .. DEPTH - 1 :
          Pos(j) \in 0 .. DEPTH - 1 /\ (Pos(j) = Pos(k) => j = k)
    BY <1>1, PlacesDiffer
  <1>5. ASSUME NEW k \in 0 .. Size - 1
        PROVE  mem'[Pos(k)] = Nth(k)
    <2>1. k \in 0 .. DEPTH - 1 /\ Pos(k) \in 0 .. DEPTH - 1
      BY <1>2, <1>4, FrontendAssumption
    <2>2. n >= 1 => Pos(k) # Idx(wptr)
      BY <1>2, <1>3, <1>4, <2>1, FrontendAssumption
    <2>3. n = 2 => Pos(k) # Idx(Plus(wptr, 1))
      BY <1>2, <1>3, <1>4, <2>1, FrontendAssumption
    <2>4. QED  BY <2>1, <2>2, <2>3 DEF Write, Nth, Pos
  <1>6. n >= 1 => mem'[Pos(Size)] = [PC |-> PC_reg[0], NPC |-> npc[0]]
    BY <1>2, <1>3, <1>4, FrontendAssumption DEF Write
  <1>7. n = 2 => mem'[Pos(Size + 1)] = [PC |-> PC_reg[1], NPC |-> npc[1]]
    BY <1>2, <1>3, <1>4, FrontendAssumption DEF Write
  <1>8. QED  BY <1>5, <1>6, <1>7

\* When both pointers move, the size is what was there, less what went, and
\* what came, and the k-th packet was the one so much further back.
LEMMA PointersMove ==
  ASSUME TypeOK, NoOverrun, NEW d \in 0 .. 2, NEW n \in 0 .. 2,
         d <= Size, Size - d + n <= DEPTH,
         rptr' = Plus(rptr, d), wptr' = Plus(wptr, n)
  PROVE  /\ rptr' \in Pointers /\ wptr' \in Pointers
         /\ Size' = Size - d + n
         /\ \A k \in 0 .. DEPTH - 1 : Pos(k)' = Pos(d + k)
  <1>1. rptr \in Pointers /\ wptr \in Pointers
    BY DEF TypeOK, Pointers
  <1>2. Size \in 0 .. DEPTH /\ wptr = Plus(rptr, Size)
    BY <1>1, SizeIsDistance, FrontendAssumption DEF NoOverrun, Pointers
  <1>3. rptr' \in Pointers /\ wptr' \in Pointers
    BY <1>1, Moves, FrontendAssumption
  <1>4. wptr' = Plus(rptr', Size - d + n)
    <2>1. wptr' = Plus(rptr, Size + n)
      BY <1>1, <1>2, Moves, FrontendAssumption
    <2>2. Plus(rptr', Size - d + n) = Plus(rptr, d + (Size - d + n))
      <3>1. d \in Nat /\ Size - d + n \in Nat /\ d + (Size - d + n) < 2 * DEPTH
        BY <1>2, FrontendAssumption
      <3>2. QED  BY <1>1, <3>1, Moves
    <2>3. d + (Size - d + n) = Size + n
      BY <1>2
    <2>4. QED  BY <2>1, <2>2, <2>3
  <1>5. Size' = Size - d + n
    <2>1. Size - d + n \in Pointers
      BY <1>2, FrontendAssumption DEF Pointers
    <2>2. \A s \in Pointers : wptr' = Plus(rptr', s) => s = Size'
      BY <1>3, FrontendAssumption DEF Plus, Pointers, Size
    <2>3. QED  BY <1>4, <2>1, <2>2
  <1>6. ASSUME NEW k \in 0 .. DEPTH - 1
        PROVE  Pos(k)' = Pos(d + k)
    <2>1. Plus(rptr', k) = Plus(rptr, d + k)
      BY <1>1, Moves, FrontendAssumption
    <2>2. QED  BY <2>1 DEF Pos
  <1>7. QED  BY <1>3, <1>5, <1>6

\* The packets of a cycle, counted from the read pointer before it: first
\* those in the buffer, then the two being fetched.
Packet(j, guess) ==
  IF j < Size THEN Nth(j)
  ELSE [PC |-> PC_reg[j - Size], NPC |-> bp_npc(j - Size, guess)]

\* The packets of a cycle form an unbroken chain of PCs, from the one that
\* dispatch must get next to the one that fetch goes on with.
LEMMA ChainOfCycle ==
  ASSUME FrontendInv, NEW answer \in BOOLEAN, NEW guess \in Guesses,
         NEW n \in 0 .. 2, n = Fetched(answer, guess)
  PROVE  /\ Size + n > 0 => Packet(0, guess).PC = expected
         /\ \A j \in 0 .. DEPTH :
              j + 1 < Size + n => Packet(j, guess).NPC = Packet(j + 1, guess).PC
         /\ n > 0 => Packet(Size + n - 1, guess).NPC = bp_pc(guess)
         /\ n = 0 => ~PC_enable(answer)
         /\ n > 0 => PC_enable(answer)
  <1>1. Size \in 0 .. DEPTH
    BY SizeIsDistance, FrontendAssumption
       DEF FrontendInv, TypeOK, NoOverrun, Pointers
  <1>2. /\ n = 0 <=> ~PC_enable(answer)
        /\ n = 1 => guess[0] # NoGuess
        /\ n = 2 => guess[0] = NoGuess
    BY DEF Fetched, bp_taken
  <1>3. /\ bp_npc(0, guess) = IF guess[0] # NoGuess THEN guess[0]
                              ELSE Next_PC(PC_reg[0])
        /\ bp_npc(1, guess) = IF guess[0] # NoGuess THEN Next_PC(guess[0])
                              ELSE IF guess[1] # NoGuess THEN guess[1]
                              ELSE Next_PC(PC_reg[1])
    BY DEF bp_npc
  <1>4. PC_reg[1] = Next_PC(PC_reg[0])
    BY DEF FrontendInv, Chained
  <1>5. Size + n > 0 => Packet(0, guess).PC = expected
    <2>1. CASE Size > 0
      BY <1>1, <2>1 DEF FrontendInv, Chained, Packet
    <2>2. CASE Size = 0
      BY <1>1, <2>2 DEF FrontendInv, Chained, Packet
    <2>3. QED  BY <1>1, <2>1, <2>2
  <1>6. ASSUME NEW j \in 0 .. DEPTH, j + 1 < Size + n
        PROVE  Packet(j, guess).NPC = Packet(j + 1, guess).PC
    <2>1. CASE j + 1 < Size
      <3>1. j \in 0 .. DEPTH - 2 /\ j < Size - 1 /\ j < Size
        BY <1>1, <2>1, FrontendAssumption
      <3>2. Packet(j, guess) = Nth(j) /\ Packet(j + 1, guess) = Nth(j + 1)
        BY <2>1, <3>1 DEF Packet
      <3>3. QED  BY <3>1, <3>2 DEF FrontendInv, Chained
    <2>2. CASE j + 1 = Size
      <3>1. Packet(j, guess) = Nth(Size - 1)
        BY <1>1, <2>2 DEF Packet
      <3>2. Packet(j + 1, guess).PC = PC_reg[0]
        BY <1>1, <2>2 DEF Packet
      <3>3. QED  BY <1>1, <2>2, <3>1, <3>2 DEF FrontendInv, Chained
    <2>3. CASE j + 1 > Size
      <3>1. n = 2 /\ j - Size = 0 /\ j + 1 - Size = 1
        BY <1>1, <1>6, <2>3
      <3>2. Packet(j, guess).NPC = bp_npc(0, guess)
        BY <1>1, <3>1 DEF Packet
      <3>3. Packet(j + 1, guess).PC = PC_reg[1]
        BY <1>1, <3>1 DEF Packet
      <3>4. QED  BY <1>2, <1>3, <1>4, <3>1, <3>2, <3>3
    <2>4. QED  BY <1>1, <2>1, <2>2, <2>3
  <1>7. n > 0 => Packet(Size + n - 1, guess).NPC = bp_pc(guess)
    <2>1. CASE n = 1
      <3>1. Packet(Size + n - 1, guess).NPC = bp_npc(0, guess)
        BY <1>1, <2>1 DEF Packet
      <3>2. QED  BY <1>2, <1>3, <2>1, <3>1 DEF bp_pc
    <2>2. CASE n = 2
      <3>1. Packet(Size + n - 1, guess).NPC = bp_npc(1, guess)
        BY <1>1, <2>2 DEF Packet
      <3>2. QED  BY <1>2, <1>3, <1>4, <2>2, <3>1 DEF bp_pc
    <2>3. QED  BY <2>1, <2>2
  <1>8. QED  BY <1>2, <1>5, <1>6, <1>7

\* A cycle without a squash keeps the invariant: the places move by what went
\* and what came, and hold the chain of the cycle's packets.
LEMMA CycleKeeps ==
  ASSUME FrontendInv, NEW answer \in BOOLEAN, NEW guess \in Guesses,
         NEW count \in 0 .. 2, Cycle(answer, guess, count)
  PROVE  FrontendInv'
  <1> DEFINE d == IF empty THEN 0 ELSE count
             n == Fetched(answer, guess)
             npc == [i \in 0 .. 1 |-> bp_npc(i, guess)]
  <1>1. /\ TypeOK /\ NoOverrun /\ Chained
        /\ rptr \in Pointers /\ wptr \in Pointers
    BY DEF FrontendInv, TypeOK, Pointers
  <1>2. Size \in 0 .. DEPTH
    BY <1>1, SizeIsDistance, FrontendAssumption DEF NoOverrun, Pointers
  <1>3. d \in 0 .. 2 /\ d <= Size
    BY <1>1, <1>2, Conditions, FrontendAssumption
  <1>4. n \in 0 .. 2 /\ Size + n <= DEPTH /\ Size - d + n <= DEPTH
    <2>1. n \in 0 .. 2
      BY DEF Fetched
    <2>2. n > 0 => Size < DEPTH - 1
      BY <1>1, <1>2, Conditions, FrontendAssumption DEF Fetched, PC_enable
    <2>3. QED  BY <1>2, <1>3, <2>1, <2>2, FrontendAssumption
  <1>5. /\ rptr' = Plus(rptr, d)
        /\ wptr' = Plus(wptr, n)
        /\ Write(n, npc)
    <2>1. Plus(rptr, 0) = rptr
      BY <1>1, FrontendAssumption DEF Plus, Pointers
    <2>2. QED  BY <2>1 DEF Cycle
  <1>6. /\ rptr' \in Pointers /\ wptr' \in Pointers
        /\ Size' = Size - d + n
        /\ \A k \in 0 .. DEPTH - 1 : Pos(k)' = Pos(d + k)
    <2> HIDE DEF d, n
    <2>1. QED  BY <1>1, <1>3, <1>4, <1>5, PointersMove
  <1>7. \A k \in 0 .. DEPTH - 1 : k < Size' => Nth(k)' = Packet(d + k, guess)
    <2>1. npc[0] = bp_npc(0, guess) /\ npc[1] = bp_npc(1, guess)
      OBVIOUS
    <2> HIDE DEF d, n, npc
    <2>2. /\ \A k \in 0 .. Size - 1 : mem'[Pos(k)] = Nth(k)
          /\ n >= 1 => mem'[Pos(Size)] = [PC |-> PC_reg[0], NPC |-> npc[0]]
          /\ n = 2 => mem'[Pos(Size + 1)] = [PC |-> PC_reg[1], NPC |-> npc[1]]
      BY <1>1, <1>4, <1>5, WritesBehind
    <2>3. ASSUME NEW k \in 0 .. DEPTH - 1, k < Size'
          PROVE  mem'[Pos(d + k)] = Packet(d + k, guess)
      <3>1. d + k \in Nat /\ d + k < Size + n
        BY <1>2, <1>3, <1>4, <1>6, <2>3, FrontendAssumption
      <3>2. CASE d + k < Size
        BY <1>2, <2>2, <3>1, <3>2 DEF Packet
      <3>3. CASE d + k = Size
        <4>1. n >= 1 /\ d + k - Size = 0
          BY <1>2, <1>3, <1>4, <3>1, <3>3
        <4>2. QED  BY <1>2, <2>1, <2>2, <3>3, <4>1 DEF Packet
      <3>4. CASE d + k > Size
        <4>1. n = 2 /\ d + k = Size + 1 /\ d + k - Size = 1
          BY <1>2, <1>3, <1>4, <3>1, <3>4
        <4>2. QED  BY <1>2, <2>1, <2>2, <3>4, <4>1 DEF Packet
      <3>5. QED  BY <1>2, <3>1, <3>2, <3>3, <3>4
    <2>4. \A k \in 0 .. DEPTH - 1 : Nth(k)' = mem'[Pos(d + k)]
      BY <1>6 DEF Nth, Pos
    <2>5. QED  BY <2>3, <2>4
  <1>8. /\ Size + n > 0 => Packet(0, guess).PC = expected
        /\ \A j \in 0 .. DEPTH :
             j + 1 < Size + n => Packet(j, guess).NPC = Packet(j + 1, guess).PC
        /\ n > 0 => Packet(Size + n - 1, guess).NPC = bp_pc(guess)
        /\ n = 0 <=> ~PC_enable(answer)
    <2>1. n = Fetched(answer, guess)
      OBVIOUS
    <2> HIDE DEF n
    <2>2. QED  BY <1>4, <2>1, ChainOfCycle
  <1>9. PC_reg'[0] = IF n > 0 THEN bp_pc(guess) ELSE PC_reg[0]
    BY <1>4, <1>8 DEF Cycle, StartAt
  <1>10. PC_reg' \in [0 .. 1 -> PCs] /\ PC_reg'[1] = Next_PC(PC_reg'[0])
    <2>1. bp_pc(guess) \in PCs /\ Next_PC(bp_pc(guess)) \in PCs
      BY <1>1, GuessesArePCs, FrontendAssumption DEF PCs, Next_PC
    <2>2. CASE PC_enable(answer)
      BY <2>1, <2>2 DEF Cycle, StartAt
    <2>3. CASE ~PC_enable(answer)
      BY <1>1, <2>3 DEF Cycle, TypeOK, Chained
    <2>4. QED  BY <2>2, <2>3
  <1>11. expected' = IF d = 0 THEN expected ELSE Packet(d - 1, guess).NPC
    <2>1. CASE d = 0
      BY <2>1, <1>3 DEF Cycle
    <2>2. CASE d > 0
      <3>1. ~empty /\ count = d /\ d - 1 < Size
        BY <1>2, <1>3, <2>2
      <3>2. QED  BY <2>2, <3>1 DEF Cycle, Packet, Nth
    <2>3. QED  BY <1>3, <2>1, <2>2
  <1>12. TypeOK'
    <2>1. npc[0] \in PCs /\ npc[1] \in PCs
      BY <1>1, GuessesArePCs
    <2>2. mem' \in [0 .. DEPTH - 1 -> Packets]
      <3> HIDE DEF n, npc
      <3>1. QED  BY <1>1, <1>5, <2>1 DEF Write, Packets, TypeOK
    <2>3. expected' \in PCs
      <3>1. CASE d = 0
        BY <1>1, <1>11, <3>1 DEF TypeOK
      <3>2. CASE d > 0
        <4>1. Packet(d - 1, guess) = mem[Pos(d - 1)] /\ d - 1 \in 0 .. DEPTH - 1
          BY <1>2, <1>3, <3>2, FrontendAssumption DEF Packet, Nth, Pos
        <4>2. Pos(d - 1) \in 0 .. DEPTH - 1
          BY <1>1, <4>1, PlacesDiffer
        <4>3. QED  BY <1>1, <1>11, <3>2, <4>1, <4>2 DEF TypeOK, Packets
      <3>3. QED  BY <1>3, <3>1, <3>2
    <2>4. QED  BY <1>6, <1>10, <2>2, <2>3 DEF TypeOK, Pointers
  <1>13. NoOverrun'
    BY <1>4, <1>6 DEF NoOverrun
  <1> HIDE DEF d, n, npc
  <1>14. Chained'
    <2>1. Size' = 0 => PC_reg'[0] = expected'
      <3>1. ASSUME Size' = 0
            PROVE  n = 0 /\ d = Size
        BY <1>2, <1>3, <1>4, <1>6, <3>1
      <3>2. CASE Size = 0
        BY <1>1, <1>9, <1>11, <3>1, <3>2 DEF Chained
      <3>3. CASE Size > 0
        <4>1. Packet(Size - 1, guess).NPC = PC_reg[0]
          BY <1>1, <1>2, <3>3 DEF Packet, Chained
        <4>2. QED  BY <1>2, <1>9, <1>11, <3>1, <3>3, <4>1
      <3>4. QED  BY <1>2, <3>2, <3>3
    <2>2. Size' > 0 => Nth(0)'.PC = expected'
      <3>1. ASSUME Size' > 0
            PROVE  Packet(d, guess).PC = expected'
        <4>1. CASE d = 0
          BY <1>2, <1>4, <1>6, <1>8, <1>11, <3>1, <4>1
        <4>2. CASE d > 0
          <5>1. d - 1 \in 0 .. DEPTH /\ (d - 1) + 1 = d /\ d < Size + n
            BY <1>2, <1>3, <1>4, <1>6, <3>1, <4>2, FrontendAssumption
          <5>2. QED  BY <1>8, <1>11, <4>2, <5>1
        <4>3. QED  BY <1>3, <4>1, <4>2
      <3>2. 0 \in 0 .. DEPTH - 1 /\ d + 0 = d
        BY <1>3, FrontendAssumption
      <3>3. QED  BY <1>7, <3>1, <3>2
    <2>3. ASSUME NEW k \in 0 .. DEPTH - 1, k = Size' - 1
          PROVE  Nth(k)'.NPC = PC_reg'[0]
      <3>1. k < Size' /\ d + k = Size + n - 1
        BY <1>2, <1>3, <1>4, <1>6, <2>3
      <3>2. CASE n > 0
        BY <1>7, <1>8, <1>9, <3>1, <3>2
      <3>3. CASE n = 0
        <4>1. Size > 0
          BY <1>2, <1>3, <1>6, <2>3, <3>3
        <4>2. Packet(Size - 1, guess).NPC = PC_reg[0]
          BY <1>1, <1>2, <4>1 DEF Packet, Chained
        <4>3. d + k = Size - 1
          BY <1>2, <3>1, <3>3
        <4>4. QED  BY <1>7, <1>9, <3>1, <3>3, <4>2, <4>3
      <3>4. QED  BY <1>4, <3>2, <3>3
    <2>4. ASSUME NEW k \in 0 .. DEPTH - 2, k < Size' - 1
          PROVE  Nth(k)'.NPC = Nth(k + 1)'.PC
      <3>1. /\ k \in 0 .. DEPTH - 1 /\ k + 1 \in 0 .. DEPTH - 1
            /\ k < Size' /\ k + 1 < Size'
        BY <1>2, <1>3, <1>4, <1>6, <2>4, FrontendAssumption
      <3>2. /\ d + k \in 0 .. DEPTH /\ (d + k) + 1 < Size + n
            /\ d + (k + 1) = (d + k) + 1
        BY <1>2, <1>3, <1>4, <1>6, <2>4, <3>1, FrontendAssumption
      <3>3. Packet(d + k, guess).NPC = Packet(d + (k + 1), guess).PC
        BY <1>8, <3>2
      <3>4. QED  BY <1>7, <3>1, <3>3
    <2>5. Size' > 0 => Size' - 1 \in 0 .. DEPTH - 1
      BY <1>2, <1>3, <1>4, <1>6, FrontendAssumption
    <2>6. QED  BY <1>10, <2>1, <2>2, <2>3, <2>4, <2>5 DEF Chained, Nth
  <1>15. QED  BY <1>12, <1>13, <1>14 DEF FrontendInv

-----------------------------------------------------------------------------
(* The other steps, and the theorems.                                      *)

LEMMA Starts == ASSUME Init PROVE FrontendInv
  <1>1. Size = 0
    BY FrontendAssumption DEF Init, Size
  <1>2. TypeOK
    BY FrontendAssumption DEF Init, TypeOK, PCs, Packets
  <1>3. NoOverrun
    BY <1>1, FrontendAssumption DEF NoOverrun
  <1>4. Chained
    BY <1>1, FrontendAssumption DEF Init, Chained, Next_PC
  <1>5. QED  BY <1>2, <1>3, <1>4 DEF FrontendInv

\* A squash leaves an empty buffer, whatever is written in the same edge.
LEMMA SquashKeeps ==
  ASSUME FrontendInv, NEW answer \in BOOLEAN, NEW pc \in PCs, Squash(answer, pc)
  PROVE  FrontendInv'
  <1>1. TypeOK
    BY DEF FrontendInv
  <1>2. \A p \in PCs : Next_PC(p) \in PCs
    BY FrontendAssumption DEF PCs, Next_PC
  <1>3. Size' = 0
    BY FrontendAssumption DEF Squash, Size
  <1>4. /\ PC_reg' \in [0 .. 1 -> PCs]
        /\ PC_reg'[0] = expected'
        /\ PC_reg'[1] = Next_PC(PC_reg'[0])
    BY <1>2 DEF Squash, StartAt
  <1>5. mem' \in [0 .. DEPTH - 1 -> Packets]
    <2> DEFINE npc == [i \in 0 .. 1 |-> IF i = 0 THEN Next_PC(pc)
                                        ELSE Next_PC(Next_PC(pc))]
               n == IF PC_enable(answer) THEN 2 ELSE 0
    <2>1. npc[0] \in PCs /\ npc[1] \in PCs
      BY <1>2
    <2>2. Write(n, npc)
      BY DEF Squash
    <2> HIDE DEF npc, n
    <2>3. QED  BY <1>1, <2>1, <2>2 DEF Write, Packets, TypeOK
  <1>6. TypeOK'
    BY <1>4, <1>5, FrontendAssumption DEF Squash, TypeOK
  <1>7. NoOverrun'
    BY <1>3, FrontendAssumption DEF NoOverrun
  <1>8. Chained'
    BY <1>3, <1>4 DEF Chained
  <1>9. QED  BY <1>6, <1>7, <1>8 DEF FrontendInv

LEMMA Stands == ASSUME FrontendInv, UNCHANGED vars PROVE FrontendInv'
  BY DEF FrontendInv, vars, TypeOK, NoOverrun, Chained, Size, Nth

LEMMA FrontendInductive == Spec => []FrontendInv
  <1>1. Init => FrontendInv
    BY Starts
  <1>2. FrontendInv /\ [Next]_vars => FrontendInv'
    <2> SUFFICES ASSUME FrontendInv, [Next]_vars
                 PROVE  FrontendInv'
      OBVIOUS
    <2>1. ASSUME NEW answer \in BOOLEAN, NEW guess \in Guesses,
                 NEW count \in 0 .. 2, Cycle(answer, guess, count)
          PROVE  FrontendInv'
      BY <2>1, CycleKeeps
    <2>2. ASSUME NEW answer \in BOOLEAN, NEW pc \in PCs, Squash(answer, pc)
          PROVE  FrontendInv'
      BY <2>2, SquashKeeps
    <2>3. CASE UNCHANGED vars
      BY <2>3, Stands
    <2>4. QED  BY <2>1, <2>2, <2>3 DEF Next
  <1>3. QED  BY <1>1, <1>2, PTL DEF Spec

\* The registers of fetch and of the instruction buffer keep their types, for
\* every depth and number of PCs: pointers wrap at twice the depth.
THEOREM FrontendTypeCorrect == Spec => []TypeOK
  BY FrontendInductive, PTL DEF FrontendInv

\* From the packet that dispatch gets next to the instruction being fetched,
\* every packet's NPC is the PC of the one behind it: no packet is lost, kept
\* or repeated, whatever the cache, the predictor, dispatch and the retire
\* stage do in a cycle; and the buffer never takes more than it has places,
\* because buffer_full stops fetch while two might still come.
THEOREM LinkedHolds == Spec => []Linked
  <1>1. FrontendInv => Linked
    BY DEF FrontendInv, Linked
  <1>2. QED  BY <1>1, FrontendInductive, PTL
=============================================================================
