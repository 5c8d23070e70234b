------------------------------ MODULE Frontend ------------------------------
(***************************************************************************)
(* Instruction fetch: the fetch stage (verilog/FETCH/if_stage.sv), the     *)
(* next-PC selection of the branch predictor (verilog/BP/BP_top.sv) and    *)
(* the instruction buffer in front of dispatch                             *)
(* (verilog/FETCH/insn_buffer/insn_buffer.sv), stepped by one clock.       *)
(*                                                                         *)
(* The environment: the instruction cache answers both requests of a cycle *)
(* or not; the predictor's tables (BHT, PHT, BTB, RAS) hold any guesses;   *)
(* dispatch asks for 0, 1 or 2 packets; the retire stage squashes and      *)
(* names the PC to go on from.  PCs count instructions, and wrap.          *)
(***************************************************************************)
EXTENDS Integers

CONSTANTS
  DEPTH,     \* entries of the instruction buffer
  NumPC      \* how many different PCs there are

ASSUME FrontendAssumption ==
  /\ DEPTH \in Nat /\ DEPTH >= 3
  /\ NumPC \in Nat /\ NumPC >= 2

VARIABLES
  PC_reg,    \* the PCs of the two instructions being fetched
  wptr,      \* pointers one bit wider than an index
  rptr,
  mem,       \* the buffer's packets
  expected   \* history: the PC the next packet delivered to dispatch must
             \* have: the NPC of the one before it, or where a squash went

vars == <<PC_reg, wptr, rptr, mem, expected>>

PCs     == 0 .. NumPC - 1
Packets == [PC : PCs, NPC : PCs]
NoGuess == -1

Next_PC(pc) == IF pc + 1 = NumPC THEN 0 ELSE pc + 1

-----------------------------------------------------------------------------
(* The buffer's pointers.                                                  *)

Plus(p, k) == IF p + k >= 2 * DEPTH THEN p + k - 2 * DEPTH ELSE p + k
Idx(p) == IF p >= DEPTH THEN p - DEPTH ELSE p
Opposite(p) == IF p >= DEPTH THEN p - DEPTH ELSE p + DEPTH

\* Mutant: the top bits are not compared, so that full passes for empty.
emptyByIndex == Idx(wptr) = Idx(rptr) \/ Idx(wptr) = Idx(Plus(rptr, 1))

\* One packet alone is not delivered: dispatch may ask for two.
empty == wptr = rptr \/ wptr = Plus(rptr, 1)

\* Mutant: full only when the last place is taken.
buffer_fullLate == wptr = Opposite(rptr)

\* One free place is not enough: fetch may send two.
buffer_full == wptr = Opposite(rptr) \/ Plus(wptr, 1) = Opposite(rptr)

-----------------------------------------------------------------------------
(* Fetch.  guess[i] is where the predictor sends fetch after the i-th      *)
(* instruction, or NoGuess if it takes it not to branch.                   *)

bp_taken(guess) == guess[0] # NoGuess

\* bp_pc_out[0], where fetch goes on.
bp_pc(guess) ==
  IF guess[0] # NoGuess THEN guess[0]
  ELSE IF guess[1] # NoGuess THEN guess[1]
  ELSE Next_PC(Next_PC(PC_reg[0]))

bp_npc(i, guess) ==
  CASE i = 0 -> IF guess[0] # NoGuess THEN guess[0] ELSE Next_PC(PC_reg[0])
    [] i = 1 -> IF guess[0] # NoGuess THEN Next_PC(guess[0])
                ELSE IF guess[1] # NoGuess THEN guess[1]
                ELSE Next_PC(PC_reg[1])

PC_enable(answer) == ~buffer_full /\ answer

\* How many packets go to the buffer when nothing is squashed: the
\* instruction behind a predicted branch is dropped.
Fetched(answer, guess) ==
  IF ~PC_enable(answer) THEN 0 ELSE IF bp_taken(guess) THEN 1 ELSE 2

\* n packets with the NPCs npc are written.
Write(n, npc) ==
  mem' = [k \in 0 .. DEPTH - 1 |->
           IF n >= 1 /\ k = Idx(wptr) THEN [PC |-> PC_reg[0], NPC |-> npc[0]]
           ELSE IF n = 2 /\ k = Idx(Plus(wptr, 1))
                THEN [PC |-> PC_reg[1], NPC |-> npc[1]]
           ELSE mem[k]]

StartAt(pc) == PC_reg' = [i \in 0 .. 1 |-> IF i = 0 THEN pc ELSE Next_PC(pc)]

-----------------------------------------------------------------------------
Init ==
  /\ PC_reg = [i \in 0 .. 1 |-> i]
  /\ wptr = 0
  /\ rptr = 0
  /\ mem = [k \in 0 .. DEPTH - 1 |-> [PC |-> 0, NPC |-> 0]]
  /\ expected = 0

\* A clock edge without a squash: dispatch asks for count packets.
Cycle(answer, guess, count) ==
  /\ IF PC_enable(answer) THEN StartAt(bp_pc(guess)) ELSE PC_reg' = PC_reg
  /\ Write(Fetched(answer, guess), [i \in 0 .. 1 |-> bp_npc(i, guess)])
  /\ wptr' = Plus(wptr, Fetched(answer, guess))
  /\ rptr' = IF empty THEN rptr ELSE Plus(rptr, count)
  /\ expected' = IF empty \/ count = 0 THEN expected
                 ELSE mem[Idx(Plus(rptr, count - 1))].NPC

\* A clock edge with a squash: both packets are still written if the cache
\* answers, but the pointers go back to 0.
Squash(answer, pc) ==
  /\ StartAt(pc)
  /\ Write(IF PC_enable(answer) THEN 2 ELSE 0,
           [i \in 0 .. 1 |-> IF i = 0 THEN Next_PC(pc) ELSE Next_PC(Next_PC(pc))])
  /\ wptr' = 0
  /\ rptr' = 0
  /\ expected' = pc

Guesses == [0 .. 1 -> PCs \cup {NoGuess}]

Next ==
  \/ \E answer \in BOOLEAN, guess \in Guesses, count \in 0 .. 2 :
       Cycle(answer, guess, count)
  \/ \E answer \in BOOLEAN, pc \in PCs : Squash(answer, pc)

\* The cache answers in the end, and dispatch asks for packets again and
\* again.
Fairness ==
  /\ WF_vars(\E guess \in Guesses, count \in 0 .. 2 : Cycle(TRUE, guess, count))
  /\ WF_vars(\E answer \in BOOLEAN, guess \in Guesses, count \in 1 .. 2 :
               Cycle(answer, guess, count))

Spec == Init /\ [][Next]_vars
FairSpec == Spec /\ Fairness

-----------------------------------------------------------------------------
Size == IF wptr >= rptr THEN wptr - rptr ELSE wptr - rptr + 2 * DEPTH
Nth(k) == mem[Idx(Plus(rptr, k))]

TypeOK ==
  /\ PC_reg \in [0 .. 1 -> PCs]
  /\ wptr \in 0 .. 2 * DEPTH - 1
  /\ rptr \in 0 .. 2 * DEPTH - 1
  /\ mem \in [0 .. DEPTH - 1 -> Packets]
  /\ expected \in PCs

\* The buffer never holds more than its places.
NoOverrun == Size <= DEPTH

\* The packets in the buffer, from the one that dispatch gets next to the one
\* being fetched.
Chained ==
  /\ PC_reg[1] = Next_PC(PC_reg[0])
  /\ Size = 0 => PC_reg[0] = expected
  /\ Size > 0 => Nth(0).PC = expected /\ Nth(Size - 1).NPC = PC_reg[0]
  /\ \A k \in 0 .. DEPTH - 2 : k < Size - 1 => Nth(k).NPC = Nth(k + 1).PC

\* Every packet's NPC is the PC of the packet behind it, from the one that
\* dispatch gets next to the one being fetched.  The core finds a wrong
\* prediction by comparing a branch's target with its packet's NPC, so that
\* a packet lost, kept or repeated would never be noticed.  None is
\* overwritten before dispatch has it.
Linked == NoOverrun /\ Chained

\* Whatever is in the buffer is delivered or squashed.
Delivered ==
  \A p \in 0 .. 2 * DEPTH - 1 :
    (rptr = p /\ Size > 0) ~> (rptr # p \/ Size = 0)
=============================================================================
