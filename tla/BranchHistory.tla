---------------------------- MODULE BranchHistory ----------------------------
(***************************************************************************)
(* How the branch predictor learns: the packets the two ALUs send it       *)
(* (verilog/EXECUTE/alu_fu.sv), the table of local histories               *)
(* (verilog/BP/BHT.sv) and the two-bit counters they select                *)
(* (verilog/BP/PHT.sv).  One step is one clock edge.                       *)
(*                                                                         *)
(* An ALU executes any instruction, or nothing, which looks like an        *)
(* instruction at PC 0 that is no branch; it may be stalled for the bus.   *)
(***************************************************************************)
EXTENDS Sequences, Integers

CONSTANTS
  HistoryPCs,  \* the PCs of the instructions executed
  BHT_SIZE,    \* entries of both tables
  BHT_WIDTH    \* outcomes in a history

ASSUME HistoryAssumption ==
  /\ HistoryPCs \subseteq Nat /\ 0 \in HistoryPCs
  /\ BHT_SIZE \in Nat \ {0}
  /\ BHT_WIDTH \in Nat \ {0}

VARIABLES
  ex_bp,     \* what each ALU tells the predictor in this cycle
  watched,   \* the index whose entries are kept, fixed from the start: those of
             \* different indices do not depend on one another
  bht,       \* its last outcomes, oldest first
  pht,       \* its counter for each history
  recent,    \* history: the last outcomes of the branches executed there, and for
  refused    \* each history of them how many times in a row, up to two, a branch
             \* that followed it was not taken

historyVars == <<ex_bp, watched, bht, pht, recent, refused>>

ALUs == {0, 1}
Indexes == 0 .. BHT_SIZE - 1
Histories == [1 .. BHT_WIDTH -> BOOLEAN]
NoHistory == [k \in 1 .. BHT_WIDTH |-> FALSE]

NT_STRONG == 0
NT_WEAK   == 1
T_WEAK    == 2
T_STRONG  == 3

Packets == {p \in [PC : HistoryPCs, con_br_en : BOOLEAN, con_br_taken : BOOLEAN] :
              p.con_br_taken => p.con_br_en}
Nothing == [PC |-> 0, con_br_en |-> FALSE, con_br_taken |-> FALSE]

HistoryInit ==
  /\ ex_bp = [a \in ALUs |-> Nothing]
  /\ watched \in Indexes
  /\ bht = NoHistory
  /\ pht = [h \in Histories |-> NT_WEAK]
  /\ recent = NoHistory
  /\ refused = [h \in Histories |-> 0]

-----------------------------------------------------------------------------
(* Training.                                                               *)

AtWatched(a) == ex_bp[a].PC % BHT_SIZE = watched
Branch(a) == ex_bp[a].con_br_en

\* The ALU whose branch is recorded: the first, if both have one there.
Recorded ==
  {a \in ALUs : Branch(a) /\ AtWatched(a) /\ (a = 1 => ~(Branch(0) /\ AtWatched(0)))}
TheRecorded == CHOOSE a \in Recorded : TRUE

Shifted(history, outcome) == Append(Tail(history), outcome)

BhtEdge ==
  bht' = IF Recorded = {} THEN bht ELSE Shifted(bht, ex_bp[TheRecorded].con_br_taken)

\* Mutant: a strong counter does not move.
CountedStuck(counter, taken) ==
  IF counter = T_STRONG THEN T_STRONG
  ELSE IF ~taken THEN NT_STRONG
  ELSE IF counter = NT_STRONG THEN NT_WEAK ELSE T_STRONG

\* The counter after an outcome: from a weak state it goes to the far end.
Counted(counter, taken) ==
  IF taken THEN IF counter = NT_STRONG THEN NT_WEAK ELSE T_STRONG
  ELSE IF counter = T_STRONG THEN T_WEAK ELSE NT_STRONG

\* The counter of the present history after this cycle.  The outcome of the
\* first ALU is put over that of the second at the same index whether or not
\* its instruction is a branch.
n_state == Counted(pht[bht], ex_bp[IF AtWatched(0) THEN 0 ELSE 1].con_br_taken)

PhtEdge == pht' = IF Recorded = {} THEN pht ELSE [pht EXCEPT ![bht] = n_state]

predict_taken == pht[bht] \in {T_WEAK, T_STRONG}

-----------------------------------------------------------------------------
(* The ALUs.                                                               *)

\* packets are those of the ALUs that have finished an instruction; one that is
\* stalled or idle says nothing.
Says(packets) ==
  [a \in ALUs |-> IF a \in DOMAIN packets THEN packets[a] ELSE Nothing]

Refusal(count, taken) == IF taken THEN 0 ELSE IF count = 0 THEN 1 ELSE 2

\* The branches recorded at the watched index, each once.
WatchEdge ==
  LET taken == ex_bp[TheRecorded].con_br_taken
  IN /\ recent' = IF Recorded = {} THEN recent ELSE Shifted(recent, taken)
     /\ refused' = IF Recorded = {} THEN refused
                   ELSE [refused EXCEPT ![recent] = Refusal(@, taken)]
     /\ watched' = watched

\* A clock edge at which some ALUs have finished an instruction.
HistoryCycle(packets) ==
  ex_bp' = Says(packets) /\ BhtEdge /\ PhtEdge /\ WatchEdge

\* A squash: the packets on their way still train the tables.
HistorySquash ==
  ex_bp' = [a \in ALUs |-> Nothing] /\ BhtEdge /\ PhtEdge /\ WatchEdge

HistoryNext ==
  \/ \E finished \in SUBSET ALUs : \E packets \in [finished -> Packets \ {Nothing}] :
       HistoryCycle(packets)
  \/ HistorySquash

HistorySpec == HistoryInit /\ [][HistoryNext]_historyVars

-----------------------------------------------------------------------------
\* A branch that was not taken the last two times its index had the present
\* history is predicted not to be taken, whatever came in between and by
\* whichever ALU.
NotTakenIsLearned == refused[recent] = 2 => ~predict_taken
=============================================================================
