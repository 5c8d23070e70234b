---------------------------- MODULE BranchTargets ----------------------------
(***************************************************************************)
(* Where the branch predictor sends fetch: the choice of the next PC       *)
(* (verilog/BP/BP_top.sv, pre_decode.sv), the stack of return addresses    *)
(* (verilog/BP/RAS.sv) and the buffer of targets (verilog/BP/BTB.sv).  One *)
(* step is one clock edge.                                                 *)
(*                                                                         *)
(* PCs count instructions and wrap.  Fetch is anywhere, and sends two      *)
(* instructions or none; the two ALUs execute branches of the program,     *)
(* whose direct branches have one target each and whose returns go behind  *)
(* some call.  The direction of a conditional branch is any (see           *)
(* BranchHistory).                                                         *)
(***************************************************************************)
EXTENDS Sequences, Integers

CONSTANTS
  NumPC,
  RAS_SIZE,
  BTB_SIZE,
  VAL_SIZE,    \* how many targets the buffer's values tell apart
  Kind,        \* of the instruction at each PC: "other", "cond", "jump", "link"
  Target       \* of the conditional branch or jump at each PC

PCs == 0 .. NumPC - 1

ASSUME TargetsAssumption ==
  /\ NumPC \in Nat \ {0} /\ RAS_SIZE \in Nat \ {0}
  /\ BTB_SIZE \in Nat \ {0}
  /\ VAL_SIZE \in Nat \ {0} /\ NumPC % VAL_SIZE = 0
  /\ Kind \in [PCs -> {"other", "cond", "jump", "link"}]
  /\ Target \in [PCs -> PCs]

VARIABLES
  mem,     \* the stack's ring and
  ptr,     \* the place of the next return address
  btb,     \* for each index a tag and a value, or NoEntry
  calls    \* history: the return addresses of the calls predicted and not yet
           \* returned from, the latest RAS_SIZE of them, oldest first

targetVars == <<mem, ptr, btb, calls>>

NoEntry == [tag |-> -1, val |-> 0]
Plus(pc, k) == (pc + k) % NumPC

TargetsInit ==
  /\ mem = [k \in 0 .. RAS_SIZE - 1 |-> 0]
  /\ ptr = 0
  /\ btb = [x \in 0 .. BTB_SIZE - 1 |-> NoEntry]
  /\ calls = <<>>

-----------------------------------------------------------------------------
(* Lookups.  The two instructions fetched are at pc and Plus(pc, 1);       *)
(* taken[i] is what the tables of histories say of the i-th.               *)

Places == {0, 1}
if_pc(pc, i) == Plus(pc, i)
jump(pc, i) == Kind[if_pc(pc, i)] = "jump"
link(pc, i) == Kind[if_pc(pc, i)] = "link"
cond_branch(pc, i) == Kind[if_pc(pc, i)] = "cond"

Entry(pc) == btb[pc % BTB_SIZE]

\* Mutant: tags are not compared.
hitAnyTag(pc, i) == Entry(if_pc(pc, i)) # NoEntry

hit(pc, i) == Entry(if_pc(pc, i)).tag = if_pc(pc, i) \div BTB_SIZE

\* The value with the upper bits of the branch's own PC.
predict_pc(pc, i) ==
  (if_pc(pc, i) \div VAL_SIZE) * VAL_SIZE + Entry(if_pc(pc, i)).val

\* Mutant: a pop at place 0 stays there.
ptr_minus_1Stays == IF ptr = 0 THEN 0 ELSE ptr - 1

ptr_minus_1 == IF ptr = 0 THEN RAS_SIZE - 1 ELSE ptr - 1
ptr_plus_1 == IF ptr = RAS_SIZE - 1 THEN 0 ELSE ptr + 1
return_addr == mem[ptr_minus_1]

-----------------------------------------------------------------------------
(* The choice.                                                             *)

\* The i-th instruction is predicted to go elsewhere, and where.
Leaves(pc, taken, i) ==
  link(pc, i) \/ (hit(pc, i) /\ (jump(pc, i) \/ (cond_branch(pc, i) /\ taken[i])))
Goes(pc, i) == IF link(pc, i) THEN return_addr ELSE predict_pc(pc, i)

\* Where fetch goes on, and what the two packets say comes behind them.
Choice(pc, npc0, npc1) == [pc |-> pc, npc |-> [i \in Places |-> IF i = 0 THEN npc0 ELSE npc1]]

bp_out(pc, taken) ==
  CASE Leaves(pc, taken, 0) -> Choice(Goes(pc, 0), Goes(pc, 0), Plus(Goes(pc, 0), 1))
    [] Leaves(pc, taken, 1) /\ ~Leaves(pc, taken, 0) ->
         Choice(Goes(pc, 1), Plus(pc, 1), Goes(pc, 1))
    [] OTHER -> Choice(Plus(pc, 2), Plus(pc, 1), Plus(pc, 2))

\* Fetch drops the second instruction.
bp_taken(pc, taken) ==
  link(pc, 0) \/ (jump(pc, 0) /\ hit(pc, 0)) \/ (cond_branch(pc, 0) /\ taken[0] /\ hit(pc, 0))

-----------------------------------------------------------------------------
(* The stack.  Only one of the two instructions acts on it: the second, if *)
(* the first is neither a call nor a return, even if fetch drops it.       *)

Acting(pc) == IF jump(pc, 0) \/ link(pc, 0) THEN 0 ELSE 1
push(pc, valid) == valid /\ jump(pc, Acting(pc))
pop(pc, valid) == valid /\ link(pc, Acting(pc))
link_pc(pc) == if_pc(pc, IF jump(pc, 0) THEN 0 ELSE 1)

RasEdge(pc, valid) ==
  /\ ptr' = IF push(pc, valid) THEN ptr_plus_1
            ELSE IF pop(pc, valid) THEN ptr_minus_1 ELSE ptr
  /\ mem' = IF push(pc, valid) THEN [mem EXCEPT ![ptr] = Plus(link_pc(pc), 1)] ELSE mem

\* A stack that forgets its oldest calls.
CallsEdge(pc, valid) ==
  calls' =
    LET n == Len(calls) IN
    IF push(pc, valid)
    THEN Append(IF n = RAS_SIZE THEN Tail(calls) ELSE calls, Plus(link_pc(pc), 1))
    ELSE IF pop(pc, valid) /\ n > 0 THEN SubSeq(calls, 1, n - 1) ELSE calls

-----------------------------------------------------------------------------
(* The buffer of targets: each ALU tells of a branch it executed, or none. *)

Branches == {b \in [PC : PCs, tg_pc : PCs] :
               \/ Kind[b.PC] \in {"cond", "jump"} /\ b.tg_pc = Target[b.PC]
               \/ Kind[b.PC] = "link" /\ \E c \in PCs : Kind[c] = "jump" /\ b.tg_pc = Plus(c, 1)}

\* Of two branches at one index the first ALU's is written.
BtbEdge(branches) ==
  btb' = [x \in 0 .. BTB_SIZE - 1 |->
           LET here == {a \in DOMAIN branches : branches[a].PC % BTB_SIZE = x}
               b == branches[IF 0 \in here THEN 0 ELSE 1]
           IN IF here = {} THEN btb[x]
              ELSE [tag |-> b.PC \div BTB_SIZE, val |-> b.tg_pc % VAL_SIZE]]

TargetsCycle(pc, valid, branches) ==
  RasEdge(pc, valid) /\ CallsEdge(pc, valid) /\ BtbEdge(branches)

TargetsNext ==
  \E pc \in PCs, valid \in BOOLEAN, alus \in SUBSET {0, 1} :
    \E branches \in [alus -> Branches] : TargetsCycle(pc, valid, branches)

TargetsSpec == TargetsInit /\ [][TargetsNext]_targetVars

-----------------------------------------------------------------------------
\* The k-th place below the top of the stack.
Below(k) == IF ptr >= k THEN ptr - k ELSE ptr + RAS_SIZE - k

\* A return is predicted to go behind the latest call, for as many calls as
\* the stack has places, however often its ring went round, also after calls
\* it forgot and returns it had none for.
ReturnsMatchCalls ==
  \A k \in 1 .. Len(calls) : mem[Below(k)] = calls[Len(calls) + 1 - k]

\* The three outputs of the predictor, which are worked out apart, agree: each
\* packet that fetch keeps says that the PC behind it is that of the next one
\* kept, and the last one that it is where fetch goes on.  A direct branch that
\* is predicted to leave goes to its own target, at least in its own region:
\* what another branch left at its index does not pass for it.
ChoicesAgree ==
  \A pc \in PCs, taken \in [Places -> BOOLEAN] :
    LET out == bp_out(pc, taken)
        last == IF bp_taken(pc, taken) THEN 0 ELSE 1
        own(p) == (p \div VAL_SIZE) * VAL_SIZE + (Target[p] % VAL_SIZE)
    IN  /\ out.npc[last] = out.pc
        /\ last = 1 => out.npc[0] = Plus(pc, 1)
        /\ Leaves(pc, taken, last) /\ ~link(pc, last) =>
             out.npc[last] = own(if_pc(pc, last))
=============================================================================
