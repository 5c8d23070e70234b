---------------------------- MODULE RetireOrder ----------------------------
(***************************************************************************)
(* What the reorder buffer promises the architecture, with no buffer in    *)
(* sight.  Instructions are numbered in the order in which they are        *)
(* dispatched.  The numbers oldest .. next - 1 are in flight: a cycle      *)
(* retires up to Width of the oldest finished ones, in order, lets some    *)
(* others finish and dispatches up to Width new ones, within Capacity.     *)
(* A mispredicted branch is the last instruction of its cycle to retire,   *)
(* and takes every younger instruction with it.                            *)
(***************************************************************************)
EXTENDS Integers

CONSTANTS
  Capacity,   \* how many instructions may be in flight
  Width       \* how many may retire or be dispatched in one cycle

VARIABLES
  oldest,     \* the number of the oldest instruction not yet retired
  next,       \* the number the next dispatched instruction will get
  done,       \* the instructions in flight that have finished
  mispred     \* those of them that are mispredicted branches

InFlight == oldest .. next - 1

Init ==
  /\ oldest = 1
  /\ next = 1
  /\ done = {}
  /\ mispred = {}

\* r instructions retire, d are dispatched, those in C finish, B of them as
\* mispredicted branches.
Cycle(r, d, C, B) ==
  LET gone == oldest .. oldest + r - 1 IN
  /\ gone \subseteq done \ mispred
  /\ next + d - oldest <= Capacity
  /\ C \subseteq InFlight \ done
  /\ B \subseteq C
  /\ oldest' = oldest + r
  /\ next' = next + d
  /\ done' = (done \ gone) \cup C
  /\ mispred' = mispred \cup B

\* The r oldest retire, the last of them is a mispredicted branch, and
\* nothing younger survives.
Squash(r) ==
  /\ oldest .. oldest + r - 1 \subseteq done
  /\ oldest + r - 1 \in mispred
  /\ oldest .. oldest + r - 2 \cap mispred = {}
  /\ oldest' = next
  /\ next' = next
  /\ done' = {}
  /\ mispred' = {}

Next ==
  \/ \E r, d \in 0 .. Width, C \in SUBSET InFlight :
       \E B \in SUBSET C : Cycle(r, d, C, B)
  \/ \E r \in 1 .. Width : Squash(r)

vars == <<oldest, next, done, mispred>>

Spec == Init /\ [][Next]_vars
=============================================================================
