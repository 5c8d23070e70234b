--------------------------- MODULE FunctionalUnits ---------------------------
(***************************************************************************)
(* What the issue stage, the functional units and the complete stage       *)
(* promise the rest of the core, which Core takes for granted: an          *)
(* instruction is issued when it waits for no operand, an issued one       *)
(* broadcasts its result exactly once, two of each per cycle at most, in   *)
(* the end all do, and a squash empties everything.  An instruction is     *)
(* named by its tag.                                                       *)
(***************************************************************************)
CONSTANT Tags

VARIABLES
  waiting,    \* the instructions in the station
  ready,      \* those of them that wait for no operand
  executing   \* those issued and not broadcast

unitVars == <<waiting, ready, executing>>

UnitsInit == waiting = {} /\ ready = {} /\ executing = {}

AtMostTwo(S) == \A x, y, z \in S : x = y \/ x = z \/ y = z

\* A cycle: free are issued, done broadcast, new dispatched, and operands come.
UnitsStep ==
  /\ waiting' \in SUBSET Tags /\ executing' \in SUBSET Tags /\ ready' \in SUBSET waiting'
  /\ LET free == waiting \ waiting'
         new == waiting' \ waiting
         done == executing \ executing'
     IN  /\ AtMostTwo(free) /\ AtMostTwo(new) /\ AtMostTwo(done)
         /\ free \subseteq ready
         /\ free = executing' \ executing
         /\ new \cap executing = {}
         /\ ready \ free \subseteq ready'

UnitsSquash == waiting' = {} /\ ready' = {} /\ executing' = {}

UnitsNext == UnitsStep \/ UnitsSquash

\* No instruction stays in the station or in the units for ever.  Every way out
\* of waiting is an issue and every way out of executing a broadcast, squashes
\* aside, so each is issued and each broadcasts.
UnitsProgress == \A t \in Tags : []<>(t \notin waiting) /\ []<>(t \notin executing)

SafeUnits == UnitsInit /\ [][UnitsNext]_unitVars
FairUnits == SafeUnits /\ UnitsProgress
=============================================================================
