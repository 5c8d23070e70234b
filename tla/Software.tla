------------------------------ MODULE Software ------------------------------
(***************************************************************************)
(* The C and C++ software around the processor, side by side: the visual   *)
(* debugger with the testbench it steps (Debugger), the heap under a       *)
(* priority queue (PriorityQueue), and, as functions of one sampled input, *)
(* the decoders and the assembler (Instructions) and the test programs     *)
(* that sort and search (Programs).  A behavior is of one of these parts;  *)
(* they share no state.                                                    *)
(***************************************************************************)
EXTENDS Decoders, Programs, PriorityQueue, Debugger, FiniteSetsExt

CONSTANTS
  Arrays,      \* the arrays sorted, with a number to search for
  EdgeSets     \* the graphs searched, by their edges {v, w}, 0 in one of them

softwareVars == <<sample, queueVars, debuggerVars>>

Samples ==
  Encodings
  \cup [kind : {"array"}, of : Arrays]
  \cup [kind : {"graph"}, edges : EdgeSets]

Debugging == sample.kind = "debugger"
Queueing == sample.kind = "queue"

SoftwareInit ==
  /\ sample \in Samples \cup [kind : {"debugger", "queue"}]
  /\ QueueInit /\ DebuggerInit
  /\ Queueing \/ heap.base = HeapStart + HEAP_SIZE   \* the base matters to no other part

SoftwareNext ==
  \/ Debugging /\ DebuggerNext /\ UNCHANGED <<sample, queueVars>>
  \/ Queueing /\ QueueNext /\ UNCHANGED <<sample, debuggerVars>>
  \/ sample \in Samples /\ UNCHANGED softwareVars

\* The two processes of the debugger run; a user who has let the simulation run
\* need not press a key, because getch then times out.
SoftwareFairness ==
  /\ WF_softwareVars(Debugging /\ (DumpEdge \/ SendDone) /\ UNCHANGED <<sample, queueVars>>)
  /\ WF_softwareVars(Debugging /\ waitforresponse /\ UNCHANGED <<sample, queueVars>>)
  /\ WF_softwareVars(Debugging /\ (ReadLine \/ Again) /\ UNCHANGED <<sample, queueVars>>)
  /\ WF_softwareVars(Debugging /\ running = 1 /\ (\E resp \in Keys : Key(resp))
                     /\ UNCHANGED <<sample, queueVars>>)

SoftwareSpec == SoftwareInit /\ [][SoftwareNext]_softwareVars /\ SoftwareFairness

-----------------------------------------------------------------------------
\* The five sorts leave the same array, ascending and with the elements it had,
\* and the binary search finds in it exactly the numbers it holds.
Sorted ==
  sample.kind = "array" =>
    LET arr == sample.of.arr
        n == Cardinality(DOMAIN arr)
        sorted == quickSort(arr, 0, n - 1)
        place == binarySearch(sorted, 0, n - 1, sample.of.x)
        count(a, v) == Cardinality({k \in DOMAIN a : a[k] = v})
    IN  /\ \A k \in 1 .. n - 1 : sorted[k - 1] <= sorted[k]
        /\ \A k \in DOMAIN arr : count(sorted, arr[k]) = count(arr, arr[k])
        /\ {mergeSort(arr, 0, n - 1), insertion(arr, n), bubble(arr, n), bubbleSort(arr)}
             = {sorted}
        /\ IF place = -1 THEN \A k \in DOMAIN arr : arr[k] # sample.of.x
           ELSE sorted[place] = sample.of.x

\* The vertices within d edges of 0.
RECURSIVE Within(_, _)
Within(adjacent, d) ==
  IF d = 0 THEN {0}
  ELSE Within(adjacent, d - 1) \cup UNION {adjacent[v] : v \in Within(adjacent, d - 1)}

\* Every search visits the vertices that can be reached and no other; that of
\* bfs.c each once and the nearer ones first, so that its queue, which only
\* grows, has room; and the stack of the depth-first one never needs more places
\* than there are vertices.
Reached ==
  sample.kind = "graph" =>
    LET adjMatrix == Matrix(sample.edges)
        edges == {CHOOSE p \in e \X e : p[1] < p[2] : e \in sample.edges}
        adjLists == FoldSet(LAMBDA e, lists : addEdge(lists, e),
                            [v \in DOMAIN adjMatrix |-> <<>>], edges)
        reachable == Within(adjMatrix, Cardinality(DOMAIN adjMatrix))
        visits == breadthFirstSearch(adjMatrix)
        depth == depthFirstSearch(adjMatrix)
        distance(v) == CHOOSE d \in 0 .. Cardinality(reachable) :
                         v \in Within(adjMatrix, d) /\ \A c \in 0 .. d - 1 : v \notin Within(adjMatrix, c)
    IN  /\ ToSet(visits) = reachable /\ IsInjective(visits)
        /\ \A k \in 1 .. Len(visits) - 1 : distance(visits[k]) <= distance(visits[k + 1])
        /\ bfs(adjLists, 0) = reachable
        /\ depth.visited = reachable /\ depth.deepest <= Cardinality(reachable)
=============================================================================
