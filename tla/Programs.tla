------------------------------ MODULE Programs ------------------------------
(***************************************************************************)
(* The sorting and searching programs the processor is tested with:        *)
(* test_progs/quicksort.c, mergesort.c, insertionsort.c, sort_search.c,    *)
(* bfs.c and graph.c.  An array is a function from its indices 0 .. n - 1, *)
(* a loop a recursive function of its counter.                             *)
(***************************************************************************)
EXTENDS Integers, Sequences, SequencesExt, FiniteSets

Swapped(arr, a, b) == [arr EXCEPT ![a] = arr[b], ![b] = arr[a]]

-----------------------------------------------------------------------------
(* quicksort.c *)

\* Mutant: the scan stops one place early.
PartitionStopsEarly(arr, low, high) ==
  LET pivot == arr[high]
      after[j \in low - 1 .. high - 1] ==
        IF j = low - 1 THEN [arr |-> arr, i |-> low - 1]
        ELSE LET s == after[j - 1]
             IN  IF s.arr[j] <= pivot /\ j < high - 1
                 THEN [arr |-> Swapped(s.arr, s.i + 1, j), i |-> s.i + 1]
                 ELSE s
      last == after[high - 1]
  IN  [arr |-> Swapped(last.arr, last.i + 1, high), pi |-> last.i + 1]

\* What is not above the pivot goes to its left; pi is where the pivot ends.
partition(arr, low, high) ==
  LET pivot == arr[high]
      after[j \in low - 1 .. high - 1] ==
        IF j = low - 1 THEN [arr |-> arr, i |-> low - 1]
        ELSE LET s == after[j - 1]
             IN  IF s.arr[j] <= pivot
                 THEN [arr |-> Swapped(s.arr, s.i + 1, j), i |-> s.i + 1]
                 ELSE s
      last == after[high - 1]
  IN  [arr |-> Swapped(last.arr, last.i + 1, high), pi |-> last.i + 1]

RECURSIVE quickSort(_, _, _)
quickSort(arr, low, high) ==
  IF low >= high THEN arr
  ELSE LET p == partition(arr, low, high)
       IN  quickSort(quickSort(p.arr, low, p.pi - 1), p.pi + 1, high)

-----------------------------------------------------------------------------
(* mergesort.c *)

\* i of the places before k came from the left half.
merge(arr, l, m, r) ==
  LET takesLeft(i, j) == i <= m - l /\ (j >= r - m \/ arr[l + i] <= arr[m + 1 + j])
      left[k \in l .. r] ==
        IF k = l THEN 0
        ELSE left[k - 1] + (IF takesLeft(left[k - 1], k - 1 - l - left[k - 1]) THEN 1 ELSE 0)
      merged(k) == LET i == left[k] IN
        IF takesLeft(i, k - l - i) THEN arr[l + i] ELSE arr[m + 1 + (k - l - i)]
  IN  [k \in DOMAIN arr |-> IF k \in l .. r THEN merged(k) ELSE arr[k]]

RECURSIVE mergeSort(_, _, _)
mergeSort(arr, l, r) ==
  IF l >= r THEN arr
  ELSE LET m == l + (r - l) \div 2
       IN  merge(mergeSort(mergeSort(arr, l, m), m + 1, r), l, m, r)

-----------------------------------------------------------------------------
(* insertionsort.c and sort_search.c *)

\* Despite its name, a selection sort: the first least element goes to place i.
insertion(arr, size) ==
  LET least(a, i) == CHOOSE k \in i .. size - 1 :
                       /\ \A j \in i .. size - 1 : a[k] <= a[j]
                       /\ \A j \in i .. k - 1 : a[k] < a[j]
      after[i \in 0 .. size - 1] ==
        IF i = 0 THEN arr ELSE Swapped(after[i - 1], i - 1, least(after[i - 1], i - 1))
  IN  after[size - 1]

\* The pairs (i, j), i < j, are compared and exchanged in lexicographic order.
bubble(arr, size) ==
  LET inner(a, i) ==
        LET upTo[j \in i .. size - 1] ==
              IF j = i THEN a
              ELSE IF upTo[j - 1][j] < upTo[j - 1][i] THEN Swapped(upTo[j - 1], i, j)
              ELSE upTo[j - 1]
        IN  upTo[size - 1]
      after[i \in 0 .. size - 1] == IF i = 0 THEN arr ELSE inner(after[i - 1], i - 1)
  IN  after[size - 1]

RECURSIVE binarySearch(_, _, _, _)
binarySearch(arr, l, r, x) ==
  LET mid == l + (r - l) \div 2
  IN  IF r < l THEN -1
      ELSE IF arr[mid] = x THEN mid
      ELSE IF arr[mid] > x THEN binarySearch(arr, l, mid - 1, x)
      ELSE binarySearch(arr, mid + 1, r, x)

\* bubbleSort of graph.c, on a linked list: a pass goes up to where the pass
\* before it ended, lptr, which starts behind the last node, until none swaps.
RECURSIVE BubblePasses(_, _)
BubblePasses(list, lptr) ==
  LET after[k \in 0 .. lptr - 1] ==
        IF k = 0 THEN list
        ELSE IF after[k - 1][k - 1] > after[k - 1][k] THEN Swapped(after[k - 1], k - 1, k)
        ELSE after[k - 1]
      swapped == \E k \in 1 .. lptr - 1 : after[k - 1] # after[k]
  IN  IF swapped THEN BubblePasses(after[lptr - 1], lptr - 1) ELSE list

bubbleSort(list) == BubblePasses(list, Cardinality(DOMAIN list))

-----------------------------------------------------------------------------
(* bfs.c: the queue is an array that only grows, front and rear its ends.    *)

Matrix(edges) == [v \in UNION edges |-> {w \in UNION edges : {v, w} \in edges}]

\* -1 if there is none.
getAdjUnvisitedVertex(adjMatrix, visited, v) ==
  LET next == adjMatrix[v] \ visited
  IN  IF next = {} THEN -1 ELSE CHOOSE w \in next : \A u \in next : w <= u

\* Mutant: only the first unvisited neighbour is inserted.
SearchesOneNeighbour(adjMatrix, s) ==
  LET w == getAdjUnvisitedVertex(adjMatrix, s.visited, s.queue[s.front + 1])
      t == IF w = -1 THEN s
           ELSE [s EXCEPT !.visited = @ \cup {w}, !.queue = Append(@, w)]
  IN  [t EXCEPT !.front = @ + 1]

\* The front vertex is removed and all its unvisited neighbours are inserted.
VisitsNeighbours(adjMatrix, s) ==
  LET v == s.queue[s.front + 1]
      RECURSIVE InsertAll(_)
      InsertAll(t) ==
        LET w == getAdjUnvisitedVertex(adjMatrix, t.visited, v)
        IN  IF w = -1 THEN t
            ELSE InsertAll([t EXCEPT !.visited = @ \cup {w}, !.queue = Append(@, w)])
  IN  [InsertAll(s) EXCEPT !.front = @ + 1]

RECURSIVE BreadthFirst(_, _)
BreadthFirst(adjMatrix, s) ==
  IF s.front = Len(s.queue) THEN s ELSE BreadthFirst(adjMatrix, VisitsNeighbours(adjMatrix, s))

\* The queue it leaves: the vertices in the order they were visited.
breadthFirstSearch(adjMatrix) ==
  BreadthFirst(adjMatrix, [visited |-> {0}, queue |-> <<0>>, front |-> 0]).queue

-----------------------------------------------------------------------------
(* graph.c: breadth first over lists, depth first over the matrix            *)

addEdge(adjLists, e) ==
  LET there == [adjLists EXCEPT ![e[1]] = <<e[2]>> \o @]
  IN  [there EXCEPT ![e[2]] = <<e[1]>> \o @]

\* The queue of graph.c starts over at its first place when it has run empty.
enqueue(q, v) == IF q.rear = 39 THEN q
                 ELSE [items |-> (q.rear + 1 :> v) @@ q.items,
                       front |-> IF q.front = -1 THEN 0 ELSE q.front, rear |-> q.rear + 1]
dequeue(q) == IF q.front = q.rear THEN [q EXCEPT !.front = -1, !.rear = -1]
              ELSE [q EXCEPT !.front = @ + 1]

RECURSIVE BfsLoop(_, _)
BfsLoop(adjLists, s) ==
  IF s.q.rear = -1 THEN s
  ELSE LET visit(t, w) == IF w \in t.visited THEN t
                          ELSE [q |-> enqueue(t.q, w), visited |-> t.visited \cup {w}]
           v == s.q.items[s.q.front]
       IN  BfsLoop(adjLists, FoldLeft(visit, [s EXCEPT !.q = dequeue(@)], adjLists[v]))

bfs(adjLists, startVertex) ==
  BfsLoop(adjLists,
          [q |-> enqueue([items |-> <<>>, front |-> -1, rear |-> -1], startVertex),
           visited |-> {startVertex}]).visited

\* The stack holds the path to the current vertex; deepest is a history of how
\* long it was.
RECURSIVE DepthFirst(_, _, _, _)
DepthFirst(adjMatrix, visited, stack, deepest) ==
  IF stack = <<>> THEN [visited |-> visited, deepest |-> deepest]
  ELSE LET w == getAdjUnvisitedVertex(adjMatrix, visited, Last(stack))
       IN  IF w = -1 THEN DepthFirst(adjMatrix, visited, Front(stack), deepest)
           ELSE DepthFirst(adjMatrix, visited \cup {w}, Append(stack, w),
                           IF Len(stack) < deepest THEN deepest ELSE Len(stack) + 1)

depthFirstSearch(adjMatrix) == DepthFirst(adjMatrix, {0}, <<0>>, 1)
=============================================================================
