---------------------------- MODULE PriorityQueue ----------------------------
(***************************************************************************)
(* The priority queue of test_progs/priority_queue.c, a linked list whose  *)
(* nodes come from and go back to the heap of Heap.  The program creates   *)
(* the queue with one node, pushes to a queue that is not empty, and pops  *)
(* until it is.                                                            *)
(***************************************************************************)
EXTENDS Heap, Sequences

CONSTANTS
  Priorities,   \* a lower value is a higher priority
  MaxNodes      \* bound: nodes at a time, as many as the heap has room for

NodeSize == 12  \* data, priority and next

\* The size of the heap, 16 KiB in the code, is not one at which tj_free, whose
\* bp + bp->size is as many headers further, takes a block to end where base is.
ASSUME QueueAssumption ==
  /\ Priorities \subseteq Nat
  /\ MaxNodes \in Nat \ {0} /\ MaxNodes * (NodeSize + HeaderSize) <= HEAP_SIZE
  /\ \A k \in 0 .. HEAP_SIZE : Beyond(k * (NodeSize + HeaderSize), NodeSize) # HEAP_SIZE

VARIABLES
  heap,   \* the allocator's state
  nodes,  \* the nodes in use, by their addresses
  pq,     \* the head of the list
  held    \* history: how many elements of each priority the queue ought to hold

queueVars == <<heap, nodes, pq, held>>

\* base is the program's own variable: the linker puts it below or above the heap.
Bases == {HeapStart - HeaderSize, HeapStart + HEAP_SIZE}

QueueInit ==
  /\ heap \in {NoHeap(base) : base \in Bases}
  /\ nodes = [a \in {} |-> NULL]
  /\ pq = NULL
  /\ held = [p \in Priorities |-> 0]

Linked(start) ==
  LET at[k \in 0 .. MaxNodes] ==
        IF k = 0 THEN start ELSE IF at[k - 1] = NULL THEN NULL ELSE nodes[at[k - 1]].next
  IN  at

\* newNode: the next field is set by the caller.
NewNode(at, p, next, mem) == Put(at, mem, [priority |-> p, next |-> next])

Create(p) ==
  /\ pq = NULL
  /\ LET got == tj_malloc(heap, NodeSize)
     IN  /\ heap' = got.heap
         /\ nodes' = NewNode(nodes, p, NULL, got.mem)
         /\ pq' = got.mem
  /\ held' = [held EXCEPT ![p] = @ + 1]

\* Mutant: the walk stops at the first node that does not precede the new one.
BeforeStopsLate(p) ==
  LET at == Linked(pq)
      stops(k) == LET next == nodes[at[k]].next
                  IN  next = NULL \/ nodes[at[k]].priority >= p
  IN  at[First({k \in 0 .. MaxNodes : at[k] # NULL /\ stops(k)})]

\* The node the new one goes behind, push's loop.
Before(p) ==
  LET at == Linked(pq)
      stops(k) == LET next == nodes[at[k]].next
                  IN  next = NULL \/ nodes[next].priority >= p
  IN  at[First({k \in 0 .. MaxNodes : at[k] # NULL /\ stops(k)})]

push(p) ==
  /\ pq # NULL /\ Cardinality(DOMAIN nodes) < MaxNodes
  /\ LET got == tj_malloc(heap, NodeSize)
         start == Before(p)
     IN  /\ heap' = got.heap
         /\ IF nodes[pq].priority > p
            THEN pq' = got.mem /\ nodes' = NewNode(nodes, p, pq, got.mem)
            ELSE /\ nodes' = NewNode([nodes EXCEPT ![start].next = got.mem], p,
                                     nodes[start].next, got.mem)
                 /\ UNCHANGED pq
  /\ held' = [held EXCEPT ![p] = @ + 1]

pop ==
  /\ pq # NULL
  /\ heap' = tj_free(heap, pq)
  /\ pq' = nodes[pq].next
  /\ nodes' = [a \in DOMAIN nodes \ {pq} |-> nodes[a]]
  /\ held' = [held EXCEPT ![First({p \in Priorities : held[p] > 0})] = @ - 1]

QueueNext == (\E p \in Priorities : Create(p) \/ push(p)) \/ pop

QueueSpec == QueueInit /\ [][QueueNext]_queueVars

-----------------------------------------------------------------------------
\* Every block carved out of the heap belongs to one node or is on the free list,
\* never both and never neither: no block is handed out twice and none is lost.
BlocksOwnedOnce ==
  LET total == NodeSize + HeaderSize
      used == {a - HeaderSize : a \in DOMAIN nodes}
      carved == {HeapStart + k * total : k \in 0 .. ((heap.next_index - HeapStart) \div total) - 1}
  IN  /\ used \cup FreeBlocks(heap) = carved
      /\ used \cap FreeBlocks(heap) = {}

\* The list holds every element pushed and not popped, the lowest priority value
\* at its head: a pop takes one that nothing precedes.
QueueOrdered ==
  LET at == Linked(pq)
      inList == {k \in 0 .. MaxNodes - 1 : at[k] # NULL}
  IN  /\ {at[k] : k \in inList} = DOMAIN nodes
      /\ \A k \in inList : k + 1 \in inList =>
           nodes[at[k]].priority <= nodes[at[k + 1]].priority
      /\ \A p \in Priorities :
           held[p] = Cardinality({k \in inList : nodes[at[k]].priority = p})
=============================================================================
