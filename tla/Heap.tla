-------------------------------- MODULE Heap --------------------------------
(***************************************************************************)
(* The allocator of the test programs (test_progs/tj_malloc.h).  The free  *)
(* blocks are a ring of headers, in the order of their addresses, that     *)
(* goes through base.  Addresses and sizes are in bytes, but the pointer   *)
(* arithmetic of the code is in headers: bp + n is n headers further.      *)
(***************************************************************************)
EXTENDS Integers, FiniteSets

CONSTANTS HEAP_SIZE, HeapStart

NULL == 0
HeaderSize == 8   \* a pointer and an unsigned, of four bytes each on the processor

\* There is room below the heap for a variable whose address is not NULL.
ASSUME HeapAssumption == HEAP_SIZE \in Nat /\ HeapStart \in Nat /\ HeapStart > HeaderSize

Beyond(p, n) == p + HeaderSize * n
WordAligned(size) == IF size % 4 # 0 THEN size + 4 - (size % 4) ELSE size

\* Unsigned arithmetic, in 16 bits for 32.
Unsigned(n) == n % 2^16

\* A function with the value of one argument set, in its domain or not.
Put(f, a, value) == [b \in DOMAIN f \cup {a} |-> IF b = a THEN value ELSE f[b]]

NoHeap(base) ==
  [headers |-> [b \in {base} |-> [next |-> NULL, size |-> 0]], base |-> base,
   freep |-> NULL, next_index |-> HeapStart, avail_mem |-> HEAP_SIZE]

\* The free blocks from freep on, and the k-th of them.
Links(heap) ==
  LET chain[j \in Nat] == IF j = 0 THEN heap.freep ELSE heap.headers[chain[j - 1]].next
  IN  chain
Chain(heap, k) == Links(heap)[k]

Rounds(heap) == 0 .. Cardinality(DOMAIN heap.headers)
First(S) == CHOOSE k \in S : \A l \in S : k <= l

\* The free block behind which bp belongs, tj_free's loop.
Goes(heap, p, bp) ==
  LET after == heap.headers[p].next
  IN  \/ p < bp /\ bp < after
      \/ p >= after /\ (p < bp \/ bp < after)
PlaceOf(heap, bp) == Chain(heap, First({k \in Rounds(heap) : Goes(heap, Chain(heap, k), bp)}))

tj_free(heap, mem) ==
  LET bp == mem - HeaderSize
      p == PlaceOf(heap, bp)
      upper == heap.headers[p].next
      size == heap.headers[bp].size
      block == IF Beyond(bp, size) = upper
               THEN [next |-> heap.headers[upper].next,
                     size |-> size + heap.headers[upper].size]
               ELSE [next |-> upper, size |-> size]
      lower == IF Beyond(p, heap.headers[p].size) = bp
               THEN [next |-> block.next, size |-> heap.headers[p].size + block.size]
               ELSE [heap.headers[p] EXCEPT !.next = bp]
  IN  [heap EXCEPT !.headers = Put(Put(@, bp, block), p, lower), !.freep = p]

\* Carves a new block and frees it; avail_mem is at least total_size.
getmoremem(heap, total_size) ==
  LET up == heap.next_index
  IN  tj_free([heap EXCEPT
                 !.next_index = up + total_size,
                 !.avail_mem = @ - total_size,
                 !.headers = Put(@, up, [next |-> NULL, size |-> total_size - HeaderSize])],
              up + HeaderSize)

\* Mutant: a block that fits exactly stays on the free list.
TakeKeepsListed(heap, prevp, p, size) ==
  LET left == Unsigned(heap.headers[p].size - (size + HeaderSize))
      part == Unsigned(Beyond(p, left))
  IN  IF heap.headers[p].size = size
      THEN [heap |-> [heap EXCEPT !.freep = prevp],
            mem |-> p + HeaderSize]
      ELSE [heap |-> [heap EXCEPT !.headers = Put([@ EXCEPT ![p].size = left], part,
                                                  [next |-> NULL, size |-> size]),
                                  !.freep = prevp],
            mem |-> part + HeaderSize]

\* Takes a block of the size from p, the free block behind prevp.
Take(heap, prevp, p, size) ==
  LET left == Unsigned(heap.headers[p].size - (size + HeaderSize))
      part == Unsigned(Beyond(p, left))
  IN  IF heap.headers[p].size = size
      THEN [heap |-> [heap EXCEPT !.headers[prevp].next = heap.headers[p].next,
                                  !.freep = prevp],
            mem |-> p + HeaderSize]
      ELSE [heap |-> [heap EXCEPT !.headers = Put([@ EXCEPT ![p].size = left], part,
                                                  [next |-> NULL, size |-> size]),
                                  !.freep = prevp],
            mem |-> part + HeaderSize]

\* The rounds from freep on at which a block is large enough.
Fits(heap, size) == {k \in Rounds(heap) \ {0} : heap.headers[Chain(heap, k)].size >= size}
TakeFirst(heap, size) ==
  LET k == First(Fits(heap, size)) IN Take(heap, Chain(heap, k - 1), Chain(heap, k), size)

\* One round from freep; if no block is found one is carved, and the loop goes on
\* behind the block that precedes it: it then finds that one, if no other.
Search(heap, size) ==
  LET total == size + HeaderSize
  IN  IF Fits(heap, size) # {} THEN TakeFirst(heap, size)
      ELSE IF heap.avail_mem < total THEN [heap |-> heap, mem |-> NULL]
      ELSE TakeFirst(getmoremem(heap, total), size)

tj_malloc(heap, wanted) ==
  LET size == WordAligned(wanted)
      base == heap.base
      ready == IF heap.freep # NULL THEN heap
               ELSE [heap EXCEPT !.freep = base,
                                 !.headers[base] = [next |-> base, size |-> 0]]
  IN  IF wanted > HEAP_SIZE THEN [heap |-> heap, mem |-> NULL] ELSE Search(ready, size)

\* The headers on the free list, but for base.
FreeBlocks(heap) ==
  IF heap.freep = NULL THEN {}
  ELSE {Chain(heap, k) : k \in Rounds(heap)} \ {heap.base}
=============================================================================
