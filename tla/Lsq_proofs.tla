------------------------------ MODULE Lsq_proofs ------------------------------
(***************************************************************************)
(* Theorems about the load/store queue, for any size of the queue of at    *)
(* least four places and of the reorder buffer of at least two, and any    *)
(* programs: the queue and the reorder buffer agree, a load's bytes come   *)
(* from the youngest older stores, a store retires only when it has been   *)
(* written, and a request stays until it is completed.                     *)
(***************************************************************************)
EXTENDS Lsq, FiniteSetTheorems, SequenceTheorems, WellFoundedInduction, TLAPS

Phases == {"waiting", "executing", "ex_cp_mem", "done", "mispredicted"}

\* The pointers, the table and the window are well formed.
LsqTypes ==
  /\ head \in 0 .. 2 * SQ_SIZE - 1 /\ tail \in 0 .. 2 * SQ_SIZE - 1
  /\ DOMAIN sq_tbl = Slots /\ \A i \in Slots : sq_tbl[i].valid \in BOOLEAN
  /\ priority_state \in {0, 1}
  /\ window \in Seq([insn : Insns, sq_pos : Slots, phase : Phases])
  /\ Len(window) <= ROB_SIZE
  /\ rob_head \in Tags

IsStore(k) == window[k].insn.kind = "store"

\* Only branches are mispredicted, only the others go through a unit, and each of
\* the two units has one instruction.
Stages ==
  /\ \A k \in DOMAIN window :
       IF window[k].insn.kind = "branch"
       THEN window[k].phase \in {"waiting", "done", "mispredicted"}
       ELSE window[k].phase # "mispredicted"
  /\ \A j, k \in DOMAIN window :
       window[j].phase = "executing" /\ window[k].phase = "executing"
         /\ window[j].insn.kind = window[k].insn.kind => j = k

\* One place at least is free: a full queue could not tell the first place from
\* the one behind the last.
Room == StoresBefore(Len(window) + 1) < SQ_SIZE

\* The first two parts of QueueMatchesWindow.
Placed ==
  /\ tail = Plus(head, StoresBefore(Len(window) + 1))
  /\ \A k \in DOMAIN window : window[k].sq_pos = Idx(Plus(head, StoresBefore(k)))

\* What a store writes into its place. One that stalls behind a load has
\* written it too.
EntryOf(k) == [valid |-> TRUE, tag |-> Tag(k), access |-> window[k].insn.access]

Entered ==
  \A k \in DOMAIN window : IsStore(k) =>
    /\ sq_tbl[window[k].sq_pos].valid => sq_tbl[window[k].sq_pos] = EntryOf(k)
    /\ window[k].phase = "waiting" => ~sq_tbl[window[k].sq_pos].valid
    /\ window[k].phase \in {"ex_cp_mem", "done"} => sq_tbl[window[k].sq_pos].valid

Owned ==
  \A i \in Slots : sq_tbl[i].valid =>
    \E k \in DOMAIN window : IsStore(k) /\ window[k].sq_pos = i

LsqInv == LsqTypes /\ Stages /\ Room /\ Placed /\ Entered /\ Owned

-----------------------------------------------------------------------------
(* Pointers and places.                                                    *)

LEMMA Remainders ==
  \A m \in Nat \ {0}, q \in Int :
    q >= -m /\ q < 2 * m =>
      q % m = IF q >= m THEN q - m ELSE IF q < 0 THEN q + m ELSE q
<1>1. ASSUME NEW m \in Nat \ {0}, NEW q \in Int, q >= -m, q < 2 * m
      PROVE  q % m = IF q >= m THEN q - m ELSE IF q < 0 THEN q + m ELSE q
  <2>1. q % m \in Int /\ q = m * (q \div m) + (q % m) /\ q % m \in 0 .. m - 1
    OBVIOUS
  <2>2. q \div m \in {-1, 0, 1}
    BY <1>1, <2>1
  <2>3. QED  BY <2>1, <2>2
<1>2. QED  BY <1>1

\* A pointer and an index, with no remainders.
LEMMA PointerFacts ==
  ASSUME NEW p \in 0 .. 2 * SQ_SIZE - 1, NEW k \in 0 .. SQ_SIZE
  PROVE  /\ Idx(p) = IF p >= SQ_SIZE THEN p - SQ_SIZE ELSE p
         /\ Idx(p) \in Slots
         /\ Plus(p, k) = IF p + k >= 2 * SQ_SIZE THEN p + k - 2 * SQ_SIZE ELSE p + k
         /\ Plus(p, k) \in 0 .. 2 * SQ_SIZE - 1
<1>1. SQ_SIZE \in Nat \ {0} /\ 2 * SQ_SIZE \in Nat \ {0} /\ p \in Int /\ p + k \in Int
  BY LsqAssumption
<1>2. Idx(p) = IF p >= SQ_SIZE THEN p - SQ_SIZE ELSE p
  <2>1. p \in Int /\ p >= -SQ_SIZE /\ p < 2 * SQ_SIZE /\ p >= 0
    BY <1>1
  <2>2. p % SQ_SIZE = IF p >= SQ_SIZE THEN p - SQ_SIZE ELSE IF p < 0 THEN p + SQ_SIZE ELSE p
    BY <1>1, <2>1, Remainders, Zenon
  <2>3. QED  BY <1>1, <2>1, <2>2 DEF Idx
<1>3. Plus(p, k) = IF p + k >= 2 * SQ_SIZE THEN p + k - 2 * SQ_SIZE ELSE p + k
  <2>1. PICK m \in Nat \ {0} : m = 2 * SQ_SIZE
    BY <1>1
  <2>2. PICK q \in Int : q = p + k
    BY <1>1
  <2>3. q >= 0 /\ q >= -m /\ q < 2 * m
    BY <1>1, <2>1, <2>2
  <2>4. q % m = IF q >= m THEN q - m ELSE IF q < 0 THEN q + m ELSE q
    BY <2>3, Remainders, Zenon
  <2>5. Plus(p, k) = q % m
    BY <2>1, <2>2, Zenon DEF Plus
  <2>6. QED  BY <1>1, <2>1, <2>2, <2>4, <2>5
<1>4. QED  BY <1>1, <1>2, <1>3 DEF Slots

\* How far index i lies behind the pointer h.
Off(h, i) == IF i >= Idx(h) THEN i - Idx(h) ELSE i - Idx(h) + SQ_SIZE

\* The place s behind h has offset s, and is no other offset's.
LEMMA PlaceFacts ==
  ASSUME NEW h \in 0 .. 2 * SQ_SIZE - 1, NEW s \in 0 .. SQ_SIZE - 1
  PROVE  /\ Idx(Plus(h, s)) = IF Idx(h) + s >= SQ_SIZE THEN Idx(h) + s - SQ_SIZE ELSE Idx(h) + s
         /\ Idx(Plus(h, s)) \in Slots
         /\ Off(h, Idx(Plus(h, s))) = s
<1>1. SQ_SIZE \in Nat \ {0} /\ s \in 0 .. SQ_SIZE
  BY LsqAssumption
<1>2. /\ Idx(h) = IF h >= SQ_SIZE THEN h - SQ_SIZE ELSE h
      /\ Plus(h, s) = IF h + s >= 2 * SQ_SIZE THEN h + s - 2 * SQ_SIZE ELSE h + s
      /\ Plus(h, s) \in 0 .. 2 * SQ_SIZE - 1
  BY <1>1, PointerFacts
<1>3. /\ Idx(Plus(h, s)) = IF Plus(h, s) >= SQ_SIZE THEN Plus(h, s) - SQ_SIZE ELSE Plus(h, s)
      /\ Idx(Plus(h, s)) \in Slots
  BY <1>1, <1>2, PointerFacts
<1>4. Idx(Plus(h, s)) = IF Idx(h) + s >= SQ_SIZE THEN Idx(h) + s - SQ_SIZE ELSE Idx(h) + s
  BY <1>1, <1>2, <1>3
<1>5. QED  BY <1>1, <1>2, <1>3, <1>4 DEF Off

\* Pointers add up.
LEMMA PointersAdd ==
  ASSUME NEW h \in 0 .. 2 * SQ_SIZE - 1, NEW a \in 0 .. SQ_SIZE, NEW b \in 0 .. SQ_SIZE,
         a + b <= SQ_SIZE
  PROVE  Plus(Plus(h, a), b) = Plus(h, a + b)
<1>1. SQ_SIZE \in Nat \ {0} /\ a + b \in 0 .. SQ_SIZE
  BY LsqAssumption
<1>2. /\ Plus(h, a) = IF h + a >= 2 * SQ_SIZE THEN h + a - 2 * SQ_SIZE ELSE h + a
      /\ Plus(h, a) \in 0 .. 2 * SQ_SIZE - 1
  BY PointerFacts
<1>3. Plus(h, a + b) = IF h + (a + b) >= 2 * SQ_SIZE THEN h + (a + b) - 2 * SQ_SIZE ELSE h + (a + b)
  BY <1>1, PointerFacts
<1>4. Plus(Plus(h, a), b) = IF Plus(h, a) + b >= 2 * SQ_SIZE THEN Plus(h, a) + b - 2 * SQ_SIZE
                            ELSE Plus(h, a) + b
  BY <1>2, PointerFacts
<1>5. QED  BY <1>1, <1>2, <1>3, <1>4

\* Different places behind the head of one head are different indices; moving
\* the head by a moves every place that stays by a.
LEMMA OffsetsDiffer ==
  ASSUME NEW h \in 0 .. 2 * SQ_SIZE - 1, NEW i \in Slots, NEW j \in Slots, Off(h, i) = Off(h, j)
  PROVE  i = j
<1>1. SQ_SIZE \in Nat \ {0} /\ Idx(h) \in 0 .. SQ_SIZE - 1
  BY LsqAssumption, PointerFacts DEF Slots
<1>2. QED  BY <1>1 DEF Off, Slots

-----------------------------------------------------------------------------
(* Counting the stores.                                                    *)

\* A set put behind another one.
LEMMA CountsAdd ==
  ASSUME NEW A \in SUBSET Int, IsFiniteSet(A), NEW R \in SUBSET Int, IsFiniteSet(R),
         NEW d \in Int, \A r \in R : r <= d, \A a \in A : a >= 1
  PROVE  Cardinality(R \cup {a + d : a \in A}) = Cardinality(R) + Cardinality(A)
<1>. DEFINE B == {a + d : a \in A}
            f == [a \in A |-> a + d]
<1>1. f \in Bijection(A, B)
  <2>1. f \in [A -> B] /\ \A b \in B : \E a \in A : f[a] = b
    OBVIOUS
  <2>2. \A x, y \in A : f[x] = f[y] => x = y
    OBVIOUS
  <2>3. QED  BY <2>1, <2>2 DEF Bijection, Injection, Surjection, IsInjective
<1>2. IsFiniteSet(B) /\ Cardinality(B) = Cardinality(A)
  BY <1>1, FS_Bijection DEF ExistsBijection
<1>3. R \cap B = {}
  OBVIOUS
<1>. HIDE DEF B
<1>4. /\ Cardinality(R \cup B) = Cardinality(R) + Cardinality(B) - Cardinality(R \cap B)
      /\ Cardinality(R \cap B) = 0
      /\ Cardinality(R) \in Nat /\ Cardinality(B) \in Nat
  BY <1>2, <1>3, FS_Union, FS_EmptySet, FS_CardinalityType
<1>5. QED  BY <1>2, <1>4 DEF B

\* The stores among the first k - 1 of w: StoresBefore, for any window.
StoresOf(w, k) == {j \in 1 .. k - 1 : w[j].insn.kind = "store"}
Count(w, k) == Cardinality(StoresOf(w, k))

LEMMA CountFacts ==
  ASSUME NEW w, NEW k \in Nat \ {0}
  PROVE  /\ IsFiniteSet(StoresOf(w, k)) /\ StoresOf(w, k) \in SUBSET Int
         /\ Count(w, k) \in Nat
         /\ Count(w, 1) = 0
         /\ Count(w, k + 1) = Count(w, k) + (IF w[k].insn.kind = "store" THEN 1 ELSE 0)
<1>1. IsFiniteSet(StoresOf(w, k)) /\ StoresOf(w, k) \in SUBSET Int /\ Count(w, k) \in Nat
  <2>1. IsFiniteSet(1 .. k - 1) /\ StoresOf(w, k) \in SUBSET (1 .. k - 1)
    BY FS_Interval DEF StoresOf
  <2>2. QED  BY <2>1, FS_Subset, FS_CardinalityType DEF Count
<1>2. Count(w, 1) = 0
  <2>1. StoresOf(w, 1) = {}
    BY DEF StoresOf
  <2>2. QED  BY <2>1, FS_EmptySet DEF Count
<1>3. CASE w[k].insn.kind = "store"
  <2>1. StoresOf(w, k + 1) = StoresOf(w, k) \cup {k} /\ k \notin StoresOf(w, k)
    BY <1>3 DEF StoresOf
  <2>2. QED  BY <1>1, <1>2, <1>3, <2>1, FS_AddElement DEF Count
<1>4. CASE w[k].insn.kind # "store"
  <2>1. StoresOf(w, k + 1) = StoresOf(w, k)
    BY <1>4 DEF StoresOf
  <2>2. QED  BY <1>1, <1>2, <1>4, <2>1 DEF Count
<1>5. QED  BY <1>3, <1>4

\* Later places have as many stores before them, and more if one lies between.
LEMMA CountMonotone ==
  ASSUME NEW w, NEW j \in Nat \ {0}, NEW k \in Nat \ {0}, j <= k
  PROVE  /\ Count(w, j) <= Count(w, k)
         /\ j < k /\ w[j].insn.kind = "store" => Count(w, j) + 1 <= Count(w, k)
<1>1. ASSUME NEW i \in Nat \ {0}, i <= k PROVE Count(w, i) <= Count(w, k)
  <2>1. StoresOf(w, i) \in SUBSET StoresOf(w, k)
    BY <1>1 DEF StoresOf
  <2>2. IsFiniteSet(StoresOf(w, k))
    BY CountFacts
  <2>3. QED  BY <2>1, <2>2, FS_Subset DEF Count
<1>2. j < k /\ w[j].insn.kind = "store" => Count(w, j) + 1 <= Count(w, k)
  <2>1. ASSUME j < k, w[j].insn.kind = "store" PROVE Count(w, j) + 1 <= Count(w, k)
    <3>1. Count(w, j + 1) = Count(w, j) + 1
      BY <2>1, CountFacts
    <3>2. j + 1 \in Nat \ {0} /\ j + 1 <= k
      BY <2>1
    <3>3. Count(w, j + 1) <= Count(w, k)
      BY <3>2, <1>1
    <3>4. QED  BY <3>1, <3>3
  <2>2. QED  BY <2>1
<1>3. QED  BY <1>1, <1>2

\* If w goes on, behind its first p, like v, its stores are those of both.
LEMMA CountBehind ==
  ASSUME NEW w, NEW v, NEW p \in Nat, NEW k \in Nat \ {0},
         \A j \in 1 .. k - 1 : w[p + j].insn.kind = v[j].insn.kind
  PROVE  Count(w, p + k) = Count(w, p + 1) + Count(v, k)
<1>. DEFINE A == StoresOf(v, k)
            R == StoresOf(w, p + 1)
<1>1. StoresOf(w, p + k) = R \cup {a + p : a \in A}
  <2>1. ASSUME NEW x \in StoresOf(w, p + k) PROVE x \in R \cup {a + p : a \in A}
    <3>1. x \in 1 .. p + k - 1 /\ w[x].insn.kind = "store"
      BY DEF StoresOf
    <3>2. CASE x <= p
      BY <3>1, <3>2 DEF StoresOf
    <3>3. CASE x > p
      <4>1. x - p \in 1 .. k - 1 /\ p + (x - p) = x /\ (x - p) + p = x
        BY <3>1, <3>3
      <4>2. x - p \in A
        BY <4>1, <3>1 DEF StoresOf
      <4>3. QED  BY <4>1, <4>2
    <3>4. QED  BY <3>1, <3>2, <3>3
  <2>2. ASSUME NEW x \in R PROVE x \in StoresOf(w, p + k)
    BY DEF StoresOf
  <2>3. ASSUME NEW a \in A PROVE a + p \in StoresOf(w, p + k)
    <3>1. a \in 1 .. k - 1 /\ v[a].insn.kind = "store"
      BY DEF StoresOf
    <3>2. w[p + a].insn.kind = "store" /\ a + p = p + a /\ a + p \in 1 .. p + k - 1
      BY <3>1
    <3>3. QED  BY <3>2 DEF StoresOf
  <2>4. QED  BY <2>1, <2>2, <2>3
<1>2. /\ A \in SUBSET Int /\ IsFiniteSet(A) /\ R \in SUBSET Int /\ IsFiniteSet(R)
      /\ \A r \in R : r <= p
      /\ \A a \in A : a >= 1
  <2>1. /\ A \in SUBSET Int /\ IsFiniteSet(A) /\ R \in SUBSET Int /\ IsFiniteSet(R)
    BY CountFacts
  <2>2. /\ \A r \in R : r <= p
        /\ \A a \in A : a >= 1
    BY DEF StoresOf
  <2>3. QED  BY <2>1, <2>2
<1>. HIDE DEF A, R
<1>3. Cardinality(R \cup {a + p : a \in A}) = Cardinality(R) + Cardinality(A)
  <2>1. p \in Int
    OBVIOUS
  <2>2. QED  BY <2>1, <1>2, CountsAdd, Zenon
<1>4. QED  BY <1>1, <1>3 DEF Count, A, R

-----------------------------------------------------------------------------
(* The queue and the window.                                               *)

LEMMA WindowFacts ==
  ASSUME LsqTypes
  PROVE  /\ Len(window) \in Nat /\ DOMAIN window = 1 .. Len(window)
         /\ \A k \in DOMAIN window :
              /\ window[k] \in [insn : Insns, sq_pos : Slots, phase : Phases]
              /\ window[k].insn \in Insns /\ window[k].sq_pos \in Slots
              /\ window[k].phase \in Phases
              /\ window[k].insn.kind \in {"load", "store", "branch"}
<1>1. Len(window) \in Nat /\ DOMAIN window = 1 .. Len(window)
  BY LenProperties, Zenon DEF LsqTypes
<1>2. \A k \in DOMAIN window : window[k] \in [insn : Insns, sq_pos : Slots, phase : Phases]
  BY <1>1, ElementOfSeq, Zenon DEF LsqTypes
<1>3. \A insn \in Insns : insn.kind \in {"load", "store", "branch"}
  BY LsqAssumption
<1>4. QED  BY <1>1, <1>2, <1>3

\* Where the place of an instruction lies behind the head.
LEMMA PlacesBehindHead ==
  ASSUME LsqInv, NEW k \in DOMAIN window
  PROVE  /\ k \in Nat \ {0} /\ k <= Len(window) /\ Len(window) + 1 \in Nat \ {0}
         /\ Count(window, k) \in 0 .. SQ_SIZE - 1
         /\ window[k].sq_pos = Idx(Plus(head, Count(window, k)))
         /\ Off(head, window[k].sq_pos) = Count(window, k)
         /\ Count(window, k) <= Count(window, Len(window) + 1)
         /\ IsStore(k) => Count(window, k) < Count(window, Len(window) + 1)
<1>1. /\ Len(window) \in Nat /\ k \in 1 .. Len(window) /\ SQ_SIZE \in Nat
      /\ head \in 0 .. 2 * SQ_SIZE - 1
  BY WindowFacts, LsqAssumption DEF LsqInv, LsqTypes
<1>2. k \in Nat \ {0} /\ Len(window) + 1 \in Nat \ {0} /\ k <= Len(window) + 1 /\ k < Len(window) + 1
  BY <1>1
<1>3. /\ Count(window, k) \in Nat /\ Count(window, Len(window) + 1) \in Nat
      /\ Count(window, k) <= Count(window, Len(window) + 1)
      /\ IsStore(k) => Count(window, k) + 1 <= Count(window, Len(window) + 1)
  BY <1>2, CountFacts, CountMonotone DEF IsStore
<1>4. Count(window, Len(window) + 1) < SQ_SIZE
  BY DEF LsqInv, Room, StoresBefore, Count, StoresOf
<1>5. Count(window, k) \in 0 .. SQ_SIZE - 1
  BY <1>1, <1>3, <1>4
<1>6. window[k].sq_pos = Idx(Plus(head, Count(window, k)))
  BY DEF LsqInv, Placed, StoresBefore, Count, StoresOf
<1>7. Off(head, window[k].sq_pos) = Count(window, k)
  BY <1>1, <1>5, <1>6, PlaceFacts
<1>8. QED  BY <1>1, <1>2, <1>3, <1>5, <1>6, <1>7

\* Two stores have two places, in program order.
LEMMA StoresApart ==
  ASSUME LsqInv, NEW j \in DOMAIN window, NEW k \in DOMAIN window, IsStore(j)
  PROVE  /\ j < k => Off(head, window[j].sq_pos) < Off(head, window[k].sq_pos)
         /\ Off(head, window[j].sq_pos) < Off(head, window[k].sq_pos) => j < k
         /\ IsStore(k) /\ window[j].sq_pos = window[k].sq_pos => j = k
<1>1. /\ j \in Nat \ {0} /\ k \in Nat \ {0}
      /\ Off(head, window[j].sq_pos) = Count(window, j)
      /\ Off(head, window[k].sq_pos) = Count(window, k)
  BY PlacesBehindHead
<1>2. Count(window, j) \in Nat /\ Count(window, k) \in Nat
  BY <1>1, CountFacts
<1>3. j < k => Count(window, j) + 1 <= Count(window, k)
  <2>1. j < k => j <= k
    BY <1>1
  <2>2. QED  BY <1>1, <2>1, CountMonotone DEF IsStore
<1>4. k <= j => Count(window, k) <= Count(window, j)
  BY <1>1, CountMonotone
<1>5. IsStore(k) /\ k < j => Count(window, k) + 1 <= Count(window, j)
  <2>1. k < j => k <= j
    BY <1>1
  <2>2. QED  BY <1>1, <2>1, CountMonotone DEF IsStore
<1>6. QED  BY <1>1, <1>2, <1>3, <1>4, <1>5

\* Every valid entry is that of a store in the window.
LEMMA ValidEntries ==
  ASSUME LsqInv, NEW i \in Slots, sq_tbl[i].valid
  PROVE  \E k \in DOMAIN window :
           /\ IsStore(k) /\ window[k].sq_pos = i /\ sq_tbl[i] = EntryOf(k)
           /\ window[k].phase # "waiting"
           /\ Off(head, i) = Count(window, k)
<1>1. PICK k \in DOMAIN window : IsStore(k) /\ window[k].sq_pos = i
  BY DEF LsqInv, Owned
<1>2. sq_tbl[i] = EntryOf(k) /\ window[k].phase # "waiting"
  BY <1>1 DEF LsqInv, Entered
<1>3. Off(head, i) = Count(window, k)
  BY <1>1, PlacesBehindHead
<1>4. QED  BY <1>1, <1>2, <1>3

\* Instructions in the reorder buffer have tags of their own, which move with
\* its head.
LEMMA TagFacts ==
  ASSUME rob_head \in Tags, NEW k \in 1 .. ROB_SIZE
  PROVE  /\ Tag(k) = IF rob_head + k - 1 >= ROB_SIZE THEN rob_head + k - 1 - ROB_SIZE
                     ELSE rob_head + k - 1
         /\ Tag(k) \in Tags
         /\ \A j \in 1 .. ROB_SIZE : Tag(j) = Tag(k) => j = k
<1>1. ROB_SIZE \in Nat \ {0} /\ rob_head \in 0 .. ROB_SIZE - 1
  BY LsqAssumption DEF Tags
<1>2. ASSUME NEW j \in 1 .. ROB_SIZE
      PROVE  Tag(j) = IF rob_head + j - 1 >= ROB_SIZE THEN rob_head + j - 1 - ROB_SIZE
                      ELSE rob_head + j - 1
  <2>1. PICK q \in Int : q = rob_head + j - 1
    BY <1>1
  <2>2. q >= -ROB_SIZE /\ q < 2 * ROB_SIZE /\ q >= 0
    BY <1>1, <2>1
  <2>3. q % ROB_SIZE = IF q >= ROB_SIZE THEN q - ROB_SIZE ELSE IF q < 0 THEN q + ROB_SIZE ELSE q
    BY <1>1, <2>2, Remainders, Zenon
  <2>4. Tag(j) = q % ROB_SIZE
    BY <2>1 DEF Tag
  <2>5. QED  BY <1>1, <2>1, <2>2, <2>3, <2>4
<1>3. Tag(k) \in Tags
  BY <1>1, <1>2 DEF Tags
<1>4. ASSUME NEW j \in 1 .. ROB_SIZE, Tag(j) = Tag(k) PROVE j = k
  <2>1. Tag(j) = IF rob_head + j - 1 >= ROB_SIZE THEN rob_head + j - 1 - ROB_SIZE
                 ELSE rob_head + j - 1
    BY <1>2
  <2>2. Tag(k) = IF rob_head + k - 1 >= ROB_SIZE THEN rob_head + k - 1 - ROB_SIZE
                 ELSE rob_head + k - 1
    BY <1>2
  <2>3. (IF rob_head + j - 1 >= ROB_SIZE THEN rob_head + j - 1 - ROB_SIZE ELSE rob_head + j - 1)
          = IF rob_head + k - 1 >= ROB_SIZE THEN rob_head + k - 1 - ROB_SIZE ELSE rob_head + k - 1
    BY <1>4, <2>1, <2>2, Zenon
  <2>4. QED  BY <1>1, <2>3
<1>5. QED  BY <1>2, <1>3, <1>4

\* A retire stage's packet belongs to an entry if and only if the entry is its
\* own store's.
LEMMA MatchFacts ==
  ASSUME LsqInv, NEW k \in {0, 1}, NEW i \in Slots
  PROVE  /\ rt_valid(k) => k + 1 \in DOMAIN window
         /\ Matches(k, i) <=> rt_valid(k) /\ IsStore(k + 1) /\ window[k + 1].sq_pos = i
         /\ Matches(k, i) => sq_tbl[i] = EntryOf(k + 1)
<1>1. Len(window) \in Nat /\ DOMAIN window = 1 .. Len(window) /\ Len(window) <= ROB_SIZE
  BY WindowFacts DEF LsqInv, LsqTypes
<1>2. ASSUME rt_valid(k)
      PROVE  k + 1 \in DOMAIN window /\ window[k + 1].phase \in {"done", "mispredicted"}
  BY <1>2 DEF rt_valid, Complete
<1>3. ASSUME Matches(k, i)
      PROVE  IsStore(k + 1) /\ window[k + 1].sq_pos = i /\ sq_tbl[i] = EntryOf(k + 1)
  <2>1. rt_valid(k) /\ sq_tbl[i].valid /\ sq_tbl[i].tag = Tag(k + 1)
    BY <1>3 DEF Matches
  <2>2. PICK m \in DOMAIN window :
          IsStore(m) /\ window[m].sq_pos = i /\ sq_tbl[i] = EntryOf(m)
    BY <2>1, ValidEntries
  <2>3. Tag(m) = Tag(k + 1)
    BY <2>1, <2>2 DEF EntryOf
  <2>4. m \in 1 .. ROB_SIZE /\ k + 1 \in 1 .. ROB_SIZE /\ rob_head \in Tags
    BY <2>1, <1>1, <1>2, LsqAssumption DEF LsqInv, LsqTypes
  <2>5. m = k + 1
    BY <2>3, <2>4, TagFacts
  <2>6. QED  BY <2>2, <2>5
<1>4. ASSUME rt_valid(k), IsStore(k + 1), window[k + 1].sq_pos = i
      PROVE  Matches(k, i)
  <2>1. k + 1 \in DOMAIN window /\ window[k + 1].phase = "done"
    BY <1>2, <1>4 DEF LsqInv, Stages, IsStore
  <2>2. sq_tbl[i].valid /\ sq_tbl[i] = EntryOf(k + 1)
    BY <1>4, <2>1 DEF LsqInv, Entered
  <2>3. sq_tbl[i].tag = Tag(k + 1)
    BY <2>2 DEF EntryOf
  <2>4. QED  BY <1>4, <2>2, <2>3 DEF Matches
<1>5. Matches(k, i) => rt_valid(k)
  BY DEF Matches
<1>6. QED  BY <1>2, <1>3, <1>4, <1>5

\* The first two instructions of the window, and the entry at the head.
LEMMA FirstTwo ==
  ASSUME LsqInv
  PROVE  /\ Idx(head) \in Slots
         /\ 1 \in DOMAIN window => /\ window[1].sq_pos = Idx(head)
                                   /\ Count(window, 2) = IF IsStore(1) THEN 1 ELSE 0
         /\ 2 \in DOMAIN window =>
              /\ 1 \in DOMAIN window
              /\ window[2].sq_pos = IF IsStore(1) THEN Idx(Plus(head, 1)) ELSE Idx(head)
              /\ Count(window, 3) = Count(window, 2) + (IF IsStore(2) THEN 1 ELSE 0)
         /\ Count(window, 1) = 0
         /\ Idx(Plus(head, 1)) \in Slots /\ Idx(Plus(head, 1)) # Idx(head)
<1>1. /\ Len(window) \in Nat /\ DOMAIN window = 1 .. Len(window)
      /\ head \in 0 .. 2 * SQ_SIZE - 1 /\ SQ_SIZE \in Nat /\ SQ_SIZE >= 4
  BY WindowFacts, LsqAssumption DEF LsqInv, LsqTypes
<1>2. /\ Count(window, 1) = 0
      /\ Count(window, 1 + 1) = Count(window, 1) + (IF window[1].insn.kind = "store" THEN 1 ELSE 0)
      /\ Count(window, 2 + 1) = Count(window, 2) + (IF window[2].insn.kind = "store" THEN 1 ELSE 0)
  BY CountFacts
<1>3. /\ Count(window, 2) = IF IsStore(1) THEN 1 ELSE 0
      /\ Count(window, 3) = Count(window, 2) + (IF IsStore(2) THEN 1 ELSE 0)
  BY <1>2 DEF IsStore
<1>4. 0 \in 0 .. SQ_SIZE - 1 /\ 1 \in 0 .. SQ_SIZE - 1 /\ 0 \in 0 .. SQ_SIZE
  BY <1>1
<1>5. Plus(head, 0) = head
  <2>1. Plus(head, 0) = IF head + 0 >= 2 * SQ_SIZE THEN head + 0 - 2 * SQ_SIZE ELSE head + 0
    BY <1>1, <1>4, PointerFacts
  <2>2. QED  BY <1>1, <2>1
<1>6. /\ Idx(Plus(head, 0)) \in Slots /\ Off(head, Idx(Plus(head, 0))) = 0
      /\ Idx(Plus(head, 1)) \in Slots /\ Off(head, Idx(Plus(head, 1))) = 1
  BY <1>1, <1>4, PlaceFacts
<1>7. Idx(Plus(head, 1)) # Idx(head)
  BY <1>5, <1>6
<1>8. 1 \in DOMAIN window => window[1].sq_pos = Idx(head)
  BY <1>2, <1>5, PlacesBehindHead
<1>9. 2 \in DOMAIN window =>
        /\ 1 \in DOMAIN window
        /\ window[2].sq_pos = IF IsStore(1) THEN Idx(Plus(head, 1)) ELSE Idx(head)
  <2>1. ASSUME 2 \in DOMAIN window
        PROVE  window[2].sq_pos = IF IsStore(1) THEN Idx(Plus(head, 1)) ELSE Idx(head)
    <3>1. window[2].sq_pos = Idx(Plus(head, Count(window, 2)))
      BY <2>1, PlacesBehindHead
    <3>2. QED  BY <3>1, <1>3, <1>5
  <2>2. 2 \in DOMAIN window => 1 \in DOMAIN window
    BY <1>1
  <2>3. QED  BY <2>1, <2>2
<1>10. QED  BY <1>2, <1>3, <1>5, <1>6, <1>7, <1>8, <1>9

\* Which of the retiring instructions are stores.
RetiringStores ==
  /\ store0 <=> rt_valid(0) /\ IsStore(1)
  /\ store1 <=> rt_valid(1) /\ ~IsStore(1) /\ IsStore(2)
  /\ store0 => /\ 1 \in DOMAIN window /\ window[1].sq_pos = Idx(head)
               /\ sq_tbl[Idx(head)] = EntryOf(1)
  /\ store1 => /\ 2 \in DOMAIN window /\ window[2].sq_pos = Idx(head)
               /\ sq_tbl[Idx(head)] = EntryOf(2)
  /\ store0 => (Matches(1, Idx(Plus(head, 1))) <=> rt_valid(1) /\ IsStore(2))

LEMMA RetiringStoresKnown == LsqInv => RetiringStores
<1>. SUFFICES ASSUME LsqInv PROVE RetiringStores
  OBVIOUS
<1>1. /\ rt_valid(0) => 1 \in DOMAIN window
      /\ Matches(0, Idx(head)) <=> rt_valid(0) /\ IsStore(1) /\ window[1].sq_pos = Idx(head)
      /\ Matches(0, Idx(head)) => sq_tbl[Idx(head)] = EntryOf(1)
  <2>1. 0 \in {0, 1} /\ Idx(head) \in Slots /\ 0 + 1 = 1
    BY FirstTwo
  <2>2. QED  BY <2>1, MatchFacts
<1>2. /\ rt_valid(1) => 2 \in DOMAIN window
      /\ Matches(1, Idx(head)) <=> rt_valid(1) /\ IsStore(2) /\ window[2].sq_pos = Idx(head)
      /\ Matches(1, Idx(head)) => sq_tbl[Idx(head)] = EntryOf(2)
      /\ Matches(1, Idx(Plus(head, 1))) <=>
           rt_valid(1) /\ IsStore(2) /\ window[2].sq_pos = Idx(Plus(head, 1))
  <2>1. 1 \in {0, 1} /\ Idx(head) \in Slots /\ Idx(Plus(head, 1)) \in Slots /\ 1 + 1 = 2
    BY FirstTwo
  <2>2. QED  BY <2>1, MatchFacts
<1>3. store0 <=> rt_valid(0) /\ IsStore(1)
  BY <1>1, FirstTwo DEF store0
<1>4. rt_valid(1) => rt_valid(0)
  BY DEF rt_valid
<1>5. store1 <=> rt_valid(1) /\ ~IsStore(1) /\ IsStore(2)
  BY <1>1, <1>2, <1>3, <1>4, FirstTwo DEF store1
<1>6. store0 => /\ 1 \in DOMAIN window /\ window[1].sq_pos = Idx(head)
                /\ sq_tbl[Idx(head)] = EntryOf(1)
  BY <1>1 DEF store0
<1>7. store1 => /\ 2 \in DOMAIN window /\ window[2].sq_pos = Idx(head)
                /\ sq_tbl[Idx(head)] = EntryOf(2)
  BY <1>2 DEF store1
<1>8. store0 => (Matches(1, Idx(Plus(head, 1))) <=> rt_valid(1) /\ IsStore(2))
  BY <1>2, <1>3, FirstTwo
<1>9. QED  BY <1>3, <1>5, <1>6, <1>7, <1>8 DEF RetiringStores

\* What retires: at most two complete instructions, and one store exactly when
\* the data cache completes it.
RetireFacts ==
  /\ retire_count \in 0 .. 2 /\ retire_count <= Len(window)
  /\ \A k \in 1 .. retire_count : k \in DOMAIN window /\ Complete(k)
  /\ Count(window, retire_count + 1) = IF dcache_retire_ready THEN 1 ELSE 0
  /\ dcache_retire_ready => retire_valid
  /\ \A k \in 1 .. retire_count : IsStore(k) =>
       /\ dcache_retire_ready
       /\ window[k].sq_pos = Idx(head)
       /\ sq_tbl[Idx(head)] = EntryOf(k)
  /\ retire_valid /\ ~dcache_retire_ready => retire_disable # {}
LEMMA RetireKnown == LsqInv => RetireFacts
<1>. SUFFICES ASSUME LsqInv PROVE RetireFacts
  OBVIOUS
<1>1. /\ store0 <=> rt_valid(0) /\ IsStore(1)
      /\ store1 <=> rt_valid(1) /\ ~IsStore(1) /\ IsStore(2)
      /\ store0 => /\ 1 \in DOMAIN window /\ window[1].sq_pos = Idx(head)
                   /\ sq_tbl[Idx(head)] = EntryOf(1)
      /\ store1 => /\ 2 \in DOMAIN window /\ window[2].sq_pos = Idx(head)
                   /\ sq_tbl[Idx(head)] = EntryOf(2)
      /\ store0 => (Matches(1, Idx(Plus(head, 1))) <=> rt_valid(1) /\ IsStore(2))
  BY RetiringStoresKnown DEF RetiringStores
<1>2. /\ Len(window) \in Nat /\ DOMAIN window = 1 .. Len(window)
      /\ rt_valid(0) <=> Complete(1)
      /\ rt_valid(1) => rt_valid(0) /\ Complete(2)
      /\ rt_valid(0) => 1 \in DOMAIN window
      /\ rt_valid(1) => 2 \in DOMAIN window
  BY WindowFacts DEF LsqInv, rt_valid, Complete
<1>3. /\ Count(window, 1) = 0
      /\ rt_valid(0) => Count(window, 2) = IF IsStore(1) THEN 1 ELSE 0
      /\ rt_valid(1) => Count(window, 3) = Count(window, 2) + (IF IsStore(2) THEN 1 ELSE 0)
  BY <1>2, FirstTwo
<1>4. dcache_retire_ready => retire_valid
  BY DEF dcache_retire_ready
<1>5. retire_valid <=> store0 \/ store1
  BY DEF retire_valid
<1>. DEFINE c == retire_count
<1>6. CASE store0 /\ dcache_retire_ready
  <2>1. store1 = FALSE
    BY <1>1, <1>6
  <2>2. /\ rt_valid(1) /\ IsStore(2) => retire_disable = {1}
        /\ ~(rt_valid(1) /\ IsStore(2)) => retire_disable = {}
    BY <1>1, <1>6, <2>1 DEF retire_disable
  <2>3. /\ rt_valid(1) /\ ~IsStore(2) => retire_count = 2
        /\ ~(rt_valid(1) /\ ~IsStore(2)) => retire_count = 1
    BY <1>1, <1>6, <2>2 DEF retire_count
  <2>4. rt_valid(0) /\ IsStore(1)
    BY <1>1, <1>6
  <2>5. c = 2 => rt_valid(1) /\ ~IsStore(2)
    BY <2>3
  <2>6. c \in {1, 2}
    BY <2>3
  <2>7. c <= Len(window) /\ (c = 2 => 2 \in DOMAIN window) /\ 1 \in DOMAIN window
    BY <1>2, <2>4, <2>5, <2>6
  <2>8. Count(window, c + 1) = 1
    BY <1>3, <2>4, <2>5, <2>6
  <2>9. ASSUME NEW k \in 1 .. c
        PROVE  /\ k \in DOMAIN window /\ Complete(k)
               /\ IsStore(k) => window[k].sq_pos = Idx(head) /\ sq_tbl[Idx(head)] = EntryOf(k)
    <3>1. k = 1 \/ (k = 2 /\ c = 2)
      BY <2>6
    <3>2. QED  BY <3>1, <2>4, <2>5, <2>7, <1>1, <1>2, <1>6
  <2>. HIDE DEF c
  <2>10. c \in 0 .. 2
    BY <2>6
  <2>11. QED  BY <2>7, <2>8, <2>9, <2>10, <1>4, <1>6 DEF RetireFacts, c
<1>7. CASE store0 /\ ~dcache_retire_ready
  <2>1. retire_disable = {0, 1}
    BY <1>1, <1>7 DEF retire_disable
  <2>2. retire_count = 0
    BY <2>1 DEF retire_count
  <2>3. QED  BY <2>1, <2>2, <1>2, <1>3, <1>7 DEF RetireFacts
<1>8. CASE store1 /\ dcache_retire_ready
  <2>1. ~store0 /\ rt_valid(1) /\ rt_valid(0) /\ ~IsStore(1) /\ IsStore(2)
    BY <1>1, <1>2, <1>8 DEF store1
  <2>2. retire_disable = {}
    BY <1>8, <2>1 DEF retire_disable
  <2>3. retire_count = 2
    BY <2>1, <2>2 DEF retire_count
  <2>4. Count(window, 2 + 1) = 1 /\ 2 <= Len(window)
    BY <1>2, <1>3, <2>1
  <2>5. ASSUME NEW k \in 1 .. 2
        PROVE  /\ k \in DOMAIN window /\ Complete(k)
               /\ IsStore(k) => window[k].sq_pos = Idx(head) /\ sq_tbl[Idx(head)] = EntryOf(k)
    <3>1. k = 1 \/ k = 2
      OBVIOUS
    <3>2. QED  BY <3>1, <2>1, <1>1, <1>2, <1>8
  <2>6. QED  BY <2>3, <2>4, <2>5, <1>4, <1>8 DEF RetireFacts
<1>9. CASE store1 /\ ~dcache_retire_ready
  <2>1. ~store0 /\ rt_valid(1) /\ rt_valid(0) /\ ~IsStore(1) /\ IsStore(2)
    BY <1>1, <1>2, <1>9 DEF store1
  <2>2. retire_disable = {1}
    BY <1>9, <2>1 DEF retire_disable
  <2>3. retire_count = 1
    BY <2>1, <2>2 DEF retire_count
  <2>4. Count(window, 1 + 1) = 0 /\ 1 <= Len(window)
    BY <1>2, <1>3, <2>1
  <2>5. \A k \in 1 .. 1 : k = 1
    OBVIOUS
  <2>6. QED  BY <2>1, <2>2, <2>3, <2>4, <2>5, <1>2, <1>9 DEF RetireFacts
<1>10. CASE ~store0 /\ ~store1
  <2>1. ~retire_valid /\ ~dcache_retire_ready
    BY <1>4, <1>5, <1>10
  <2>2. retire_disable = {}
    BY <1>10 DEF retire_disable
  <2>3. /\ ~rt_valid(0) => c = 0
        /\ rt_valid(0) /\ ~rt_valid(1) => c = 1
        /\ rt_valid(1) => c = 2
    BY <1>2, <2>2 DEF retire_count
  <2>4. (rt_valid(0) => ~IsStore(1)) /\ (rt_valid(1) => ~IsStore(2))
    BY <1>1, <1>2, <1>10
  <2>5. c \in {0, 1, 2} /\ (c = 1 => rt_valid(0)) /\ (c = 2 => rt_valid(0) /\ rt_valid(1))
    BY <1>2, <2>3
  <2>. HIDE DEF c
  <2>6. c \in 0 .. 2 /\ c <= Len(window)
    BY <1>2, <2>5
  <2>7. Count(window, c + 1) = 0
    BY <1>3, <2>4, <2>5
  <2>8. ASSUME NEW k \in 1 .. c PROVE k \in DOMAIN window /\ Complete(k) /\ ~IsStore(k)
    <3>1. (k = 1 /\ c \in {1, 2}) \/ (k = 2 /\ c = 2)
      BY <2>5
    <3>2. QED  BY <3>1, <2>4, <2>5, <1>2
  <2>9. QED  BY <2>1, <2>6, <2>7, <2>8 DEF RetireFacts, c
<1>11. QED  BY <1>6, <1>7, <1>8, <1>9, <1>10

-----------------------------------------------------------------------------
(* The next window.                                                        *)

\* What is issued, the branches that end, and what is dispatched.
LEMMA InputFacts ==
  ASSUME NEW issued \in Issues, NEW outcome \in Outcomes, NEW dp \in Dispatches
  PROVE  /\ \A k \in issued :
              /\ k \in Waiting({"load", "store"}) /\ CanIssue(k)
              /\ \A j \in issued : j = k
         /\ DOMAIN outcome \subseteq Waiting({"branch"})
         /\ \A k \in DOMAIN outcome : outcome[k] \in {"done", "mispredicted"}
         /\ dp \in Seq(Insns) /\ DOMAIN dp = 1 .. Len(dp)
         /\ Len(dp) \in 0 .. 2 /\ Len(dp) <= dp_available
         /\ Len(window) + Len(dp) <= ROB_SIZE
<1>1. \A k \in issued :
        /\ k \in Waiting({"load", "store"}) /\ CanIssue(k)
        /\ \A j \in issued : j = k
  BY DEF Issues
<1>2. PICK S \in SUBSET Waiting({"branch"}) : outcome \in [S -> {"done", "mispredicted"}]
  BY DEF Outcomes
<1>3. PICK n \in {m \in 0 .. dp_available : Len(window) + m <= ROB_SIZE} : dp \in [1 .. n -> Insns]
  BY DEF Dispatches
<1>4. dp_available \in {0, 2}
  BY DEF dp_available
<1>5. n \in Nat /\ n \in 0 .. 2 /\ n <= dp_available /\ Len(window) + n <= ROB_SIZE
  BY <1>3, <1>4
<1>6. dp \in Seq(Insns)
  BY <1>3, <1>5, SeqDef
<1>7. Len(dp) = n /\ DOMAIN dp = 1 .. n
  BY <1>3, <1>5, <1>6, LenProperties
<1>8. QED  BY <1>1, <1>2, <1>5, <1>6, <1>7

\* An instruction's next phase.
LEMMA PhaseFacts ==
  ASSUME LsqTypes, NEW issued \in Issues, NEW outcome \in Outcomes, NEW dp \in Dispatches,
         NEW k \in DOMAIN window
  PROVE  /\ phase_n(k, issued, outcome) \in Phases
         /\ window[k].phase = "ex_cp_mem" => phase_n(k, issued, outcome) = "done"
         /\ window[k].phase = "executing" =>
              phase_n(k, issued, outcome) = IF lsq_cp(k) THEN "ex_cp_mem" ELSE "executing"
         /\ window[k].phase = "waiting" =>
              phase_n(k, issued, outcome) = IF k \in issued THEN "executing"
                                            ELSE IF k \in DOMAIN outcome THEN outcome[k]
                                            ELSE "waiting"
         /\ window[k].phase \in {"done", "mispredicted"} =>
              phase_n(k, issued, outcome) = window[k].phase
         /\ k \in issued => window[k].phase = "waiting" /\ window[k].insn.kind \in {"load", "store"}
         /\ k \in DOMAIN outcome => /\ window[k].phase = "waiting" /\ window[k].insn.kind = "branch"
                                    /\ outcome[k] \in {"done", "mispredicted"}
<1>1. window[k].phase \in Phases
  BY WindowFacts
<1>2. k \in issued => window[k].phase = "waiting" /\ window[k].insn.kind \in {"load", "store"}
  BY InputFacts DEF Waiting
<1>3. k \in DOMAIN outcome => /\ window[k].phase = "waiting" /\ window[k].insn.kind = "branch"
                              /\ outcome[k] \in {"done", "mispredicted"}
  BY InputFacts DEF Waiting
<1>4. k \in issued => k \notin DOMAIN outcome
  BY <1>2, <1>3
<1>5. window[k].phase = "ex_cp_mem" => phase_n(k, issued, outcome) = "done"
  BY <1>2, <1>3 DEF phase_n
<1>6. window[k].phase = "executing" =>
        phase_n(k, issued, outcome) = IF lsq_cp(k) THEN "ex_cp_mem" ELSE "executing"
  BY <1>2, <1>3 DEF phase_n
<1>7. window[k].phase = "waiting" =>
        phase_n(k, issued, outcome) = IF k \in issued THEN "executing"
                                      ELSE IF k \in DOMAIN outcome THEN outcome[k]
                                      ELSE "waiting"
  BY <1>4 DEF phase_n
<1>8. window[k].phase \in {"done", "mispredicted"} =>
        phase_n(k, issued, outcome) = window[k].phase
  BY <1>2, <1>3 DEF phase_n
<1>9. phase_n(k, issued, outcome) \in Phases
  BY <1>1, <1>3, <1>5, <1>6, <1>7, <1>8 DEF Phases
<1>10. QED  BY <1>2, <1>3, <1>5, <1>6, <1>7, <1>8, <1>9

WindowEntries == [insn : Insns, sq_pos : Slots, phase : Phases]

\* The window after an edge without a squash.
LEMMA NextWindow ==
  ASSUME LsqInv, NEW issued \in Issues, NEW outcome \in Outcomes, NEW dp \in Dispatches,
         window' = window_n(issued, outcome, dp)
  PROVE  /\ window' \in Seq(WindowEntries)
         /\ Len(window') = Len(window) - retire_count + Len(dp)
         /\ DOMAIN window' = 1 .. Len(window')
         /\ \A k \in 1 .. Len(window) - retire_count :
              /\ retire_count + k \in DOMAIN window
              /\ window'[k].insn = window[retire_count + k].insn
              /\ window'[k].sq_pos = window[retire_count + k].sq_pos
              /\ window'[k].phase = phase_n(retire_count + k, issued, outcome)
         /\ \A k \in 1 .. Len(dp) :
              /\ window'[Len(window) - retire_count + k].insn = dp[k]
              /\ window'[Len(window) - retire_count + k].sq_pos = tail_pos(dp, k)
              /\ window'[Len(window) - retire_count + k].phase = "waiting"
<1>. DEFINE moved == [k \in DOMAIN window |->
                        [window[k] EXCEPT !.phase = phase_n(k, issued, outcome)]]
            added == [k \in DOMAIN dp |->
                        [insn |-> dp[k], sq_pos |-> tail_pos(dp, k), phase |-> "waiting"]]
            c == retire_count
            n == Len(window)
            front == SubSeq(moved, c + 1, Len(moved))
<1>1. /\ n \in Nat /\ DOMAIN window = 1 .. n
      /\ \A k \in DOMAIN window : window[k] \in WindowEntries
  BY WindowFacts DEF LsqInv, WindowEntries
<1>2. c \in 0 .. 2 /\ c <= n
  BY RetireKnown DEF RetireFacts
<1>3. window' = front \o added
  BY Zenon DEF window_n
<1>4. LsqTypes
  BY DEF LsqInv
<1>5. ASSUME NEW k \in DOMAIN window
      PROVE  /\ moved[k] \in WindowEntries
             /\ moved[k].insn = window[k].insn /\ moved[k].sq_pos = window[k].sq_pos
             /\ moved[k].phase = phase_n(k, issued, outcome)
  <2>1. phase_n(k, issued, outcome) \in Phases
    BY <1>4, PhaseFacts, Zenon
  <2>2. moved[k] = [window[k] EXCEPT !.phase = phase_n(k, issued, outcome)]
    OBVIOUS
  <2>3. window[k] \in WindowEntries
    BY <1>1
  <2>. HIDE DEF moved
  <2>4. QED  BY <2>1, <2>2, <2>3 DEF WindowEntries
<1>6. moved \in [1 .. n -> WindowEntries]
  BY <1>1, <1>5
<1>7. moved \in Seq(WindowEntries) /\ Len(moved) = n
  <2>1. moved \in Seq(WindowEntries)
    BY <1>1, <1>6, SeqDef
  <2>2. DOMAIN moved = 1 .. Len(moved) /\ Len(moved) \in Nat
    BY <2>1, LenProperties
  <2>3. QED  BY <1>1, <1>6, <2>1, <2>2
<1>8. /\ dp \in Seq(Insns) /\ DOMAIN dp = 1 .. Len(dp) /\ Len(dp) \in Nat
      /\ \A k \in 1 .. Len(dp) : dp[k] \in Insns
  BY InputFacts, LenProperties
<1>9. ASSUME NEW k \in 1 .. Len(dp)
      PROVE  /\ added[k] \in WindowEntries
             /\ added[k].insn = dp[k] /\ added[k].sq_pos = tail_pos(dp, k)
             /\ added[k].phase = "waiting"
  <2>1. tail_pos(dp, k) \in Slots
    <3>1. SQ_SIZE \in Nat \ {0}
      BY LsqAssumption
    <3>2. \A m \in Nat \ {0}, x \in Int : x % m \in 0 .. m - 1
      OBVIOUS
    <3>3. \A x \in Int : Idx(x) \in Slots
      BY <3>1, <3>2 DEF Idx, Slots
    <3>4. StoresIn(<<dp[1]>>) \in Int
      <4>1. {j \in DOMAIN <<dp[1]>> : <<dp[1]>>[j].kind = "store"} \in SUBSET {1}
        OBVIOUS
      <4>2. IsFiniteSet({1})
        BY FS_Singleton
      <4>3. IsFiniteSet({j \in DOMAIN <<dp[1]>> : <<dp[1]>>[j].kind = "store"})
        BY <4>1, <4>2, FS_Subset, Zenon
      <4>4. StoresIn(<<dp[1]>>) \in Nat
        BY <4>3, FS_CardinalityType, Zenon DEF StoresIn
      <4>5. QED  BY <4>4
    <3>5. Plus(tail, IF k = 2 THEN StoresIn(<<dp[1]>>) ELSE 0) \in Int
      <4>1. PICK m \in Nat \ {0} : m = 2 * SQ_SIZE
        BY <3>1
      <4>2. \A x \in Int : x % m \in Int
        BY <3>2
      <4>3. tail + (IF k = 2 THEN StoresIn(<<dp[1]>>) ELSE 0) \in Int
        BY <3>4, <1>4, <3>1 DEF LsqTypes
      <4>4. QED  BY <4>1, <4>2, <4>3, Zenon DEF Plus
    <3>6. QED  BY <3>3, <3>5 DEF tail_pos
  <2>2. added[k] = [insn |-> dp[k], sq_pos |-> tail_pos(dp, k), phase |-> "waiting"]
    BY <1>8
  <2>3. dp[k] \in Insns
    BY <1>8
  <2>. HIDE DEF added
  <2>4. QED  BY <2>1, <2>2, <2>3 DEF WindowEntries, Phases
<1>10. added \in Seq(WindowEntries) /\ Len(added) = Len(dp)
  <2>1. added \in [1 .. Len(dp) -> WindowEntries]
    BY <1>8, <1>9
  <2>2. added \in Seq(WindowEntries)
    BY <1>8, <2>1, SeqDef
  <2>3. DOMAIN added = 1 .. Len(added) /\ Len(added) \in Nat
    BY <2>2, LenProperties
  <2>4. QED  BY <1>8, <2>1, <2>2, <2>3
<1>. HIDE DEF moved, added, c, n
<1>11. /\ front \in Seq(WindowEntries)
       /\ Len(front) = n - c
       /\ \A k \in 1 .. n - c : front[k] = moved[c + k]
  <2>1. c + 1 \in Int /\ n \in Int
    BY <1>1, <1>2
  <2>2. \A k \in c + 1 .. n : moved[k] \in WindowEntries
    BY <1>1, <1>2, <1>6
  <2>3. /\ SubSeq(moved, c + 1, n) \in Seq(WindowEntries)
        /\ Len(SubSeq(moved, c + 1, n)) = IF c + 1 <= n THEN n - (c + 1) + 1 ELSE 0
        /\ \A k \in 1 .. n - (c + 1) + 1 : SubSeq(moved, c + 1, n)[k] = moved[c + 1 + k - 1]
    BY <2>1, <2>2, SubSeqProperties
  <2>4. front = SubSeq(moved, c + 1, n)
    BY <1>7
  <2>5. (IF c + 1 <= n THEN n - (c + 1) + 1 ELSE 0) = n - c /\ n - (c + 1) + 1 = n - c
    BY <1>1, <1>2
  <2>6. ASSUME NEW k \in 1 .. n - c PROVE front[k] = moved[c + k]
    <3>1. c + 1 + k - 1 = c + k
      BY <1>2
    <3>2. front[k] = moved[c + 1 + k - 1]
      BY <2>3, <2>4, <2>5
    <3>3. QED  BY <3>1, <3>2
  <2>7. QED  BY <2>3, <2>4, <2>5, <2>6
<1>. HIDE DEF front
<1>12. /\ window' \in Seq(WindowEntries)
       /\ Len(window') = n - c + Len(dp)
       /\ \A k \in 1 .. Len(front) + Len(added) :
            window'[k] = IF k <= Len(front) THEN front[k] ELSE added[k - Len(front)]
  <2>1. /\ front \o added \in Seq(WindowEntries)
        /\ Len(front \o added) = Len(front) + Len(added)
        /\ \A k \in 1 .. Len(front) + Len(added) :
             (front \o added)[k] = IF k <= Len(front) THEN front[k] ELSE added[k - Len(front)]
    <3>1. /\ front \o added \in Seq(WindowEntries)
          /\ Len(front \o added) = Len(front) + Len(added)
      BY <1>10, <1>11, ConcatProperties
    <3>2. ASSUME NEW k \in 1 .. Len(front) + Len(added)
          PROVE  (front \o added)[k] = IF k <= Len(front) THEN front[k] ELSE added[k - Len(front)]
      BY <1>10, <1>11, ConcatProperties
    <3>3. QED  BY <3>1, <3>2, Zenon
  <2>2. QED  BY <1>3, <1>10, <1>11, <2>1
<1>13. DOMAIN window' = 1 .. Len(window')
  BY <1>12, LenProperties
<1>14. ASSUME NEW k \in 1 .. n - c
       PROVE  /\ c + k \in DOMAIN window
              /\ window'[k].insn = window[c + k].insn
              /\ window'[k].sq_pos = window[c + k].sq_pos
              /\ window'[k].phase = phase_n(c + k, issued, outcome)
  <2>1. c + k \in DOMAIN window
    BY <1>1, <1>2
  <2>2. k \in 1 .. Len(front) + Len(added) /\ k <= Len(front)
    BY <1>1, <1>2, <1>8, <1>10, <1>11
  <2>3. window'[k] = moved[c + k]
    BY <2>2, <1>11, <1>12
  <2>4. QED  BY <2>1, <2>3, <1>5
<1>15. ASSUME NEW k \in 1 .. Len(dp)
       PROVE  /\ window'[n - c + k].insn = dp[k]
              /\ window'[n - c + k].sq_pos = tail_pos(dp, k)
              /\ window'[n - c + k].phase = "waiting"
  <2>1. /\ n - c + k \in 1 .. Len(front) + Len(added) /\ ~(n - c + k <= Len(front))
        /\ (n - c + k) - Len(front) = k
    <3>1. Len(front) = n - c /\ Len(added) = Len(dp) /\ n - c \in Nat /\ Len(dp) \in Nat
      BY <1>1, <1>2, <1>8, <1>10, <1>11
    <3>2. QED  BY <3>1
  <2>2. window'[n - c + k] = added[(n - c + k) - Len(front)]
    BY <2>1, <1>12, Zenon
  <2>3. window'[n - c + k] = added[k]
    BY <2>1, <2>2, Zenon
  <2>4. QED  BY <2>3, <1>9
<1>16. QED  BY <1>12, <1>13, <1>14, <1>15 DEF n, c

\* The stores of the next window.
LEMMA NextCounts ==
  ASSUME LsqInv, NEW issued \in Issues, NEW outcome \in Outcomes, NEW dp \in Dispatches,
         window' = window_n(issued, outcome, dp)
  PROVE  /\ \A k \in 1 .. (Len(window) - retire_count) + 1 :
              /\ Count(window', k) \in Nat
              /\ Count(window, retire_count + k)
                   = (IF dcache_retire_ready THEN 1 ELSE 0) + Count(window', k)
         /\ \A k \in 1 .. Len(dp) :
              Count(window', Len(window) - retire_count + k)
                = Count(window', (Len(window) - retire_count) + 1)
                    + (IF k = 2 THEN StoresIn(<<dp[1]>>) ELSE 0)
         /\ Count(window', Len(window') + 1)
              = Count(window', (Len(window) - retire_count) + 1) + StoresIn(dp)
         /\ StoresIn(dp) \in 0 .. Len(dp)
         /\ Len(dp) = 2 => StoresIn(<<dp[1]>>) \in Nat /\ StoresIn(<<dp[1]>>) <= StoresIn(dp)
<1>. DEFINE c == retire_count
            n == Len(window)
            m == Len(dp)
            v == [j \in 1 .. m |-> [insn |-> dp[j]]]
<1>1. n \in Nat /\ DOMAIN window = 1 .. n
  BY WindowFacts DEF LsqInv
<1>2. c \in 0 .. 2 /\ c <= n /\ Count(window, c + 1) = IF dcache_retire_ready THEN 1 ELSE 0
  BY RetireKnown DEF RetireFacts
<1>3. m \in 0 .. 2 /\ DOMAIN dp = 1 .. m
  BY InputFacts
<1>4. /\ Len(window') = n - c + m
      /\ \A k \in 1 .. n - c : window'[k].insn = window[c + k].insn
      /\ \A k \in 1 .. m : window'[n - c + k].insn = dp[k]
  BY NextWindow, Zenon
<1>5. \A j \in 1 .. m : v[j].insn = dp[j]
  OBVIOUS
<1>. HIDE DEF c, n, m, v
<1>6. ASSUME NEW k \in 1 .. (n - c) + 1
      PROVE  /\ Count(window', k) \in Nat
             /\ Count(window, c + k) = (IF dcache_retire_ready THEN 1 ELSE 0) + Count(window', k)
  <2>1. k \in Nat \ {0} /\ c \in Nat
    BY <1>1, <1>2
  <2>2. \A j \in 1 .. k - 1 : window[c + j].insn.kind = window'[j].insn.kind
    BY <1>1, <1>2, <1>4
  <2>3. Count(window, c + k) = Count(window, c + 1) + Count(window', k)
    BY <2>1, <2>2, CountBehind
  <2>4. Count(window', k) \in Nat
    BY <2>1, CountFacts
  <2>5. QED  BY <1>2, <2>3, <2>4
<1>7. ASSUME NEW k \in 1 .. m + 1
      PROVE  Count(window', n - c + k) = Count(window', (n - c) + 1) + Count(v, k)
  <2>1. k \in Nat \ {0} /\ n - c \in Nat
    BY <1>1, <1>2, <1>3
  <2>2. \A j \in 1 .. k - 1 : window'[n - c + j].insn.kind = v[j].insn.kind
    <3>1. \A j \in 1 .. k - 1 : j \in 1 .. m
      BY <1>3
    <3>2. QED  BY <1>4, <1>5, <3>1
  <2>3. PICK p \in Nat : p = n - c
    BY <2>1
  <2>4. \A j \in 1 .. k - 1 : window'[p + j].insn.kind = v[j].insn.kind
    BY <2>2, <2>3
  <2>5. Count(window', p + k) = Count(window', p + 1) + Count(v, k)
    <3>. DEFINE w == window'
    <3>. HIDE DEF w
    <3>1. k \in Nat \ {0} /\ \A j \in 1 .. k - 1 : w[p + j].insn.kind = v[j].insn.kind
      BY <2>1, <2>4 DEF w
    <3>2. Count(w, p + k) = Count(w, p + 1) + Count(v, k)
      BY <3>1, CountBehind
    <3>3. QED  BY <3>2 DEF w
  <2>6. QED  BY <2>3, <2>5, Zenon
<1>8. /\ Count(v, 1) = 0
      /\ Count(v, 2) = IF v[1].insn.kind = "store" THEN 1 ELSE 0
      /\ Count(v, 3) = Count(v, 2) + (IF v[2].insn.kind = "store" THEN 1 ELSE 0)
  <2>1. /\ Count(v, 1) = 0
        /\ Count(v, 1 + 1) = Count(v, 1) + (IF v[1].insn.kind = "store" THEN 1 ELSE 0)
        /\ Count(v, 2 + 1) = Count(v, 2) + (IF v[2].insn.kind = "store" THEN 1 ELSE 0)
    BY CountFacts
  <2>2. QED  BY <2>1
<1>9. Count(v, m + 1) = StoresIn(dp)
  <2>1. StoresOf(v, m + 1) = {k \in DOMAIN dp : dp[k].kind = "store"}
    BY <1>3, <1>5 DEF StoresOf
  <2>2. QED  BY <2>1 DEF Count, StoresIn
<1>10. ASSUME m = 2 PROVE Count(v, 2) = StoresIn(<<dp[1]>>)
  <2>1. v[1].insn = dp[1]
    BY <1>5, <1>10
  <2>2. StoresOf(v, 2) = {k \in DOMAIN <<dp[1]>> : <<dp[1]>>[k].kind = "store"}
    BY <2>1 DEF StoresOf
  <2>3. QED  BY <2>2 DEF Count, StoresIn
<1>11. /\ StoresIn(dp) \in 0 .. m
       /\ m = 2 => StoresIn(<<dp[1]>>) \in Nat /\ StoresIn(<<dp[1]>>) <= StoresIn(dp)
  <2>1. CASE m = 0
    BY <2>1, <1>8, <1>9
  <2>2. CASE m = 1
    BY <2>2, <1>8, <1>9
  <2>3. CASE m = 2
    BY <2>3, <1>8, <1>9, <1>10
  <2>4. QED  BY <1>3, <2>1, <2>2, <2>3
<1>12. Count(window', Len(window') + 1) = Count(window', (n - c) + 1) + StoresIn(dp)
  <2>1. m + 1 \in 1 .. m + 1 /\ Len(window') + 1 = n - c + (m + 1)
    BY <1>1, <1>2, <1>3, <1>4
  <2>2. QED  BY <2>1, <1>7, <1>9
<1>13. ASSUME NEW k \in 1 .. m
       PROVE  Count(window', n - c + k)
                = Count(window', (n - c) + 1) + (IF k = 2 THEN StoresIn(<<dp[1]>>) ELSE 0)
  <2>1. k \in 1 .. m + 1 /\ (k = 1 \/ (k = 2 /\ m = 2))
    BY <1>3
  <2>2. Count(v, k) = IF k = 2 THEN StoresIn(<<dp[1]>>) ELSE 0
    BY <2>1, <1>8, <1>10
  <2>3. QED  BY <2>1, <2>2, <1>7
<1>14. QED  BY <1>6, <1>11, <1>12, <1>13 DEF c, n, m

\* Dispatch leaves a place free.
LEMMA RoomLeft ==
  ASSUME LsqInv, NEW x \in 0 .. 2, x <= dp_available
  PROVE  Count(window, Len(window) + 1) + x < SQ_SIZE
<1>. DEFINE t == Count(window, Len(window) + 1)
            h == Idx(head)
<1>1. SQ_SIZE \in Nat \ {0} /\ SQ_SIZE >= 4 /\ head \in 0 .. 2 * SQ_SIZE - 1
  BY LsqAssumption DEF LsqInv, LsqTypes
<1>2. t \in 0 .. SQ_SIZE - 1
  <2>1. Len(window) + 1 \in Nat \ {0}
    BY WindowFacts DEF LsqInv
  <2>2. t \in Nat
    BY <2>1, CountFacts
  <2>3. t < SQ_SIZE
    BY DEF LsqInv, Room, StoresBefore, Count, StoresOf
  <2>4. QED  BY <1>1, <2>2, <2>3
<1>3. tail = Plus(head, t)
  BY DEF LsqInv, Placed, StoresBefore, Count, StoresOf
<1>. HIDE DEF t
<1>4. h \in 0 .. SQ_SIZE - 1
  <2>1. 0 \in 0 .. SQ_SIZE
    BY <1>1
  <2>2. QED  BY <1>1, <2>1, PointerFacts DEF Slots
<1>5. Idx(tail) = IF h + t >= SQ_SIZE THEN (h + t) - SQ_SIZE ELSE h + t
  <2>1. Idx(Plus(head, t)) = IF h + t >= SQ_SIZE THEN h + t - SQ_SIZE ELSE h + t
    BY <1>1, <1>2, PlaceFacts
  <2>2. QED  BY <1>1, <1>2, <1>3, <1>4, <2>1
<1>. HIDE DEF h
<1>6. space_available = IF t = 0 THEN 0 ELSE SQ_SIZE - t
  <2>0. PICK j \in Int : j = Idx(tail) /\ (j = h + t \/ (j = (h + t) - SQ_SIZE /\ t # 0))
    <3>1. CASE h + t >= SQ_SIZE
      <4>1. Idx(tail) = (h + t) - SQ_SIZE
        BY <3>1, <1>5
      <4>2. t # 0 /\ (h + t) - SQ_SIZE \in Int
        BY <1>1, <1>2, <1>4, <3>1
      <4>3. QED  BY <4>1, <4>2
    <3>2. CASE ~(h + t >= SQ_SIZE)
      <4>1. Idx(tail) = h + t /\ h + t \in Int
        BY <1>2, <1>4, <1>5, <3>2
      <4>2. QED  BY <4>1
    <3>3. QED  BY <3>1, <3>2
  <2>1. PICK q \in Int : q = h - j
    BY <1>4
  <2>2. q = -t \/ (q = SQ_SIZE - t /\ t # 0)
    BY <1>1, <1>2, <1>4, <2>0, <2>1
  <2>3. q >= -SQ_SIZE /\ q < 2 * SQ_SIZE /\ q < SQ_SIZE
    BY <1>1, <1>2, <2>2
  <2>4. q % SQ_SIZE = IF q >= SQ_SIZE THEN q - SQ_SIZE ELSE IF q < 0 THEN q + SQ_SIZE ELSE q
    BY <1>1, <2>3, Remainders, Zenon
  <2>5. space_available = q % SQ_SIZE
    BY <2>0, <2>1 DEF space_available, h
  <2>6. QED  BY <1>1, <1>2, <2>2, <2>3, <2>4, <2>5
<1>7. t # 0 => dp_available = IF SQ_SIZE - t > 2 THEN 2 ELSE 0
  BY <1>1, <1>2, <1>6 DEF dp_available
<1>8. t + x < SQ_SIZE
  <2>1. CASE t = 0
    BY <1>1, <2>1
  <2>2. CASE t # 0
    BY <1>1, <1>2, <1>7, <2>2
  <2>3. QED  BY <2>1, <2>2
<1>9. QED  BY <1>8 DEF t

-----------------------------------------------------------------------------
(* The invariant after an edge without a squash.                           *)

\* The load and the store that are in their units.
LEMMA UnitFacts ==
  ASSUME LsqInv
  PROVE  /\ ex_ld_valid => /\ LdPlace \in DOMAIN window /\ window[LdPlace].insn.kind = "load"
                           /\ window[LdPlace].phase = "executing"
         /\ ex_st_valid => /\ StPlace \in DOMAIN window /\ IsStore(StPlace)
                           /\ window[StPlace].phase = "executing"
         /\ \A k \in DOMAIN window : window[k].phase = "executing" =>
              /\ window[k].insn.kind = "load" => ex_ld_valid /\ LdPlace = k
              /\ IsStore(k) => ex_st_valid /\ StPlace = k
<1>1. ex_ld_valid => LdPlace \in Executing("load")
  BY DEF ex_ld_valid, LdPlace
<1>2. ex_st_valid => StPlace \in Executing("store")
  BY DEF ex_st_valid, StPlace
<1>3. \A kind : \A k \in Executing(kind) : 
        k \in DOMAIN window /\ window[k].insn.kind = kind /\ window[k].phase = "executing"
  BY DEF Executing
<1>4. \A k \in DOMAIN window : window[k].phase = "executing" =>
        /\ window[k].insn.kind = "load" => k \in Executing("load") /\ ex_ld_valid
        /\ IsStore(k) => k \in Executing("store") /\ ex_st_valid
  BY DEF Executing, ex_ld_valid, ex_st_valid, IsStore
<1>5. \A j, k \in DOMAIN window :
        window[j].phase = "executing" /\ window[k].phase = "executing"
          /\ window[j].insn.kind = window[k].insn.kind => j = k
  BY DEF LsqInv, Stages
<1>6. ASSUME NEW k \in DOMAIN window, window[k].phase = "executing"
      PROVE  /\ window[k].insn.kind = "load" => ex_ld_valid /\ LdPlace = k
             /\ IsStore(k) => ex_st_valid /\ StPlace = k
  BY <1>1, <1>2, <1>3, <1>4, <1>5, <1>6 DEF IsStore
<1>7. QED  BY <1>1, <1>2, <1>3, <1>6 DEF IsStore

\* The tags of those that stay are the same.
LEMMA TagsMove ==
  ASSUME rob_head \in Tags, NEW c \in 0 .. 2, rob_head' = (rob_head + c) % ROB_SIZE,
         NEW k \in Nat \ {0}, c + k <= ROB_SIZE
  PROVE  Tag(k)' = Tag(c + k) /\ rob_head' \in Tags
<1>1. ROB_SIZE \in Nat \ {0} /\ ROB_SIZE >= 2 /\ rob_head \in 0 .. ROB_SIZE - 1
  BY LsqAssumption DEF Tags
<1>2. rob_head' = IF rob_head + c >= ROB_SIZE THEN rob_head + c - ROB_SIZE ELSE rob_head + c
  <2>1. PICK q \in Int : q = rob_head + c
    BY <1>1
  <2>2. q >= -ROB_SIZE /\ q < 2 * ROB_SIZE /\ q >= 0
    BY <1>1, <2>1
  <2>3. q % ROB_SIZE = IF q >= ROB_SIZE THEN q - ROB_SIZE ELSE IF q < 0 THEN q + ROB_SIZE ELSE q
    BY <1>1, <2>2, Remainders, Zenon
  <2>4. rob_head' = q % ROB_SIZE
    BY <2>1
  <2>5. QED  BY <1>1, <2>1, <2>2, <2>3, <2>4
<1>3. rob_head' \in 0 .. ROB_SIZE - 1
  BY <1>1, <1>2
<1>4. Tag(c + k) = IF rob_head + (c + k) - 1 >= ROB_SIZE THEN rob_head + (c + k) - 1 - ROB_SIZE
                   ELSE rob_head + (c + k) - 1
  <2>1. c + k \in 1 .. ROB_SIZE
    BY <1>1
  <2>2. QED  BY <2>1, TagFacts
<1>5. Tag(k)' = IF rob_head' + k - 1 >= ROB_SIZE THEN rob_head' + k - 1 - ROB_SIZE
                ELSE rob_head' + k - 1
  <2>1. PICK q \in Int : q = rob_head' + k - 1
    BY <1>1, <1>3
  <2>2. q >= -ROB_SIZE /\ q < 2 * ROB_SIZE /\ q >= 0
    BY <1>1, <1>3, <2>1
  <2>3. q % ROB_SIZE = IF q >= ROB_SIZE THEN q - ROB_SIZE ELSE IF q < 0 THEN q + ROB_SIZE ELSE q
    BY <1>1, <2>2, Remainders, Zenon
  <2>4. Tag(k)' = q % ROB_SIZE
    BY <2>1 DEF Tag
  <2>5. QED  BY <1>1, <1>3, <2>1, <2>2, <2>3, <2>4
<1>6. QED  BY <1>1, <1>2, <1>3, <1>4, <1>5 DEF Tags

LEMMA CycleTypes ==
  ASSUME LsqInv, NEW issued \in Issues, NEW outcome \in Outcomes, NEW dp \in Dispatches,
         Cycle(issued, outcome, dp)
  PROVE  LsqTypes'
<1>1. /\ SQ_SIZE \in Nat /\ SQ_SIZE >= 4 /\ ROB_SIZE \in Nat \ {0}
      /\ head \in 0 .. 2 * SQ_SIZE - 1 /\ tail \in 0 .. 2 * SQ_SIZE - 1
      /\ Len(window) \in Nat
  BY LsqAssumption, WindowFacts DEF LsqInv, LsqTypes
<1>2. /\ head' = IF dcache_retire_ready THEN Plus(head, 1) ELSE head
      /\ tail' = Plus(tail, StoresIn(dp))
      /\ sq_tbl' = sq_tbl_n /\ priority_state' = priority_state_n
      /\ window' = window_n(issued, outcome, dp)
      /\ rob_head' = (rob_head + retire_count) % ROB_SIZE
  BY DEF Cycle
<1>3. /\ StoresIn(dp) \in 0 .. Len(dp) /\ Len(dp) \in 0 .. 2
      /\ Len(window) + Len(dp) <= ROB_SIZE
  BY <1>2, NextCounts, InputFacts
<1>4. head' \in 0 .. 2 * SQ_SIZE - 1 /\ tail' \in 0 .. 2 * SQ_SIZE - 1
  <2>1. 1 \in 0 .. SQ_SIZE /\ StoresIn(dp) \in 0 .. SQ_SIZE
    <3>1. \A m \in 0 .. 2 : \A x \in 0 .. m : x \in 0 .. SQ_SIZE
      BY <1>1
    <3>2. StoresIn(dp) \in 0 .. SQ_SIZE
      BY <1>3, <3>1, Zenon
    <3>3. QED  BY <1>1, <3>2
  <2>2. QED  BY <1>1, <1>2, <2>1, PointerFacts
<1>5. DOMAIN sq_tbl' = Slots /\ \A i \in Slots : sq_tbl'[i].valid \in BOOLEAN
  BY <1>2 DEF sq_tbl_n, NotValid, LsqInv, LsqTypes
<1>6. priority_state' \in {0, 1}
  BY <1>2 DEF priority_state_n
<1>7. window' \in Seq(WindowEntries) /\ Len(window') = Len(window) - retire_count + Len(dp)
  BY <1>2, NextWindow, Zenon
<1>8. retire_count \in 0 .. 2 /\ retire_count <= Len(window)
  BY RetireKnown DEF RetireFacts
<1>9. Len(window') <= ROB_SIZE
  BY <1>1, <1>3, <1>7, <1>8
<1>10. rob_head' \in Tags
  <2>1. rob_head + retire_count \in Int
    BY <1>1, <1>8 DEF LsqInv, LsqTypes, Tags
  <2>2. \A m \in Nat \ {0}, x \in Int : x % m \in 0 .. m - 1
    OBVIOUS
  <2>3. QED  BY <1>1, <1>2, <2>1, <2>2 DEF Tags
<1>11. QED  BY <1>4, <1>5, <1>6, <1>7, <1>9, <1>10 DEF LsqTypes, WindowEntries

\* An instruction that stays, and one that is new.
LEMMA NextPlaces ==
  ASSUME LsqInv, NEW issued \in Issues, NEW outcome \in Outcomes, NEW dp \in Dispatches,
         Cycle(issued, outcome, dp), NEW k \in DOMAIN window'
  PROVE  \/ /\ k \in 1 .. Len(window) - retire_count
            /\ retire_count + k \in DOMAIN window
            /\ window'[k].insn = window[retire_count + k].insn
            /\ window'[k].sq_pos = window[retire_count + k].sq_pos
            /\ window'[k].phase = phase_n(retire_count + k, issued, outcome)
         \/ \E j \in 1 .. Len(dp) :
              /\ k = Len(window) - retire_count + j
              /\ window'[k].insn = dp[j] /\ window'[k].sq_pos = tail_pos(dp, j)
              /\ window'[k].phase = "waiting"
<1>1. window' = window_n(issued, outcome, dp)
  BY DEF Cycle
<1>2. /\ Len(window) \in Nat /\ retire_count \in 0 .. 2 /\ retire_count <= Len(window)
      /\ Len(dp) \in 0 .. 2
  BY WindowFacts, RetireKnown, InputFacts DEF LsqInv, RetireFacts
<1>3. k \in 1 .. Len(window) - retire_count + Len(dp)
  BY <1>1, NextWindow, Zenon
<1>4. CASE k \in 1 .. Len(window) - retire_count
  BY <1>1, <1>4, NextWindow, Zenon
<1>5. CASE k \notin 1 .. Len(window) - retire_count
  <2>1. PICK j \in 1 .. Len(dp) : k = Len(window) - retire_count + j
    <3>1. PICK j \in Int : j = k - (Len(window) - retire_count)
      BY <1>2, <1>3
    <3>2. j \in 1 .. Len(dp) /\ k = Len(window) - retire_count + j
      BY <1>2, <1>3, <1>5, <3>1
    <3>3. QED  BY <3>2
  <2>2. QED  BY <1>1, <2>1, NextWindow, Zenon
<1>6. QED  BY <1>4, <1>5

LEMMA CycleStages ==
  ASSUME LsqInv, NEW issued \in Issues, NEW outcome \in Outcomes, NEW dp \in Dispatches,
         Cycle(issued, outcome, dp)
  PROVE  Stages'
<1>. DEFINE c == retire_count
<1>1. LsqTypes
  BY DEF LsqInv
<1>2. ASSUME NEW k \in DOMAIN window'
      PROVE  IF window'[k].insn.kind = "branch"
             THEN window'[k].phase \in {"waiting", "done", "mispredicted"}
             ELSE window'[k].phase # "mispredicted"
  <2>1. CASE /\ c + k \in DOMAIN window
             /\ window'[k].insn = window[c + k].insn
             /\ window'[k].phase = phase_n(c + k, issued, outcome)
    <3>. DEFINE j == c + k
    <3>1. /\ phase_n(j, issued, outcome) \in Phases
          /\ window[j].phase = "ex_cp_mem" => phase_n(j, issued, outcome) = "done"
          /\ window[j].phase = "executing" =>
               phase_n(j, issued, outcome) = IF lsq_cp(j) THEN "ex_cp_mem" ELSE "executing"
          /\ window[j].phase = "waiting" =>
               phase_n(j, issued, outcome) = IF j \in issued THEN "executing"
                                             ELSE IF j \in DOMAIN outcome THEN outcome[j]
                                             ELSE "waiting"
          /\ window[j].phase \in {"done", "mispredicted"} =>
               phase_n(j, issued, outcome) = window[j].phase
          /\ j \in issued => window[j].phase = "waiting" /\ window[j].insn.kind \in {"load", "store"}
          /\ j \in DOMAIN outcome => /\ window[j].phase = "waiting" /\ window[j].insn.kind = "branch"
                                     /\ outcome[j] \in {"done", "mispredicted"}
      BY <1>1, <2>1, PhaseFacts
    <3>2. /\ window[j].phase \in Phases
          /\ IF window[j].insn.kind = "branch"
             THEN window[j].phase \in {"waiting", "done", "mispredicted"}
             ELSE window[j].phase # "mispredicted"
      BY <1>1, <2>1, WindowFacts DEF LsqInv, Stages
    <3>. HIDE DEF j
    <3>3. IF window[j].insn.kind = "branch"
          THEN phase_n(j, issued, outcome) \in {"waiting", "done", "mispredicted"}
          ELSE phase_n(j, issued, outcome) # "mispredicted"
      BY <3>1, <3>2 DEF Phases
    <3>4. QED  BY <2>1, <3>3 DEF j
  <2>2. CASE window'[k].phase = "waiting"
    BY <2>2
  <2>3. QED  BY <2>1, <2>2, NextPlaces
<1>3. ASSUME NEW j \in DOMAIN window', NEW k \in DOMAIN window',
             window'[j].phase = "executing", window'[k].phase = "executing",
             window'[j].insn.kind = window'[k].insn.kind
      PROVE  j = k
  <2>1. ASSUME NEW i \in DOMAIN window', window'[i].phase = "executing"
        PROVE  /\ c + i \in DOMAIN window /\ i \in Nat /\ c \in Nat
               /\ window'[i].insn = window[c + i].insn
               /\ \/ window[c + i].phase = "executing" /\ ~lsq_cp(c + i)
                  \/ c + i \in issued
    <3>1. /\ c + i \in DOMAIN window /\ i \in 1 .. Len(window) - c
          /\ window'[i].insn = window[c + i].insn
          /\ phase_n(c + i, issued, outcome) = "executing"
      BY <2>1, NextPlaces
    <3>2. PICK x \in DOMAIN window : x = c + i
      BY <3>1
    <3>3. window[x].phase \in Phases
      BY <1>1, WindowFacts
    <3>4. \/ window[x].phase = "executing" /\ ~lsq_cp(x)
          \/ x \in issued
      <4>1. phase_n(x, issued, outcome) = "executing"
        BY <3>1, <3>2
      <4>2. /\ window[x].phase = "ex_cp_mem" => phase_n(x, issued, outcome) = "done"
            /\ window[x].phase = "executing" =>
                 phase_n(x, issued, outcome) = IF lsq_cp(x) THEN "ex_cp_mem" ELSE "executing"
            /\ window[x].phase = "waiting" =>
                 phase_n(x, issued, outcome) = IF x \in issued THEN "executing"
                                               ELSE IF x \in DOMAIN outcome THEN outcome[x]
                                               ELSE "waiting"
            /\ window[x].phase \in {"done", "mispredicted"} =>
                 phase_n(x, issued, outcome) = window[x].phase
            /\ x \in DOMAIN outcome => outcome[x] \in {"done", "mispredicted"}
        BY <1>1, PhaseFacts
      <4>3. QED  BY <3>3, <4>1, <4>2 DEF Phases
    <3>5. c \in Nat /\ i \in Nat
      BY <3>1, RetireKnown DEF RetireFacts
    <3>6. QED  BY <3>1, <3>2, <3>4, <3>5, Zenon
  <2>2. PICK x \in DOMAIN window : x = c + j
    BY <1>3, <2>1
  <2>3. PICK y \in DOMAIN window : y = c + k
    BY <1>3, <2>1
  <2>4. /\ window[x].insn.kind = window[y].insn.kind
        /\ (window[x].phase = "executing" /\ ~lsq_cp(x)) \/ x \in issued
        /\ (window[y].phase = "executing" /\ ~lsq_cp(y)) \/ y \in issued
    BY <1>3, <2>1, <2>2, <2>3, Zenon
  <2>5. ASSUME NEW u \in DOMAIN window, NEW w \in DOMAIN window,
               window[u].phase = "executing", ~lsq_cp(u), w \in issued,
               window[u].insn.kind = window[w].insn.kind
        PROVE  FALSE
    <3>1. CanIssue(w) /\ window[w].insn.kind \in {"load", "store"}
      BY <2>5, InputFacts DEF Waiting
    <3>2. CASE window[w].insn.kind = "load"
      <4>1. ex_ld_valid /\ LdPlace = u
        BY <2>5, <3>2, UnitFacts
      <4>2. ~ld_stall_out
        BY <3>1, <3>2 DEF CanIssue
      <4>3. QED  BY <2>5, <4>1, <4>2 DEF ld_stall_out, lsq_cp
    <3>3. CASE window[w].insn.kind = "store"
      <4>1. ex_st_valid /\ StPlace = u
        BY <2>5, <3>3, UnitFacts DEF IsStore
      <4>2. ~st_stall_out
        BY <3>1, <3>3 DEF CanIssue
      <4>3. QED  BY <2>5, <4>1, <4>2 DEF st_stall_out, lsq_cp
    <3>4. QED  BY <3>1, <3>2, <3>3
  <2>6. x = y
    <3>1. CASE window[x].phase = "executing" /\ window[y].phase = "executing"
      BY <2>4, <3>1 DEF LsqInv, Stages
    <3>2. CASE x \in issued /\ y \in issued
      BY <3>2, InputFacts
    <3>3. QED  BY <2>4, <2>5, <3>1, <3>2
  <2>7. c \in Nat /\ j \in Nat /\ k \in Nat
    BY <1>3, <2>1
  <2>8. QED  BY <2>2, <2>3, <2>6, <2>7
<1>4. QED  BY <1>2, <1>3 DEF Stages

\* The pointers follow the stores.
LEMMA CyclePlaced ==
  ASSUME LsqInv, NEW issued \in Issues, NEW outcome \in Outcomes, NEW dp \in Dispatches,
         Cycle(issued, outcome, dp)
  PROVE  Room' /\ Placed'
<1>. DEFINE c == retire_count
            n == Len(window)
            r == IF dcache_retire_ready THEN 1 ELSE 0
            t == Count(window, n + 1)
            x == StoresIn(dp)
            u == Count(window', (n - c) + 1)
<1>1. /\ SQ_SIZE \in Nat /\ SQ_SIZE >= 4 /\ head \in 0 .. 2 * SQ_SIZE - 1
      /\ n \in Nat /\ DOMAIN window = 1 .. n
  BY LsqAssumption, WindowFacts DEF LsqInv, LsqTypes
<1>2. /\ head' = IF dcache_retire_ready THEN Plus(head, 1) ELSE head
      /\ tail' = Plus(tail, x)
      /\ window' = window_n(issued, outcome, dp)
  BY DEF Cycle
<1>3. c \in 0 .. 2 /\ c <= n
  BY RetireKnown DEF RetireFacts
<1>4. Len(dp) \in 0 .. 2 /\ Len(dp) <= dp_available
  BY InputFacts
<1>5. /\ \A k \in 1 .. (n - c) + 1 :
           /\ Count(window', k) \in Nat
           /\ Count(window, c + k) = r + Count(window', k)
      /\ \A k \in 1 .. Len(dp) :
           Count(window', n - c + k) = u + (IF k = 2 THEN StoresIn(<<dp[1]>>) ELSE 0)
      /\ Count(window', Len(window') + 1) = u + x
      /\ x \in 0 .. Len(dp)
      /\ Len(dp) = 2 => StoresIn(<<dp[1]>>) \in Nat /\ StoresIn(<<dp[1]>>) <= x
  BY <1>2, NextCounts
<1>. HIDE DEF c, n, x, t, u
<1>6. t = r + u /\ u \in Nat
  <2>1. (n - c) + 1 \in 1 .. (n - c) + 1 /\ c + ((n - c) + 1) = n + 1
    BY <1>1, <1>3
  <2>2. QED  BY <1>5, <2>1 DEF t, u
<1>7. t + x < SQ_SIZE /\ x \in 0 .. 2
  <2>1. x \in 0 .. 2 /\ x <= dp_available
    <3>1. dp_available \in {0, 2}
      BY DEF dp_available
    <3>2. QED  BY <1>4, <1>5, <3>1
  <2>2. QED  BY <2>1, RoomLeft DEF t, n
<1>8. Room'
  <2>1. StoresBefore(Len(window) + 1)' = u + x
    BY <1>5 DEF StoresBefore, Count, StoresOf
  <2>2. QED  BY <1>1, <1>6, <1>7, <2>1 DEF Room
<1>9. r \in {0, 1} /\ head' = Plus(head, r) /\ head' \in 0 .. 2 * SQ_SIZE - 1
  <2>1. 0 \in 0 .. SQ_SIZE /\ 1 \in 0 .. SQ_SIZE
    BY <1>1
  <2>2. Plus(head, 0) = IF head + 0 >= 2 * SQ_SIZE THEN head + 0 - 2 * SQ_SIZE ELSE head + 0
    BY <1>1, <2>1, PointerFacts
  <2>3. Plus(head, 0) = head
    BY <1>1, <2>2
  <2>4. Plus(head, 1) \in 0 .. 2 * SQ_SIZE - 1
    BY <1>1, <2>1, PointerFacts
  <2>5. QED  BY <1>1, <1>2, <2>3, <2>4
<1>. HIDE DEF r
<1>10. ASSUME NEW y \in Nat, r + y < SQ_SIZE
       PROVE  Plus(head', y) = Plus(head, r + y)
  <2>1. r \in 0 .. SQ_SIZE /\ y \in 0 .. SQ_SIZE /\ r + y <= SQ_SIZE
    BY <1>1, <1>9, <1>10
  <2>2. Plus(Plus(head, r), y) = Plus(head, r + y)
    BY <1>1, <2>1, PointersAdd
  <2>3. QED  BY <1>9, <2>2
<1>11. tail = Plus(head, t)
  BY DEF LsqInv, Placed, StoresBefore, Count, StoresOf, t, n
<1>12. ASSUME NEW y \in 0 .. x PROVE Plus(tail, y) = Plus(head', u + y)
  <2>1. t \in 0 .. SQ_SIZE /\ y \in 0 .. SQ_SIZE /\ t + y <= SQ_SIZE
    BY <1>1, <1>6, <1>7, <1>9
  <2>2. Plus(Plus(head, t), y) = Plus(head, t + y)
    BY <1>1, <2>1, PointersAdd
  <2>3. u + y \in Nat /\ r + (u + y) < SQ_SIZE /\ r + (u + y) = t + y
    BY <1>1, <1>6, <1>7, <1>9
  <2>4. Plus(head', u + y) = Plus(head, r + (u + y))
    BY <2>3, <1>10
  <2>5. QED  BY <1>11, <2>2, <2>3, <2>4
<1>13. tail' = Plus(head', StoresBefore(Len(window) + 1)')
  <2>1. StoresBefore(Len(window) + 1)' = u + x
    BY <1>5 DEF StoresBefore, Count, StoresOf
  <2>2. x \in 0 .. x
    BY <1>7
  <2>3. QED  BY <1>2, <1>12, <2>1, <2>2
<1>14. ASSUME NEW k \in DOMAIN window'
       PROVE  window'[k].sq_pos = Idx(Plus(head', Count(window', k)))
  <2>1. CASE /\ k \in 1 .. n - c /\ c + k \in DOMAIN window
             /\ window'[k].sq_pos = window[c + k].sq_pos
    <3>1. PICK y \in Nat : y = Count(window', k) /\ Count(window, c + k) = r + y
      <4>1. k \in 1 .. (n - c) + 1
        BY <1>1, <1>3, <2>1
      <4>2. QED  BY <4>1, <1>5
    <3>2. /\ window[c + k].sq_pos = Idx(Plus(head, r + y))
          /\ r + y < SQ_SIZE
      BY <2>1, <3>1, <1>1, PlacesBehindHead
    <3>3. QED  BY <2>1, <3>1, <3>2, <1>10
  <2>2. CASE \E j \in 1 .. Len(dp) :
               k = n - c + j /\ window'[k].sq_pos = tail_pos(dp, j)
    <3>1. PICK j \in 1 .. Len(dp) : k = n - c + j /\ window'[k].sq_pos = tail_pos(dp, j)
      BY <2>2
    <3>2. PICK y \in 0 .. x : y = IF j = 2 THEN StoresIn(<<dp[1]>>) ELSE 0
      <4>1. j = 2 => Len(dp) = 2
        <5>1. \A m \in 0 .. 2 : \A i \in 1 .. m : i = 2 => m = 2
          OBVIOUS
        <5>2. QED  BY <1>4, <5>1, Zenon
      <4>2. QED  BY <4>1, <1>5, <1>7
    <3>3. Count(window', k) = u + y
      BY <3>1, <3>2, <1>5
    <3>4. tail_pos(dp, j) = Idx(Plus(tail, y))
      BY <3>2, Zenon DEF tail_pos
    <3>5. QED  BY <3>1, <3>3, <3>4, <1>12
  <2>3. QED  BY <2>1, <2>2, NextPlaces DEF c, n
<1>15. QED  BY <1>8, <1>13, <1>14 DEF Placed, StoresBefore, Count, StoresOf

\* The table after the edge: the places of the stores that stay, of those that
\* come, and whose a valid entry is.
LEMMA NextEntries ==
  ASSUME LsqInv, sq_tbl' = sq_tbl_n
  PROVE  /\ \A k \in DOMAIN window : IsStore(k) /\ retire_count < k =>
              sq_tbl'[window[k].sq_pos] = IF window[k].phase = "executing" THEN EntryOf(k)
                                          ELSE sq_tbl[window[k].sq_pos]
         /\ \A i \in Slots : sq_tbl'[i].valid =>
              \E k \in DOMAIN window :
                retire_count < k /\ IsStore(k) /\ window[k].sq_pos = i
<1>1. /\ Len(window) \in Nat /\ DOMAIN window = 1 .. Len(window)
      /\ \A k \in DOMAIN window : window[k].sq_pos \in Slots
  BY WindowFacts DEF LsqInv
<1>2. /\ retire_count \in 0 .. 2 /\ retire_count <= Len(window)
      /\ \A k \in 1 .. retire_count : Complete(k)
      /\ \A k \in 1 .. retire_count : IsStore(k) =>
           dcache_retire_ready /\ window[k].sq_pos = Idx(head)
      /\ Count(window, retire_count + 1) = IF dcache_retire_ready THEN 1 ELSE 0
  BY RetireKnown DEF RetireFacts
<1>3. \A i \in Slots :
        sq_tbl'[i] = IF ex_st_valid /\ i = ex_st.sq_pos
                     THEN [valid |-> TRUE, tag |-> Tag(StPlace), access |-> ex_st.insn.access]
                     ELSE IF dcache_retire_ready /\ i = Idx(head) THEN NotValid
                     ELSE sq_tbl[i]
  BY DEF sq_tbl_n
<1>4. ex_st_valid => /\ StPlace \in DOMAIN window /\ IsStore(StPlace)
                     /\ window[StPlace].phase = "executing"
                     /\ ex_st.sq_pos = window[StPlace].sq_pos
                     /\ [valid |-> TRUE, tag |-> Tag(StPlace), access |-> ex_st.insn.access]
                          = EntryOf(StPlace)
  BY UnitFacts DEF ex_st, EntryOf
<1>5. ASSUME NEW k \in DOMAIN window, IsStore(k), retire_count < k
      PROVE  sq_tbl'[window[k].sq_pos] = IF window[k].phase = "executing" THEN EntryOf(k)
                                         ELSE sq_tbl[window[k].sq_pos]
  <2>1. CASE window[k].phase = "executing"
    <3>1. ex_st_valid /\ StPlace = k
      BY <1>5, <2>1, UnitFacts
    <3>2. QED  BY <1>1, <1>3, <1>4, <2>1, <3>1
  <2>2. CASE window[k].phase # "executing"
    <3>1. ~(ex_st_valid /\ window[k].sq_pos = ex_st.sq_pos)
      <4>1. ASSUME ex_st_valid, window[k].sq_pos = window[StPlace].sq_pos PROVE FALSE
        <5>1. StPlace = k
          BY <1>4, <1>5, <4>1, StoresApart
        <5>2. QED  BY <1>4, <4>1, <5>1, <2>2
      <4>2. QED  BY <1>4, <4>1
    <3>2. ~(dcache_retire_ready /\ window[k].sq_pos = Idx(head))
      <4>1. ASSUME dcache_retire_ready, window[k].sq_pos = Idx(head) PROVE FALSE
        <5>1. 1 \in DOMAIN window /\ k \in Nat \ {0} /\ retire_count + 1 \in Nat \ {0}
              /\ retire_count + 1 <= k
          BY <1>1, <1>2, <1>5
        <5>2. Off(head, window[1].sq_pos) = Count(window, 1) /\ Count(window, 1) = 0
              /\ window[1].sq_pos = Idx(head)
          BY <5>1, FirstTwo, PlacesBehindHead
        <5>3. Off(head, window[k].sq_pos) = Count(window, k)
          BY PlacesBehindHead
        <5>4. Count(window, retire_count + 1) <= Count(window, k)
          BY <5>1, CountMonotone
        <5>5. 1 <= Count(window, k)
          BY <1>2, <4>1, <5>4
        <5>6. Count(window, k) = 0
          BY <4>1, <5>2, <5>3
        <5>7. QED  BY <5>5, <5>6
      <4>2. QED  BY <4>1
    <3>3. QED  BY <1>1, <1>3, <2>2, <3>1, <3>2
  <2>3. QED  BY <2>1, <2>2
<1>6. ASSUME NEW i \in Slots, sq_tbl'[i].valid
      PROVE  \E k \in DOMAIN window :
               retire_count < k /\ IsStore(k) /\ window[k].sq_pos = i
  <2>1. CASE ex_st_valid /\ i = ex_st.sq_pos
    <3>1. StPlace \in DOMAIN window /\ IsStore(StPlace) /\ window[StPlace].sq_pos = i
          /\ window[StPlace].phase = "executing"
      BY <1>4, <2>1
    <3>2. ~Complete(StPlace)
      BY <3>1 DEF Complete
    <3>3. retire_count < StPlace
      BY <1>1, <1>2, <3>1, <3>2
    <3>4. QED  BY <3>1, <3>3
  <2>2. CASE ~(ex_st_valid /\ i = ex_st.sq_pos)
    <3>1. ~(dcache_retire_ready /\ i = Idx(head)) /\ sq_tbl[i].valid
      BY <1>3, <1>6, <2>2 DEF NotValid
    <3>2. PICK k \in DOMAIN window : IsStore(k) /\ window[k].sq_pos = i
      BY <3>1 DEF LsqInv, Owned
    <3>3. ~(k \in 1 .. retire_count)
      BY <1>2, <3>1, <3>2
    <3>4. retire_count < k
      BY <1>1, <1>2, <3>3
    <3>5. QED  BY <3>2, <3>4
  <2>3. QED  BY <2>1, <2>2
<1>7. QED  BY <1>5, <1>6

LEMMA CycleEntered ==
  ASSUME LsqInv, NEW issued \in Issues, NEW outcome \in Outcomes, NEW dp \in Dispatches,
         Cycle(issued, outcome, dp)
  PROVE  Entered' /\ Owned'
<1>. DEFINE c == retire_count
            n == Len(window)
<1>1. /\ n \in Nat /\ DOMAIN window = 1 .. n /\ n <= ROB_SIZE /\ rob_head \in Tags
      /\ ROB_SIZE \in Nat
      /\ \A k \in DOMAIN window : window[k].phase \in Phases /\ window[k].sq_pos \in Slots
  BY WindowFacts, LsqAssumption DEF LsqInv, LsqTypes
<1>2. c \in 0 .. 2 /\ c <= n
  BY RetireKnown DEF RetireFacts
<1>3. /\ sq_tbl' = sq_tbl_n
      /\ window' = window_n(issued, outcome, dp)
      /\ rob_head' = (rob_head + c) % ROB_SIZE
  BY DEF Cycle
<1>4. /\ \A k \in DOMAIN window : IsStore(k) /\ c < k =>
           sq_tbl'[window[k].sq_pos] = IF window[k].phase = "executing" THEN EntryOf(k)
                                       ELSE sq_tbl[window[k].sq_pos]
      /\ \A i \in Slots : sq_tbl'[i].valid =>
           \E k \in DOMAIN window : c < k /\ IsStore(k) /\ window[k].sq_pos = i
  BY <1>3, NextEntries
<1>5. Len(window') = n - c + Len(dp) /\ DOMAIN window' = 1 .. Len(window') /\ Len(dp) \in 0 .. 2
  <2>1. Len(window') = n - c + Len(dp) /\ DOMAIN window' = 1 .. Len(window')
    BY <1>3, NextWindow, Zenon
  <2>2. Len(dp) \in 0 .. 2
    BY InputFacts, Zenon
  <2>3. QED  BY <2>1, <2>2
<1>6. LsqTypes
  BY DEF LsqInv
<1>. HIDE DEF n
<1>7. ASSUME NEW k \in 1 .. n - c, c + k \in DOMAIN window,
             window'[k].insn = window[c + k].insn,
             window'[k].sq_pos = window[c + k].sq_pos,
             window'[k].phase = phase_n(c + k, issued, outcome),
             IsStore(k)'
      PROVE  /\ sq_tbl'[window'[k].sq_pos].valid => sq_tbl'[window'[k].sq_pos] = EntryOf(k)'
             /\ window'[k].phase = "waiting" => ~sq_tbl'[window'[k].sq_pos].valid
             /\ window'[k].phase \in {"ex_cp_mem", "done"} => sq_tbl'[window'[k].sq_pos].valid
  <2>1. k \in Nat \ {0} /\ c + k <= ROB_SIZE /\ c < c + k
    BY <1>1, <1>2, <1>7
  <2>2. Tag(k)' = Tag(c + k)
    BY <1>1, <1>2, <1>3, <2>1, TagsMove
  <2>3. PICK j \in DOMAIN window : j = c + k
    BY <1>7
  <2>4. IsStore(j) /\ c < j
    BY <1>7, <2>1, <2>3 DEF IsStore
  <2>5. EntryOf(k)' = EntryOf(j)
    BY <1>7, <2>2, <2>3 DEF EntryOf
  <2>6. sq_tbl'[window'[k].sq_pos] = IF window[j].phase = "executing" THEN EntryOf(j)
                                     ELSE sq_tbl[window[j].sq_pos]
    BY <1>4, <1>7, <2>3, <2>4
  <2>7. /\ sq_tbl[window[j].sq_pos].valid => sq_tbl[window[j].sq_pos] = EntryOf(j)
        /\ window[j].phase = "waiting" => ~sq_tbl[window[j].sq_pos].valid
        /\ window[j].phase \in {"ex_cp_mem", "done"} => sq_tbl[window[j].sq_pos].valid
    BY <2>4 DEF LsqInv, Entered
  <2>8. EntryOf(j).valid
    BY DEF EntryOf
  <2>9. /\ window[j].phase = "ex_cp_mem" => phase_n(j, issued, outcome) = "done"
        /\ window[j].phase = "executing" =>
             phase_n(j, issued, outcome) = IF lsq_cp(j) THEN "ex_cp_mem" ELSE "executing"
        /\ window[j].phase = "waiting" =>
             phase_n(j, issued, outcome) = IF j \in issued THEN "executing"
                                           ELSE IF j \in DOMAIN outcome THEN outcome[j]
                                           ELSE "waiting"
        /\ window[j].phase \in {"done", "mispredicted"} =>
             phase_n(j, issued, outcome) = window[j].phase
        /\ j \in DOMAIN outcome => window[j].insn.kind = "branch"
    BY <1>6, PhaseFacts
  <2>10. j \notin DOMAIN outcome
    BY <2>4, <2>9 DEF IsStore
  <2>11. window[j].phase \in Phases /\ window[j].phase # "mispredicted"
    BY <1>1, <2>4 DEF LsqInv, Stages, IsStore
  <2>12. window'[k].phase = phase_n(j, issued, outcome)
    BY <1>7, <2>3
  <2>13. /\ window'[k].phase = "waiting" => window[j].phase = "waiting"
         /\ window'[k].phase \in {"ex_cp_mem", "done"} =>
              window[j].phase \in {"executing", "ex_cp_mem", "done"}
    BY <2>9, <2>10, <2>11, <2>12 DEF Phases
  <2>14. QED  BY <2>5, <2>6, <2>7, <2>8, <2>13
<1>8. ASSUME NEW k \in DOMAIN window', ~(k \in 1 .. n - c), window'[k].phase = "waiting", IsStore(k)'
      PROVE  ~sq_tbl'[window'[k].sq_pos].valid
  <2>1. SUFFICES ASSUME sq_tbl'[window'[k].sq_pos].valid PROVE FALSE
    OBVIOUS
  <2>2. LsqTypes' /\ Room' /\ Placed'
    BY CycleTypes, CyclePlaced
  <2>3. window'[k].sq_pos \in Slots
    <3>1. window' \in Seq(WindowEntries)
      BY <1>3, NextWindow, Zenon
    <3>2. window'[k] \in WindowEntries
      BY <1>5, <3>1, ElementOfSeq
    <3>3. QED  BY <3>2 DEF WindowEntries
  <2>4. PICK j \in DOMAIN window : c < j /\ IsStore(j) /\ window[j].sq_pos = window'[k].sq_pos
    BY <2>1, <2>3, <1>4
  <2>5. PICK i \in 1 .. n - c : j = c + i
    <3>1. PICK i \in Int : i = j - c
      BY <1>1, <1>2
    <3>2. i \in 1 .. n - c /\ j = c + i
      BY <1>1, <1>2, <2>4, <3>1
    <3>3. QED  BY <3>2
  <2>6. window'[i].sq_pos = window[c + i].sq_pos /\ window'[i].insn = window[c + i].insn
    BY <1>3, NextWindow, Zenon DEF n
  <2>7. /\ i \in Nat \ {0} /\ k \in Nat \ {0} /\ Len(window') + 1 \in Nat \ {0}
        /\ i < k /\ i < Len(window') + 1 /\ k < Len(window') + 1
    <3>. DEFINE last == Len(window')
    <3>1. last \in Nat /\ k \in 1 .. last
      BY <1>1, <1>2, <1>5
    <3>. HIDE DEF last
    <3>2. i < k
      BY <1>1, <1>2, <1>8, <3>1
    <3>3. QED  BY <3>1, <3>2 DEF last
  <2>8. /\ Count(window', i) \in Nat /\ Count(window', k) \in Nat
        /\ Count(window', i) + 1 <= Count(window', k)
        /\ Count(window', k) <= Count(window', Len(window') + 1)
    <3>1. window'[i].insn.kind = "store"
      BY <2>4, <2>5, <2>6 DEF IsStore
    <3>. DEFINE w == window'
    <3>. HIDE DEF w
    <3>2. i <= k /\ k <= Len(window') + 1 /\ w[i].insn.kind = "store"
      BY <2>7, <3>1 DEF w
    <3>3. Count(w, i) \in Nat /\ Count(w, k) \in Nat
      BY <2>7, CountFacts
    <3>4. Count(w, i) + 1 <= Count(w, k) /\ Count(w, k) <= Count(w, Len(window') + 1)
      BY <2>7, <3>2, CountMonotone
    <3>5. QED  BY <3>3, <3>4 DEF w
  <2>9. Count(window', Len(window') + 1) \in Nat /\ Count(window', Len(window') + 1) < SQ_SIZE
        /\ head' \in 0 .. 2 * SQ_SIZE - 1 /\ SQ_SIZE \in Nat
    <3>1. Count(window', Len(window') + 1) \in Nat
      BY <2>7, CountFacts
    <3>2. Count(window', Len(window') + 1) < SQ_SIZE
      BY <2>2 DEF Room, StoresBefore, Count, StoresOf
    <3>3. QED  BY <2>2, <3>1, <3>2, LsqAssumption DEF LsqTypes
  <2>10. Count(window', i) \in 0 .. SQ_SIZE - 1 /\ Count(window', k) \in 0 .. SQ_SIZE - 1
    BY <2>8, <2>9
  <2>11. /\ window'[i].sq_pos = Idx(Plus(head', Count(window', i)))
         /\ window'[k].sq_pos = Idx(Plus(head', Count(window', k)))
    <3>1. i \in DOMAIN window'
      BY <1>1, <1>2, <1>5
    <3>2. QED  BY <2>2, <3>1 DEF Placed, StoresBefore, Count, StoresOf
  <2>12. /\ Off(head', window'[i].sq_pos) = Count(window', i)
         /\ Off(head', window'[k].sq_pos) = Count(window', k)
    BY <2>9, <2>10, <2>11, PlaceFacts
  <2>13. window'[i].sq_pos = window'[k].sq_pos
    BY <2>4, <2>5, <2>6
  <2>14. QED  BY <2>8, <2>12, <2>13
<1>9. Entered'
  <2>1. ASSUME NEW k \in DOMAIN window', IsStore(k)'
        PROVE  /\ sq_tbl'[window'[k].sq_pos].valid => sq_tbl'[window'[k].sq_pos] = EntryOf(k)'
               /\ window'[k].phase = "waiting" => ~sq_tbl'[window'[k].sq_pos].valid
               /\ window'[k].phase \in {"ex_cp_mem", "done"} => sq_tbl'[window'[k].sq_pos].valid
    <3>1. CASE k \in 1 .. n - c
      <4>1. /\ c + k \in DOMAIN window
            /\ window'[k].insn = window[c + k].insn
            /\ window'[k].sq_pos = window[c + k].sq_pos
            /\ window'[k].phase = phase_n(c + k, issued, outcome)
        BY <1>3, <3>1, NextWindow, Zenon DEF n
      <4>2. QED  BY <2>1, <3>1, <4>1, <1>7
    <3>2. CASE k \notin 1 .. n - c
      <4>1. window'[k].phase = "waiting"
        BY <3>2, NextPlaces DEF n
      <4>2. QED  BY <2>1, <3>2, <4>1, <1>8
    <3>3. QED  BY <3>1, <3>2
  <2>2. QED  BY <2>1 DEF Entered
<1>10. Owned'
  <2>1. ASSUME NEW i \in Slots, sq_tbl'[i].valid
        PROVE  \E k \in DOMAIN window' : IsStore(k)' /\ window'[k].sq_pos = i
    <3>1. PICK j \in DOMAIN window : c < j /\ IsStore(j) /\ window[j].sq_pos = i
      BY <2>1, <1>4
    <3>2. PICK k \in 1 .. n - c : j = c + k
      <4>1. PICK k \in Int : k = j - c
        BY <1>1, <1>2
      <4>2. k \in 1 .. n - c /\ j = c + k
        BY <1>1, <1>2, <3>1, <4>1
      <4>3. QED  BY <4>2
    <3>3. window'[k].sq_pos = window[c + k].sq_pos /\ window'[k].insn = window[c + k].insn
      BY <1>3, NextWindow, Zenon DEF n
    <3>4. k \in DOMAIN window'
      BY <1>1, <1>2, <1>5
    <3>5. QED  BY <3>1, <3>2, <3>3, <3>4 DEF IsStore
  <2>2. QED  BY <2>1 DEF Owned
<1>11. QED  BY <1>9, <1>10

-----------------------------------------------------------------------------
(* The inductive invariant.                                                *)

\* The state after a reset or a squash.
Empty ==
  /\ head = 0 /\ tail = 0
  /\ sq_tbl = [i \in Slots |-> NotValid]
  /\ priority_state = 0
  /\ window = <<>>
  /\ rob_head = 0

LEMMA EmptyQueue == Empty => LsqInv
<1>. SUFFICES ASSUME Empty PROVE LsqInv
  OBVIOUS
<1>1. /\ SQ_SIZE \in Nat /\ SQ_SIZE >= 4 /\ ROB_SIZE \in Nat /\ ROB_SIZE >= 2
  BY LsqAssumption
<1>2. Len(window) = 0 /\ DOMAIN window = {} /\ window \in Seq(WindowEntries)
  BY EmptySeq DEF Empty
<1>3. \A i \in Slots : sq_tbl[i].valid = FALSE
  BY DEF Empty, NotValid
<1>4. LsqTypes
  <2>1. head \in 0 .. 2 * SQ_SIZE - 1 /\ tail \in 0 .. 2 * SQ_SIZE - 1 /\ rob_head \in Tags
    BY <1>1 DEF Empty, Tags
  <2>2. DOMAIN sq_tbl = Slots /\ \A i \in Slots : sq_tbl[i].valid \in BOOLEAN
    BY <1>3 DEF Empty
  <2>3. window \in Seq(WindowEntries) /\ Len(window) <= ROB_SIZE /\ priority_state \in {0, 1}
    BY <1>1, <1>2 DEF Empty
  <2>4. QED  BY <2>1, <2>2, <2>3 DEF LsqTypes, WindowEntries
<1>5. Stages /\ Entered
  BY <1>2 DEF Stages, Entered
<1>6. Owned
  BY <1>3 DEF Owned
<1>7. StoresBefore(Len(window) + 1) = 0
  <2>1. Len(window) + 1 = 1 /\ Count(window, 1) = 0
    BY <1>2, CountFacts
  <2>2. QED  BY <2>1 DEF StoresBefore, Count, StoresOf
<1>8. Room
  BY <1>1, <1>7 DEF Room
<1>9. Placed
  <2>1. Plus(0, 0) = 0
    <3>1. 0 \in 0 .. 2 * SQ_SIZE - 1 /\ 0 \in 0 .. SQ_SIZE
      BY <1>1
    <3>2. Plus(0, 0) = IF 0 + 0 >= 2 * SQ_SIZE THEN 0 + 0 - 2 * SQ_SIZE ELSE 0 + 0
      BY <3>1, PointerFacts
    <3>3. QED  BY <1>1, <3>2
  <2>2. QED  BY <1>2, <1>7, <2>1 DEF Placed, Empty
<1>10. QED  BY <1>4, <1>5, <1>6, <1>8, <1>9 DEF LsqInv

LEMMA LsqInductive == LsqInv /\ [Next]_vars => LsqInv'
<1>. SUFFICES ASSUME LsqInv, [Next]_vars PROVE LsqInv'
  OBVIOUS
<1>1. ASSUME NEW issued \in Issues, NEW outcome \in Outcomes, NEW dp \in Dispatches,
             Cycle(issued, outcome, dp)
      PROVE  LsqInv'
  BY <1>1, CycleTypes, CycleStages, CyclePlaced, CycleEntered DEF LsqInv
<1>2. CASE Squash
  <2>1. Empty'
    BY <1>2 DEF Squash, Empty
  <2>2. Empty' => LsqInv'
    BY EmptyQueue, PTL
  <2>3. QED  BY <2>1, <2>2
<1>3. CASE UNCHANGED vars
  <2>1. LsqTypes'
    BY <1>3 DEF LsqInv, LsqTypes, vars
  <2>2. Stages' /\ Room' /\ Placed'
    BY <1>3 DEF LsqInv, Stages, Room, Placed, StoresBefore, vars
  <2>3. Entered' /\ Owned'
    BY <1>3 DEF LsqInv, Entered, Owned, IsStore, EntryOf, Tag, vars
  <2>4. QED  BY <2>1, <2>2, <2>3 DEF LsqInv
<1>4. QED  BY <1>1, <1>2, <1>3 DEF Next

\* The queue, the window and the tags fit together at every edge.
THEOREM LsqInvariant == Spec => []LsqInv
<1>1. Init => LsqInv
  BY EmptyQueue DEF Init, Empty
<1>2. QED  BY <1>1, LsqInductive, PTL DEF Spec

\* The places of the store queue are those of the stores in flight, in program
\* order, and each is valid if and only if its store has executed (tail_pos and sq_tbl_n
\* in lsq.sv), however the instructions dispatch, issue, retire and are squashed.
THEOREM QueueMatchesWindowHolds == Spec => []QueueMatchesWindow
<1>1. LsqInv => QueueMatchesWindow
  <2>. SUFFICES ASSUME LsqInv PROVE QueueMatchesWindow
    OBVIOUS
  <2>1. ASSUME NEW k \in DOMAIN window, window[k].insn.kind = "store"
        PROVE  LET entry == sq_tbl[window[k].sq_pos] IN
               CASE window[k].phase = "waiting" -> ~entry.valid
                 [] window[k].phase \in {"ex_cp_mem", "done"} ->
                      entry = [valid |-> TRUE, tag |-> Tag(k), access |-> window[k].insn.access]
                 [] OTHER -> entry.valid => entry.tag = Tag(k)
    <3>1. /\ sq_tbl[window[k].sq_pos].valid => sq_tbl[window[k].sq_pos] = EntryOf(k)
          /\ window[k].phase = "waiting" => ~sq_tbl[window[k].sq_pos].valid
          /\ window[k].phase \in {"ex_cp_mem", "done"} => sq_tbl[window[k].sq_pos].valid
      BY <2>1 DEF LsqInv, Entered, IsStore
    <3>2. CASE window[k].phase = "waiting"
      BY <3>1, <3>2
    <3>3. CASE window[k].phase \in {"ex_cp_mem", "done"}
      BY <3>1, <3>3 DEF EntryOf
    <3>4. CASE window[k].phase \notin {"waiting", "ex_cp_mem", "done"}
      BY <3>1, <3>4 DEF EntryOf
    <3>5. QED  BY <3>2, <3>3, <3>4
  <2>2. QED  BY <2>1 DEF QueueMatchesWindow, LsqInv, Placed, Owned, IsStore
<1>2. QED  BY <1>1, LsqInvariant, PTL

\* A store retires only in the cycle in which the data cache completes its own
\* write (retire_disable in lsq.sv): of two that retire together the second waits, and no
\* completion meant for a load passes for a store's.
THEOREM RetiredStoresAreWrittenHolds == Spec => []RetiredStoresAreWritten
<1>1. LsqInv => RetiredStoresAreWritten
  <2>. SUFFICES ASSUME LsqInv, NEW k \in 1 .. retire_count, IsStore(k)
                PROVE  /\ dcache_ready
                       /\ lsq_dcache_packet_out =
                            [what |-> "store", access |-> window[k].insn.access, tag |-> Tag(k)]
    BY DEF RetiredStoresAreWritten, IsStore
  <2>1. dcache_retire_ready /\ retire_valid /\ sq_tbl[Idx(head)] = EntryOf(k)
    BY RetireKnown DEF RetireFacts
  <2>2. dcache_ready /\ (priority_state = 0 \/ ~ex_ld_valid)
    BY <2>1 DEF dcache_retire_ready
  <2>3. priority_state = 0 \/ ~ld_need_dcache
    BY <2>2 DEF ld_need_dcache
  <2>4. lsq_dcache_packet_out = [what |-> "store", access |-> sq_tbl[Idx(head)].access,
                                 tag |-> sq_tbl[Idx(head)].tag]
    BY <2>1, <2>3 DEF lsq_dcache_packet_out
  <2>5. QED  BY <2>1, <2>2, <2>4 DEF EntryOf
<1>2. QED  BY <1>1, LsqInvariant, PTL

-----------------------------------------------------------------------------
(* What the load sees.                                                     *)

\* The entries looked at for a load are those of the stores before it.
LEMMA InRangeFacts ==
  ASSUME LsqInv, NEW k \in DOMAIN window, NEW i \in Slots
  PROVE  /\ InRange(i, window[k].sq_pos) <=> Off(head, i) < Count(window, k)
         /\ InRange(i, window[k].sq_pos) =>
              (Upper(i, window[k].sq_pos) <=> i < Idx(head))
<1>. DEFINE t == Count(window, Len(window) + 1)
            c == Count(window, k)
            h == Idx(head)
            p == window[k].sq_pos
<1>1. SQ_SIZE \in Nat \ {0} /\ SQ_SIZE >= 4 /\ head \in 0 .. 2 * SQ_SIZE - 1
  BY LsqAssumption DEF LsqInv, LsqTypes
<1>2. /\ c \in 0 .. SQ_SIZE - 1 /\ c <= t
      /\ p = Idx(Plus(head, c)) /\ p \in Slots
  BY PlacesBehindHead, WindowFacts DEF LsqInv
<1>3. t \in 0 .. SQ_SIZE - 1
  <2>1. Len(window) + 1 \in Nat \ {0}
    BY PlacesBehindHead
  <2>2. t \in Nat
    BY <2>1, CountFacts
  <2>3. t < SQ_SIZE
    BY DEF LsqInv, Room, StoresBefore, Count, StoresOf
  <2>4. QED  BY <1>1, <2>2, <2>3
<1>4. tail = Plus(head, t)
  BY DEF LsqInv, Placed, StoresBefore, Count, StoresOf
<1>. HIDE DEF t, c, p
<1>5. h = (IF head >= SQ_SIZE THEN head - SQ_SIZE ELSE head) /\ h \in 0 .. SQ_SIZE - 1
  <2>1. 0 \in 0 .. SQ_SIZE
    BY <1>1
  <2>2. QED  BY <1>1, <2>1, PointerFacts DEF Slots
<1>6. /\ Idx(tail) = IF h + t >= SQ_SIZE THEN (h + t) - SQ_SIZE ELSE h + t
      /\ p = IF h + c >= SQ_SIZE THEN (h + c) - SQ_SIZE ELSE h + c
  <2>1. /\ Idx(Plus(head, t)) = IF h + t >= SQ_SIZE THEN h + t - SQ_SIZE ELSE h + t
        /\ Idx(Plus(head, c)) = IF h + c >= SQ_SIZE THEN h + c - SQ_SIZE ELSE h + c
    BY <1>1, <1>2, <1>3, PlaceFacts
  <2>2. QED  BY <1>1, <1>2, <1>3, <1>4, <1>5, <2>1
<1>7. Msb(head) = Msb(tail) <=> h + t < SQ_SIZE
  <2>1. t \in 0 .. SQ_SIZE
    BY <1>1, <1>3
  <2>2. tail = IF head + t >= 2 * SQ_SIZE THEN (head + t) - 2 * SQ_SIZE ELSE head + t
    <3>1. Plus(head, t) = IF head + t >= 2 * SQ_SIZE THEN head + t - 2 * SQ_SIZE ELSE head + t
      BY <1>1, <2>1, PointerFacts
    <3>2. QED  BY <1>1, <1>3, <1>4, <3>1
  <2>3. QED  BY <1>1, <1>3, <1>5, <2>2 DEF Msb
<1>8. minus_one(p) = IF p = 0 THEN SQ_SIZE - 1 ELSE p - 1
  <2>1. PICK q \in Int : q = p - 1
    BY <1>2 DEF Slots
  <2>2. q >= -SQ_SIZE /\ q < 2 * SQ_SIZE /\ q < SQ_SIZE
    BY <1>1, <1>2, <2>1 DEF Slots
  <2>3. q % SQ_SIZE = IF q >= SQ_SIZE THEN q - SQ_SIZE ELSE IF q < 0 THEN q + SQ_SIZE ELSE q
    BY <1>1, <2>2, Remainders, Zenon
  <2>4. minus_one(p) = q % SQ_SIZE
    BY <2>1 DEF minus_one
  <2>5. QED  BY <1>1, <1>2, <2>1, <2>2, <2>3, <2>4 DEF Slots
<1>. DEFINE T == Idx(tail)
            m == minus_one(p)
            s == Off(head, i)
<1>9. s = (IF i >= h THEN i - h ELSE i - h + SQ_SIZE) /\ i \in 0 .. SQ_SIZE - 1
  BY DEF Off, Slots
<1>10. /\ InRange(i, p) <=> IF h + t < SQ_SIZE THEN i >= h /\ i < T /\ i < p
                            ELSE IF m < T THEN i < p \/ i >= h
                            ELSE i >= h /\ i <= m
       /\ Upper(i, p) <=> ~(h + t < SQ_SIZE) /\ m < T /\ i < p
  BY <1>7 DEF InRange, Upper
<1>. DEFINE Known == /\ InRange(i, p) <=> s < c
                     /\ InRange(i, p) => (Upper(i, p) <=> i < h)
<1>11. h \in Int /\ T \in Int /\ m \in Int /\ i \in Int /\ c \in Int /\ t \in Int /\ p \in Int
  BY <1>1, <1>2, <1>3, <1>5, <1>6, <1>8, <1>9 DEF Slots
<1>. HIDE DEF h, T, m, s
<1>12. ASSUME h + t < SQ_SIZE PROVE Known
  <2>1. T = h + t /\ p = h + c
    BY <1>1, <1>2, <1>3, <1>5, <1>6, <1>11, <1>12 DEF T
  <2>2. InRange(i, p) <=> i >= h /\ i < T /\ i < p
    BY <1>10, <1>12
  <2>3. ~Upper(i, p)
    BY <1>10, <1>12
  <2>4. (i >= h /\ i < T /\ i < p) <=> s < c
    BY <1>1, <1>2, <1>3, <1>5, <1>9, <1>11, <1>12, <2>1
  <2>5. (i >= h /\ i < T /\ i < p) => ~(i < h)
    BY <1>11
  <2>6. QED  BY <2>2, <2>3, <2>4, <2>5
<1>13. ASSUME ~(h + t < SQ_SIZE) PROVE Known
  <2>1. T = (h + t) - SQ_SIZE /\ T < h
    BY <1>1, <1>3, <1>5, <1>6, <1>11, <1>13 DEF T
  <2>2. CASE h + c > SQ_SIZE
    <3>1. p = (h + c) - SQ_SIZE /\ p # 0 /\ p < h /\ m = p - 1
      BY <1>1, <1>2, <1>5, <1>6, <1>8, <1>11, <2>2 DEF m
    <3>2. m < T
      BY <1>1, <1>2, <1>3, <1>11, <2>1, <3>1
    <3>3. (InRange(i, p) <=> i < p \/ i >= h) /\ (Upper(i, p) <=> i < p)
      BY <1>10, <1>13, <3>2
    <3>4. (i < p \/ i >= h) <=> s < c
      BY <1>1, <1>2, <1>5, <1>9, <1>11, <2>2, <3>1
    <3>5. (i < p \/ i >= h) => (i < p <=> i < h)
      BY <1>11, <3>1
    <3>6. QED  BY <3>3, <3>4, <3>5
  <2>3. CASE ~(h + c > SQ_SIZE)
    <3>1. m = (h + c) - 1
      <4>1. CASE h + c = SQ_SIZE
        <5>1. p = 0 /\ m = SQ_SIZE - 1
          BY <1>1, <1>6, <1>8, <1>11, <4>1 DEF m
        <5>2. QED  BY <4>1, <5>1
      <4>2. CASE h + c < SQ_SIZE
        <5>1. p = h + c
          BY <1>1, <1>6, <1>11, <4>2
        <5>2. p # 0
          BY <1>1, <1>2, <1>3, <1>5, <1>11, <1>13, <5>1
        <5>3. QED  BY <1>8, <5>1, <5>2 DEF m
      <4>3. QED  BY <1>1, <1>11, <2>3, <4>1, <4>2
    <3>2. ~(m < T)
      BY <1>2, <1>11, <2>1, <3>1
    <3>3. (InRange(i, p) <=> i >= h /\ i <= m) /\ ~Upper(i, p)
      BY <1>10, <1>13, <3>2
    <3>4. (i >= h /\ i <= m) <=> s < c
      BY <1>1, <1>2, <1>5, <1>9, <1>11, <2>3, <3>1
    <3>5. (i >= h /\ i <= m) => ~(i < h)
      BY <1>11
    <3>6. QED  BY <3>3, <3>4, <3>5
  <2>4. QED  BY <2>2, <2>3
<1>14. Known
  BY <1>12, <1>13
<1>15. QED  BY <1>14 DEF c, p, s, h

\* A set of places of the window that has members has a last one.
LEMMA Last ==
  ASSUME NEW n \in Nat, NEW S \in SUBSET (1 .. n), S # {}
  PROVE  \E x \in S : \A y \in S : y <= x
<1>. DEFINE R == {n - x : x \in S}
<1>1. R \in SUBSET Nat /\ R # {}
  <2>1. ASSUME NEW x \in S PROVE n - x \in Nat
    OBVIOUS
  <2>2. R \in SUBSET Nat
    BY <2>1
  <2>3. PICK x : x \in S
    OBVIOUS
  <2>4. n - x \in R
    BY <2>3
  <2>5. QED  BY <2>2, <2>4
<1>2. PICK r \in R : \A q \in R : ~(<<q, r>> \in OpToRel(<, Nat))
  BY <1>1, NatLessThanWellFounded, WFMin
<1>3. PICK x \in S : r = n - x
  BY <1>2
<1>4. ASSUME NEW y \in S PROVE y <= x
  <2>1. n - y \in R /\ n - y \in Nat /\ r \in Nat
    BY <1>1, <1>2
  <2>2. ~(n - y < r)
    BY <1>2, <2>1 DEF OpToRel
  <2>3. QED  BY <1>3, <2>2
<1>5. QED  BY <1>4

\* A load that is not held back sees the entry of every older store, and nothing
\* else.
LEMMA OlderStores ==
  ASSUME LsqInv, ex_ld_valid, ~sq_ld_halt
  PROVE  /\ \A j \in 1 .. LdPlace - 1 : IsStore(j) =>
              /\ j \in DOMAIN window /\ InRange(window[j].sq_pos, ex_ld.sq_pos)
              /\ sq_tbl[window[j].sq_pos] = EntryOf(j)
         /\ \A i \in Slots : InRange(i, ex_ld.sq_pos) =>
              \E j \in 1 .. LdPlace - 1 :
                IsStore(j) /\ window[j].sq_pos = i /\ sq_tbl[i] = EntryOf(j)
<1>1. LdPlace \in DOMAIN window /\ Len(window) \in Nat /\ DOMAIN window = 1 .. Len(window)
  BY UnitFacts, WindowFacts DEF LsqInv
<1>2. \A i \in Slots : InRange(i, ex_ld.sq_pos) => sq_tbl[i].valid
  BY DEF sq_ld_halt
<1>3. \A i \in Slots : InRange(i, ex_ld.sq_pos) <=> Off(head, i) < Count(window, LdPlace)
  BY <1>1, InRangeFacts DEF ex_ld
<1>4. Off(head, window[LdPlace].sq_pos) = Count(window, LdPlace)
  BY <1>1, PlacesBehindHead
<1>5. ASSUME NEW j \in 1 .. LdPlace - 1, IsStore(j)
      PROVE  /\ j \in DOMAIN window /\ InRange(window[j].sq_pos, ex_ld.sq_pos)
             /\ sq_tbl[window[j].sq_pos] = EntryOf(j)
  <2>1. j \in DOMAIN window /\ j < LdPlace
    BY <1>1
  <2>2. Off(head, window[j].sq_pos) < Off(head, window[LdPlace].sq_pos)
    BY <1>1, <1>5, <2>1, StoresApart
  <2>3. window[j].sq_pos \in Slots
    BY <2>1, WindowFacts DEF LsqInv
  <2>4. InRange(window[j].sq_pos, ex_ld.sq_pos)
    BY <1>3, <1>4, <2>2, <2>3
  <2>5. sq_tbl[window[j].sq_pos] = EntryOf(j)
    BY <1>2, <1>5, <2>1, <2>3, <2>4 DEF LsqInv, Entered
  <2>6. QED  BY <2>1, <2>4, <2>5
<1>6. ASSUME NEW i \in Slots, InRange(i, ex_ld.sq_pos)
      PROVE  \E j \in 1 .. LdPlace - 1 :
               IsStore(j) /\ window[j].sq_pos = i /\ sq_tbl[i] = EntryOf(j)
  <2>1. sq_tbl[i].valid
    BY <1>2, <1>6
  <2>2. PICK j \in DOMAIN window : IsStore(j) /\ window[j].sq_pos = i /\ sq_tbl[i] = EntryOf(j)
    BY <2>1, ValidEntries
  <2>3. Off(head, window[j].sq_pos) < Off(head, window[LdPlace].sq_pos)
    BY <1>3, <1>4, <1>6, <2>2
  <2>4. j < LdPlace
    BY <1>1, <2>2, <2>3, StoresApart
  <2>5. j \in 1 .. LdPlace - 1
    BY <1>1, <2>4
  <2>6. QED  BY <2>2, <2>5
<1>7. QED  BY <1>5, <1>6

\* The entries that cover a byte are those of the older stores that write it.
LEMMA CoveringFacts ==
  ASSUME LsqInv, ex_ld_valid, ~sq_ld_halt, NEW b
  PROVE  /\ \A j \in Writers(b) : window[j].sq_pos \in Covering(b)
         /\ \A i \in Covering(b) :
              \E j \in Writers(b) : window[j].sq_pos = i /\ sq_tbl[i].tag = Tag(j)
<1>1. ASSUME NEW j \in Writers(b) PROVE window[j].sq_pos \in Covering(b)
  <2>1. /\ j \in 1 .. LdPlace - 1 /\ IsStore(j)
        /\ window[j].insn.access.word = ex_ld.insn.access.word
        /\ b \in window[j].insn.access.bytes
    BY DEF Writers, IsStore
  <2>2. /\ j \in DOMAIN window /\ InRange(window[j].sq_pos, ex_ld.sq_pos)
        /\ sq_tbl[window[j].sq_pos] = EntryOf(j)
    BY <2>1, OlderStores
  <2>3. window[j].sq_pos \in Slots
    BY <2>2, WindowFacts DEF LsqInv
  <2>4. QED  BY <2>1, <2>2, <2>3 DEF Covering, EntryOf
<1>2. ASSUME NEW i \in Covering(b)
      PROVE  \E j \in Writers(b) : window[j].sq_pos = i /\ sq_tbl[i].tag = Tag(j)
  <2>1. /\ i \in Slots /\ InRange(i, ex_ld.sq_pos)
        /\ sq_tbl[i].access.word = ex_ld.insn.access.word
        /\ b \in sq_tbl[i].access.bytes
    BY DEF Covering
  <2>2. PICK j \in 1 .. LdPlace - 1 :
          IsStore(j) /\ window[j].sq_pos = i /\ sq_tbl[i] = EntryOf(j)
    BY <2>1, OlderStores
  <2>3. sq_tbl[i].access = window[j].insn.access /\ sq_tbl[i].tag = Tag(j)
    BY <2>2 DEF EntryOf
  <2>4. j \in Writers(b)
    BY <2>1, <2>2, <2>3 DEF Writers, IsStore
  <2>5. QED  BY <2>2, <2>3, <2>4
<1>3. QED  BY <1>1, <1>2

\* The entry that wins is the one that lies farthest behind the head.
Yields(j, i) ==
  \/ Upper(i, ex_ld.sq_pos) /\ ~Upper(j, ex_ld.sq_pos)
  \/ (Upper(i, ex_ld.sq_pos) = Upper(j, ex_ld.sq_pos)) /\ j <= i

LEMMA YieldsToYounger ==
  ASSUME LsqInv, ex_ld_valid, NEW b, NEW i \in Covering(b), NEW j \in Covering(b)
  PROVE  Yields(j, i) <=> Off(head, j) <= Off(head, i)
<1>1. LdPlace \in DOMAIN window
  BY UnitFacts
<1>2. /\ i \in Slots /\ InRange(i, ex_ld.sq_pos)
      /\ j \in Slots /\ InRange(j, ex_ld.sq_pos)
  BY DEF Covering
<1>3. /\ Upper(i, ex_ld.sq_pos) <=> i < Idx(head)
      /\ Upper(j, ex_ld.sq_pos) <=> j < Idx(head)
  BY <1>1, <1>2, InRangeFacts DEF ex_ld
<1>4. SQ_SIZE \in Nat /\ Idx(head) \in 0 .. SQ_SIZE - 1
  BY LsqAssumption, FirstTwo DEF Slots
<1>5. Yields(j, i) <=> \/ i < Idx(head) /\ ~(j < Idx(head))
                       \/ (i < Idx(head) <=> j < Idx(head)) /\ j <= i
  <2>1. /\ Upper(i, ex_ld.sq_pos) \in BOOLEAN /\ Upper(j, ex_ld.sq_pos) \in BOOLEAN
    BY DEF Upper
  <2>2. (Upper(i, ex_ld.sq_pos) = Upper(j, ex_ld.sq_pos))
          <=> (Upper(i, ex_ld.sq_pos) <=> Upper(j, ex_ld.sq_pos))
    BY <2>1
  <2>3. QED  BY <1>3, <2>2 DEF Yields
<1>6. i \in 0 .. SQ_SIZE - 1 /\ j \in 0 .. SQ_SIZE - 1
  BY <1>2 DEF Slots
<1>7. QED  BY <1>4, <1>5, <1>6 DEF Off

\* Each byte of a load's value is that of the youngest older store that writes
\* it, or the memory's when all of those have left the queue (found_lower and
\* found_upper in lsq.sv), wherever the queue's indices wrap.
THEOREM LoadsSeeYoungestOlderHolds == Spec => []LoadsSeeYoungestOlder
<1>1. LsqInv => LoadsSeeYoungestOlder
  <2>. SUFFICES ASSUME LsqInv, ld_valid, NEW b \in ex_ld.insn.access.bytes
                PROVE  ld_value(b) = Expected(b)
    BY DEF LoadsSeeYoungestOlder
  <2>1. ex_ld_valid /\ ~sq_ld_halt /\ (ld_need_dcache => dcache_rd_ready)
    BY DEF ld_valid
  <2>2. LdPlace \in DOMAIN window /\ Len(window) \in Nat /\ DOMAIN window = 1 .. Len(window)
    BY <2>1, UnitFacts, WindowFacts DEF LsqInv
  <2>3. CASE Writers(b) = {}
    <3>1. Covering(b) = {}
      BY <2>1, <2>3, CoveringFacts
    <3>2. ~found(b) /\ ld_need_dcache
      BY <2>1, <3>1 DEF found, ld_need_dcache
    <3>3. priority_state = 1 \/ ~retire_valid
      BY <2>1, <3>2 DEF dcache_rd_ready
    <3>4. priority_state = 0 \/ priority_state = 1
      BY DEF LsqInv, LsqTypes
    <3>5. lsq_dcache_packet_out =
            [what |-> "load", access |-> ex_ld.insn.access, tag |-> Tag(LdPlace)]
      BY <3>2, <3>3, <3>4 DEF lsq_dcache_packet_out
    <3>6. QED  BY <2>3, <3>2, <3>5 DEF ld_value, Expected
  <2>4. CASE Writers(b) # {}
    <3>1. /\ Writers(b) \in SUBSET (1 .. LdPlace - 1) /\ LdPlace - 1 \in Nat
          /\ \A j \in Writers(b) : j \in DOMAIN window /\ IsStore(j)
      BY <2>2 DEF Writers, IsStore
    <3>2. PICK w \in Writers(b) : \A j \in Writers(b) : j <= w
      BY <2>4, <3>1, Last
    <3>3. \A j, k \in Writers(b) :
            Off(head, window[j].sq_pos) <= Off(head, window[k].sq_pos) <=> j <= k
      <4>1. ASSUME NEW j \in Writers(b), NEW k \in Writers(b)
            PROVE  Off(head, window[j].sq_pos) <= Off(head, window[k].sq_pos) <=> j <= k
        <5>1. /\ k < j => Off(head, window[k].sq_pos) < Off(head, window[j].sq_pos)
              /\ Off(head, window[k].sq_pos) < Off(head, window[j].sq_pos) => k < j
          BY <3>1, StoresApart
        <5>2. /\ Off(head, window[k].sq_pos) \in Int /\ Off(head, window[j].sq_pos) \in Int
              /\ j \in Int /\ k \in Int
          BY <3>1, PlacesBehindHead
        <5>3. QED  BY <5>1, <5>2
      <4>2. QED  BY <4>1
    <3>4. \A i \in Covering(b) :
            \E j \in Writers(b) : window[j].sq_pos = i /\ sq_tbl[i].tag = Tag(j)
      BY <2>1, CoveringFacts
    <3>5. window[w].sq_pos \in Covering(b)
      BY <2>1, CoveringFacts
    <3>6. \A j \in Covering(b) : Yields(j, window[w].sq_pos)
      <4>1. ASSUME NEW j \in Covering(b) PROVE Off(head, j) <= Off(head, window[w].sq_pos)
        BY <3>2, <3>3, <3>4
      <4>2. QED  BY <2>1, <3>5, <4>1, YieldsToYounger
    <3>7. found_pos(b) \in Covering(b) /\ \A j \in Covering(b) : Yields(j, found_pos(b))
      BY <3>5, <3>6 DEF found_pos, Yields
    <3>8. PICK k \in Writers(b) :
            window[k].sq_pos = found_pos(b) /\ sq_tbl[found_pos(b)].tag = Tag(k)
      BY <3>4, <3>7
    <3>9. \A j \in Writers(b) : j <= k
      <4>1. ASSUME NEW j \in Writers(b) PROVE j <= k
        <5>1. window[j].sq_pos \in Covering(b)
          BY <2>1, CoveringFacts
        <5>2. Off(head, window[j].sq_pos) <= Off(head, window[k].sq_pos)
          BY <2>1, <3>7, <3>8, <5>1, YieldsToYounger
        <5>3. QED  BY <3>3, <5>2
      <4>2. QED  BY <4>1
    <3>10. (CHOOSE j \in Writers(b) : \A i \in Writers(b) : i <= j) = k
      <4>. DEFINE e == CHOOSE j \in Writers(b) : \A i \in Writers(b) : i <= j
      <4>1. e \in Writers(b) /\ \A i \in Writers(b) : i <= e
        BY <3>9
      <4>. HIDE DEF e
      <4>2. e <= k /\ k <= e /\ e \in Int /\ k \in Int
        BY <3>1, <3>9, <4>1
      <4>3. e = k
        BY <4>2
      <4>4. QED  BY <4>3 DEF e
    <3>11. Expected(b) = Tag(k)
      BY <2>4, <3>10 DEF Expected
    <3>12. ld_value(b) = Tag(k)
      BY <3>7, <3>8 DEF ld_value, found
    <3>13. QED  BY <3>11, <3>12
  <2>5. QED  BY <2>3, <2>4
<1>2. QED  BY <1>1, LsqInvariant, PTL

-----------------------------------------------------------------------------
(* A request stays.                                                        *)

\* InRangeFacts and CoveringFacts of a state, to be used of the next one too.
SeenFacts ==
  /\ \A k \in DOMAIN window : \A i \in Slots :
       InRange(i, window[k].sq_pos) <=> Off(head, i) < Count(window, k)
  /\ ex_ld_valid /\ ~sq_ld_halt => \A b : found(b) <=> Writers(b) # {}

LEMMA SeenKnown == LsqInv => SeenFacts
<1>. SUFFICES ASSUME LsqInv PROVE SeenFacts
  OBVIOUS
<1>1. \A k \in DOMAIN window : \A i \in Slots :
        InRange(i, window[k].sq_pos) <=> Off(head, i) < Count(window, k)
  BY InRangeFacts
<1>2. ASSUME ex_ld_valid, ~sq_ld_halt, NEW b PROVE found(b) <=> Writers(b) # {}
  BY <1>2, CoveringFacts DEF found
<1>3. QED  BY <1>1, <1>2 DEF SeenFacts

\* No store retires while the data cache completes nothing.
LEMMA NoStoreRetires ==
  ASSUME LsqInv, NEW issued \in Issues, NEW outcome \in Outcomes, NEW dp \in Dispatches,
         Cycle(issued, outcome, dp), ~dcache_ready
  PROVE  /\ ~dcache_retire_ready /\ ~dcache_rd_ready /\ head' = head
         /\ Count(window, retire_count + 1) = 0
<1>1. ~dcache_retire_ready /\ ~dcache_rd_ready
  BY DEF dcache_retire_ready, dcache_rd_ready
<1>2. Count(window, retire_count + 1) = 0
  BY <1>1, RetireKnown DEF RetireFacts
<1>3. QED  BY <1>1, <1>2 DEF Cycle

\* A store that is asked for is asked for again.
LEMMA StoreRequestStays ==
  ASSUME LsqInv, LsqInv', NEW issued \in Issues, NEW outcome \in Outcomes, NEW dp \in Dispatches,
         Cycle(issued, outcome, dp), ~dcache_ready, lsq_dcache_packet_out.what = "store"
  PROVE  lsq_dcache_packet_out' = lsq_dcache_packet_out
<1>1. ~dcache_retire_ready /\ head' = head
  BY NoStoreRetires
<1>2. retire_valid /\ (priority_state = 0 \/ ~ld_need_dcache)
  BY DEF lsq_dcache_packet_out, NoRequest
<1>3. lsq_dcache_packet_out =
        [what |-> "store", access |-> sq_tbl[Idx(head)].access, tag |-> sq_tbl[Idx(head)].tag]
  BY <1>2 DEF lsq_dcache_packet_out
<1>4. priority_state' = 0
  BY <1>1, <1>2 DEF Cycle, priority_state_n, LsqInv, LsqTypes
<1>5. PICK c \in 0 .. 1 : /\ c = retire_count /\ rt_valid(c) /\ IsStore(c + 1)
                          /\ c + 1 \in DOMAIN window
                          /\ sq_tbl[Idx(head)] = EntryOf(c + 1)
  <2>1. CASE store0
    <3>1. 0 \in retire_disable
      BY <1>1, <2>1 DEF retire_disable
    <3>2. retire_count = 0
      BY <3>1 DEF retire_count
    <3>3. /\ rt_valid(0) /\ IsStore(0 + 1) /\ 0 + 1 \in DOMAIN window
          /\ sq_tbl[Idx(head)] = EntryOf(0 + 1)
      BY <2>1, RetiringStoresKnown DEF RetiringStores
    <3>4. QED  BY <3>2, <3>3
  <2>2. CASE store1
    <3>1. ~store0 /\ retire_disable = {1}
      BY <1>1, <2>2 DEF retire_disable, store1
    <3>2. /\ rt_valid(1) /\ IsStore(1 + 1) /\ 1 + 1 \in DOMAIN window
          /\ sq_tbl[Idx(head)] = EntryOf(1 + 1)
      BY <2>2, RetiringStoresKnown DEF RetiringStores
    <3>3. rt_valid(0)
      BY <3>2 DEF rt_valid
    <3>4. retire_count = 1
      BY <3>1, <3>3 DEF retire_count
    <3>5. QED  BY <3>2, <3>4
  <2>3. QED  BY <1>2, <2>1, <2>2 DEF retire_valid
<1>6. window[c + 1].phase = "done"
  <2>1. window[c + 1].phase \in {"done", "mispredicted"}
    BY <1>5 DEF rt_valid, Complete
  <2>2. QED  BY <1>5, <2>1 DEF LsqInv, Stages, IsStore
<1>7. /\ 1 \in DOMAIN window' /\ window'[1].insn = window[c + 1].insn
      /\ window'[1].phase = "done"
  <2>1. Len(window) \in Nat /\ DOMAIN window = 1 .. Len(window)
    BY WindowFacts DEF LsqInv
  <2>2. Len(dp) \in 0 .. 2
    BY InputFacts
  <2>3. 1 \in 1 .. Len(window) - c
    BY <1>5, <2>1
  <2>4. window' = window_n(issued, outcome, dp)
    BY DEF Cycle
  <2>5. /\ window'[1].insn = window[c + 1].insn
        /\ window'[1].phase = phase_n(c + 1, issued, outcome)
        /\ Len(window') = (Len(window) - c) + Len(dp) /\ DOMAIN window' = 1 .. Len(window')
    BY <1>5, <2>3, <2>4, NextWindow
  <2>6. phase_n(c + 1, issued, outcome) = "done"
    BY <1>5, <1>6, PhaseFacts DEF LsqInv
  <2>7. QED  BY <1>5, <2>1, <2>2, <2>3, <2>5, <2>6
<1>8. RetiringStores'
  BY RetiringStoresKnown, PTL
<1>9. store0'
  <2>1. rt_valid(0)' /\ IsStore(1)'
    BY <1>5, <1>7 DEF rt_valid, Complete, IsStore
  <2>2. QED  BY <1>8, <2>1 DEF RetiringStores
<1>10. sq_tbl'[Idx(head')] = EntryOf(1)'
  BY <1>8, <1>9 DEF RetiringStores
<1>11. Tag(1)' = Tag(c + 1)
  <2>1. rob_head' = (rob_head + c) % ROB_SIZE /\ rob_head \in Tags /\ c \in 0 .. 2
    BY <1>5 DEF Cycle, LsqInv, LsqTypes
  <2>2. Len(window) \in Nat /\ c + 1 <= Len(window) /\ Len(window) <= ROB_SIZE /\ ROB_SIZE \in Nat
    BY <1>5, WindowFacts, LsqAssumption DEF LsqInv, LsqTypes
  <2>3. c + 1 <= ROB_SIZE /\ 1 \in Nat \ {0}
    BY <1>5, <2>2
  <2>4. QED  BY <2>1, <2>3, TagsMove
<1>12. /\ sq_tbl'[Idx(head')].access = sq_tbl[Idx(head)].access
       /\ sq_tbl'[Idx(head')].tag = sq_tbl[Idx(head)].tag
  BY <1>5, <1>7, <1>10, <1>11 DEF EntryOf
<1>13. lsq_dcache_packet_out' =
         [what |-> "store", access |-> sq_tbl'[Idx(head')].access, tag |-> sq_tbl'[Idx(head')].tag]
  BY <1>4, <1>9 DEF lsq_dcache_packet_out, retire_valid, Idx
<1>14. QED  BY <1>3, <1>12, <1>13

\* The load that waits for the data cache after the edge: the same, at the place
\* l, with the same older stores.
LEMMA LoadStays ==
  ASSUME LsqInv, LsqInv', NEW issued \in Issues, NEW outcome \in Outcomes, NEW dp \in Dispatches,
         Cycle(issued, outcome, dp), ~dcache_ready, ex_ld_valid, ~ld_valid
  PROVE  /\ ex_ld_valid' /\ LdPlace \in Nat /\ LdPlace' = LdPlace - retire_count
         /\ LdPlace' \in DOMAIN window' /\ ex_ld'.insn = ex_ld.insn /\ ex_ld'.sq_pos = ex_ld.sq_pos
         /\ \A j \in 1 .. LdPlace' : /\ retire_count + j \in 1 .. LdPlace
                                     /\ window'[j].insn = window[retire_count + j].insn
         /\ Tag(LdPlace)' = Tag(LdPlace)
<1>1. PICK c \in 0 .. 2 : c = retire_count /\ c <= Len(window)
  BY RetireKnown DEF RetireFacts
<1>2. Len(window) \in Nat /\ DOMAIN window = 1 .. Len(window)
  BY WindowFacts DEF LsqInv
<1>3. PICK k \in DOMAIN window : k = LdPlace /\ window[k].insn.kind = "load"
                                 /\ window[k].phase = "executing"
  BY UnitFacts
<1>4. c < k
  <2>1. \A j \in 1 .. c : window[j].phase # "executing"
    BY <1>1, RetireKnown DEF RetireFacts, Complete
  <2>2. QED  BY <1>1, <1>2, <1>3, <2>1
<1>5. PICK l \in 1 .. Len(window) - c : k = c + l
  <2>1. PICK l \in Int : l = k - c
    BY <1>1, <1>2
  <2>2. l \in 1 .. Len(window) - c /\ k = c + l
    BY <1>1, <1>2, <1>4, <2>1
  <2>3. QED  BY <2>2
<1>6. /\ Len(window') = (Len(window) - c) + Len(dp) /\ DOMAIN window' = 1 .. Len(window')
      /\ \A j \in 1 .. Len(window) - c :
           /\ window'[j].insn = window[c + j].insn
           /\ window'[j].sq_pos = window[c + j].sq_pos
           /\ window'[j].phase = phase_n(c + j, issued, outcome)
  <2>1. window' = window_n(issued, outcome, dp)
    BY DEF Cycle
  <2>2. QED  BY <1>1, <2>1, NextWindow
<1>7. Len(dp) \in 0 .. 2
  BY InputFacts
<1>8. phase_n(k, issued, outcome) = "executing"
  <2>1. ~lsq_cp(k)
    BY <1>3, UnitFacts DEF lsq_cp, IsStore
  <2>2. QED  BY <1>3, <2>1, PhaseFacts DEF LsqInv
<1>9. /\ l \in DOMAIN window' /\ window'[l].insn = window[k].insn
      /\ window'[l].sq_pos = window[k].sq_pos /\ window'[l].phase = "executing"
  BY <1>1, <1>2, <1>5, <1>6, <1>7, <1>8
<1>10. l \in Executing("load")'
  BY <1>3, <1>9 DEF Executing
<1>11. LdPlace' = l /\ ex_ld_valid'
  <2>1. LdPlace' \in Executing("load")'
    BY <1>10 DEF LdPlace
  <2>2. LdPlace' \in DOMAIN window' /\ window'[LdPlace'].insn.kind = "load"
          /\ window'[LdPlace'].phase = "executing"
    BY <2>1 DEF Executing
  <2>3. \A i, j \in DOMAIN window' :
          window'[i].phase = "executing" /\ window'[j].phase = "executing"
            /\ window'[i].insn.kind = window'[j].insn.kind => i = j
    BY DEF LsqInv, Stages
  <2>4. LdPlace' = l
    BY <1>3, <1>9, <2>2, <2>3
  <2>5. QED  BY <1>10, <2>4 DEF ex_ld_valid
<1>12. ex_ld' = window'[l] /\ ex_ld = window[k]
  BY <1>3, <1>11 DEF ex_ld
<1>13. \A j \in 1 .. l : c + j \in 1 .. k /\ window'[j].insn = window[c + j].insn
  <2>1. ASSUME NEW j \in 1 .. l PROVE c + j \in 1 .. k /\ j \in 1 .. Len(window) - c
    BY <1>1, <1>2, <1>5
  <2>2. QED  BY <1>6, <2>1
<1>14. Tag(LdPlace)' = Tag(LdPlace)
  <2>1. rob_head' = (rob_head + c) % ROB_SIZE /\ rob_head \in Tags
    BY <1>1 DEF Cycle, LsqInv, LsqTypes
  <2>2. Len(window) <= ROB_SIZE /\ ROB_SIZE \in Nat
    BY LsqAssumption DEF LsqInv, LsqTypes
  <2>3. c + l <= ROB_SIZE /\ l \in Nat \ {0}
    BY <1>1, <1>2, <1>5, <2>2
  <2>4. Tag(l)' = Tag(c + l)
    BY <2>1, <2>3, TagsMove
  <2>5. QED  BY <1>3, <1>5, <1>11, <2>4 DEF Tag
<1>15. LdPlace' = LdPlace - retire_count /\ LdPlace \in Nat
  BY <1>1, <1>2, <1>3, <1>5, <1>11
<1>16. QED  BY <1>1, <1>3, <1>9, <1>11, <1>12, <1>13, <1>14, <1>15

\* It is not held back by a store that was dispatched behind it, and no store
\* before it executes that was not there.
LEMMA LoadStillNeeds ==
  ASSUME LsqInv, LsqInv', NEW issued \in Issues, NEW outcome \in Outcomes, NEW dp \in Dispatches,
         Cycle(issued, outcome, dp), ~dcache_ready, ld_need_dcache, ~ld_valid
  PROVE  ld_need_dcache'
<1>1. ex_ld_valid /\ ~sq_ld_halt /\ \E b \in ex_ld.insn.access.bytes : ~found(b)
  BY DEF ld_need_dcache
<1>2. /\ ex_ld_valid' /\ LdPlace \in Nat /\ LdPlace' = LdPlace - retire_count
      /\ LdPlace' \in DOMAIN window' /\ ex_ld'.insn = ex_ld.insn /\ ex_ld'.sq_pos = ex_ld.sq_pos
      /\ \A j \in 1 .. LdPlace' : /\ retire_count + j \in 1 .. LdPlace
                                  /\ window'[j].insn = window[retire_count + j].insn
  BY <1>1, LoadStays
<1>3. PICK c \in 0 .. 2 : c = retire_count
  BY RetireKnown DEF RetireFacts
<1>4. PICK l \in DOMAIN window' : l = LdPlace'
  BY <1>2
<1>5. LsqTypes' => Len(window)' \in Nat /\ DOMAIN window' = 1 .. Len(window)'
  BY LenProperties, Zenon DEF LsqTypes
<1>6. l \in Nat \ {0} /\ LdPlace = c + l
  BY <1>2, <1>3, <1>4, <1>5 DEF LsqInv
<1>7. head' = head /\ Count(window, c + 1) = 0
  BY <1>3, NoStoreRetires
<1>8. Count(window', l) = Count(window, LdPlace)
  <2>1. \A j \in 1 .. l - 1 : j \in 1 .. l
    BY <1>6
  <2>2. \A j \in 1 .. l - 1 : window[c + j].insn.kind = window'[j].insn.kind
    BY <1>2, <1>3, <1>4, <2>1
  <2>3. c \in Nat /\ l \in Nat \ {0}
    BY <1>6
  <2>4. Count(window, c + l) = Count(window, c + 1) + Count(window', l)
    BY <2>2, <2>3, CountBehind
  <2>5. Count(window', l) \in Nat
    BY <2>3, CountFacts
  <2>6. QED  BY <1>6, <1>7, <2>4, <2>5
<1>9. SeenFacts /\ SeenFacts'
  BY SeenKnown, PTL
<1>10. ~sq_ld_halt'
  <2>1. ASSUME NEW i \in Slots, InRange(i, ex_ld.sq_pos)', ~sq_tbl'[i].valid PROVE FALSE
    <3>1. ex_ld'.sq_pos = window'[l].sq_pos
      BY <1>4 DEF ex_ld
    <3>2. Off(head', i) < Count(window', l)
      BY <1>9, <2>1, <3>1 DEF SeenFacts, InRange, Off, Idx, Msb
    <3>3. Off(head, i) < Count(window, LdPlace) /\ LdPlace \in DOMAIN window
      BY <1>1, <1>7, <1>8, <3>2, UnitFacts
    <3>4. InRange(i, ex_ld.sq_pos)
      BY <1>9, <3>3 DEF SeenFacts, ex_ld
    <3>5. sq_tbl[i].valid
      BY <1>1, <3>4 DEF sq_ld_halt
    <3>6. ~dcache_retire_ready /\ sq_tbl' = sq_tbl_n
      BY NoStoreRetires DEF Cycle
    <3>7. sq_tbl'[i].valid
      BY <3>5, <3>6 DEF sq_tbl_n
    <3>8. QED  BY <2>1, <3>7
  <2>2. QED  BY <2>1 DEF sq_ld_halt
<1>11. PICK b \in ex_ld.insn.access.bytes : ~found(b)
  BY <1>1
<1>12. Writers(b) = {}
  BY <1>1, <1>9, <1>11 DEF SeenFacts
<1>13. Writers(b)' = {}
  <2>1. ASSUME NEW j \in Writers(b)' PROVE FALSE
    <3>1. /\ j \in 1 .. l - 1 /\ window'[j].insn.kind = "store"
          /\ window'[j].insn.access.word = ex_ld'.insn.access.word
          /\ b \in window'[j].insn.access.bytes
      BY <1>4 DEF Writers
    <3>2. j \in 1 .. l /\ c + j \in 1 .. LdPlace - 1
      BY <1>6, <3>1
    <3>3. window'[j].insn = window[c + j].insn
      BY <1>2, <1>3, <1>4, <3>2
    <3>4. c + j \in Writers(b)
      BY <1>2, <3>1, <3>2, <3>3 DEF Writers
    <3>5. QED  BY <1>12, <3>4
  <2>2. QED  BY <2>1
<1>14. ~found(b)'
  BY <1>2, <1>9, <1>10, <1>13 DEF SeenFacts, found
<1>15. QED  BY <1>2, <1>10, <1>11, <1>14 DEF ld_need_dcache, found

\* A load that is asked for is asked for again.
LEMMA LoadRequestStays ==
  ASSUME LsqInv, LsqInv', NEW issued \in Issues, NEW outcome \in Outcomes, NEW dp \in Dispatches,
         Cycle(issued, outcome, dp), ~dcache_ready, lsq_dcache_packet_out.what = "load"
  PROVE  lsq_dcache_packet_out' = lsq_dcache_packet_out
<1>1. /\ ld_need_dcache /\ ~(retire_valid /\ (priority_state = 0 \/ ~ld_need_dcache))
      /\ lsq_dcache_packet_out =
           [what |-> "load", access |-> ex_ld.insn.access, tag |-> Tag(LdPlace)]
  BY DEF lsq_dcache_packet_out, NoRequest
<1>2. ~dcache_rd_ready
  BY NoStoreRetires
<1>3. ex_ld_valid /\ ~ld_valid
  BY <1>1, <1>2 DEF ld_valid, ld_need_dcache
<1>4. priority_state' = 1
  BY <1>1, <1>2 DEF Cycle, priority_state_n, LsqInv, LsqTypes
<1>5. ld_need_dcache'
  BY <1>1, <1>3, LoadStillNeeds
<1>6. ex_ld'.insn = ex_ld.insn /\ Tag(LdPlace)' = Tag(LdPlace)
  BY <1>3, LoadStays
<1>7. lsq_dcache_packet_out' =
        [what |-> "load", access |-> ex_ld'.insn.access, tag |-> Tag(LdPlace)']
  BY <1>4, <1>5 DEF lsq_dcache_packet_out
<1>8. QED  BY <1>1, <1>6, <1>7

\* A squash does not come while a store is asked for, and asks for nothing.
LEMMA SquashAsksNothing ==
  ASSUME LsqInv, Squash, ~dcache_ready
  PROVE  lsq_dcache_packet_out.what # "store" /\ lsq_dcache_packet_out'.what = "nothing"
<1>1. lsq_dcache_packet_out.what # "store"
  <2>1. ASSUME lsq_dcache_packet_out.what = "store" PROVE FALSE
    <3>1. retire_valid /\ ~dcache_retire_ready
      BY <2>1 DEF lsq_dcache_packet_out, NoRequest, dcache_retire_ready
    <3>2. retire_disable # {}
      BY <3>1, RetireKnown DEF RetireFacts
    <3>3. QED  BY <3>2 DEF Squash, squash_signal
  <2>2. QED  BY <2>1
<1>2. lsq_dcache_packet_out'.what = "nothing"
  <2>1. window' = <<>> /\ DOMAIN window' = {}
    BY DEF Squash
  <2>2. ~ld_need_dcache'
    BY <2>1 DEF ld_need_dcache, ex_ld_valid, Executing
  <2>3. ~retire_valid'
    BY <2>1 DEF retire_valid, store0, store1, Matches, rt_valid, Complete
  <2>4. QED  BY <2>2, <2>3 DEF lsq_dcache_packet_out, NoRequest
<1>3. QED  BY <1>1, <1>2

\* Until the data cache completes a request, the queue asks for the same again
\* (priority_state in lsq.sv keeps the turn, and the load's older stores do not
\* change), unless a squash takes a load's request away.
THEOREM RequestsStayHolds == Spec => RequestsStay
<1>. DEFINE Kept == lsq_dcache_packet_out.what # "nothing" /\ ~dcache_ready =>
                      \/ lsq_dcache_packet_out' = lsq_dcache_packet_out
                      \/ /\ lsq_dcache_packet_out.what = "load"
                         /\ squash_signal
                         /\ lsq_dcache_packet_out'.what = "nothing"
<1>1. LsqInv /\ LsqInv' /\ [Next]_vars => [Kept]_vars
  <2>. SUFFICES ASSUME LsqInv, LsqInv', Next,
                       lsq_dcache_packet_out.what # "nothing", ~dcache_ready
                PROVE  Kept
    OBVIOUS
  <2>1. lsq_dcache_packet_out.what \in {"load", "store"}
    BY DEF lsq_dcache_packet_out, NoRequest
  <2>2. ASSUME NEW issued \in Issues, NEW outcome \in Outcomes, NEW dp \in Dispatches,
               Cycle(issued, outcome, dp)
        PROVE  lsq_dcache_packet_out' = lsq_dcache_packet_out
    BY <2>1, <2>2, StoreRequestStays, LoadRequestStays
  <2>3. CASE Squash
    BY <2>1, <2>3, SquashAsksNothing DEF Squash
  <2>4. QED  BY <2>2, <2>3 DEF Next
<1>2. QED  BY <1>1, LsqInvariant, PTL DEF Spec, RequestsStay

=============================================================================
