---------------------------- MODULE Execute_proofs ----------------------------
(***************************************************************************)
(* Proofs about the issue stage, the functional units and the complete     *)
(* stage, for every size of the window, every depth of the multiplier and  *)
(* any dependences: that they implement the safety part of FunctionalUnits *)
(* and that every instruction between issue and broadcast has a register   *)
(* of its own.                                                             *)
(***************************************************************************)
EXTENDS Execute, FiniteSetTheorems, SequenceTheorems, TLAPS

Ports == {"alu0", "alu1", "mult", "ld", "st"}
Results == {"alu0", "alu1", "mem"}
Stages == 1 .. NUM_STAGE

\* The tags between the two ends of the window.
InWindow == {(head + k) % WINDOW : k \in 0 .. count - 1}

Entries == [tag : Tags, func : Funcs, waits : Tags \cup {Bubble}]

ExecuteTypes ==
  /\ head \in Tags /\ count \in 0 .. WINDOW
  /\ rs \in Seq(Entries)
  /\ is_ex \in [Ports -> Tags \cup {Bubble}]
  /\ mstage \in [Stages -> Tags \cup {Bubble}]
  /\ ex_cp \in [Results -> Tags \cup {Bubble}]
  /\ complete \in SUBSET Tags

\* Whatever has broadcast has not retired; whatever is in the station has not
\* broadcast, and is in one place of it.
Windowed ==
  /\ complete \subseteq InWindow
  /\ \A i \in DOMAIN rs : rs[i].tag \in InWindow \ complete
  /\ \A i, j \in DOMAIN rs : rs[i].tag = rs[j].tag => i = j

\* The registers hold what executes and nothing else.
HeldExecutes ==
  /\ \A u \in Ports : is_ex[u] # Bubble => is_ex[u] \in Executing
  /\ \A k \in Stages : mstage[k] # Bubble => mstage[k] \in Executing
  /\ \A u \in Results : ex_cp[u] # Bubble => ex_cp[u] \in Executing
ExecutesHeld ==
  \A t \in Executing :
    \/ \E u \in Ports : is_ex[u] = t
    \/ \E k \in Stages : mstage[k] = t
    \/ \E u \in Results : ex_cp[u] = t

\* No two registers hold the same instruction.
Apart ==
  /\ \A u, v \in Ports : is_ex[u] = is_ex[v] /\ is_ex[u] # Bubble => u = v
  /\ \A j, k \in Stages : mstage[j] = mstage[k] /\ mstage[j] # Bubble => j = k
  /\ \A u, v \in Results : ex_cp[u] = ex_cp[v] /\ ex_cp[u] # Bubble => u = v
  /\ \A u \in Ports, k \in Stages : is_ex[u] # Bubble => is_ex[u] # mstage[k]
  /\ \A u \in Ports, v \in Results : is_ex[u] # Bubble => is_ex[u] # ex_cp[v]
  /\ \A k \in Stages, v \in Results : mstage[k] # Bubble => mstage[k] # ex_cp[v]

ExecuteInv == ExecuteTypes /\ Windowed /\ HeldExecutes /\ ExecutesHeld /\ Apart

-----------------------------------------------------------------------------
(* Numbers and small sets                                                  *)

\* The remainder of a sum of tags.
LEMMA Wraps ==
  ASSUME NEW a \in Nat, a < 3 * WINDOW
  PROVE  a % WINDOW = IF a < WINDOW THEN a
                      ELSE IF a < 2 * WINDOW THEN a - WINDOW ELSE a - 2 * WINDOW
  <1> WINDOW \in Nat \ {0}
    BY ExecuteAssumption
  <1>1. CASE a < WINDOW
    BY <1>1
  <1>2. CASE a >= WINDOW /\ a < 2 * WINDOW
    BY <1>2
  <1>3. CASE a >= 2 * WINDOW
    BY <1>3
  <1>4. QED  BY <1>1, <1>2, <1>3

LEMMA TwoMembers == ASSUME NEW x, NEW y, x # y PROVE Cardinality({x, y}) = 2
  <1>1. IsFiniteSet({x}) /\ Cardinality({x}) = 1
    BY FS_Singleton
  <1>2. Cardinality({x} \cup {y}) = 2
    BY <1>1, FS_AddElement
  <1>3. {x, y} = {x} \cup {y}
    OBVIOUS
  <1>4. QED  BY <1>2, <1>3

\* Fewer than two members, or two.
LEMMA FewerThanTwo ==
  ASSUME NEW S, IsFiniteSet(S)
  PROVE  Cardinality(S) < 2 <=> \A x, y \in S : x = y
  <1>1. ASSUME NEW x \in S, NEW y \in S, x # y
        PROVE  Cardinality(S) >= 2
    <2>1. Cardinality({x, y}) = 2
      BY <1>1, TwoMembers
    <2>2. {x, y} \in SUBSET S
      OBVIOUS
    <2>3. QED  BY <2>1, <2>2, FS_Subset, FS_CardinalityType
  <1>2. ASSUME \A x, y \in S : x = y
        PROVE  Cardinality(S) < 2
    <2>1. CASE S = {}
      BY <2>1, FS_EmptySet
    <2>2. CASE S # {}
      <3>1. PICK x \in S : S = {x}
        BY <1>2, <2>2
      <3>2. QED  BY <3>1, FS_Singleton
    <2>3. QED  BY <2>1, <2>2
  <1>3. Cardinality(S) \in Nat
    BY FS_CardinalityType
  <1>4. QED  BY <1>1, <1>2, <1>3

-----------------------------------------------------------------------------
(* The window                                                              *)

\* How many tags lie between h and t, going up.
Age(h, t) == IF t >= h THEN t - h ELSE t - h + WINDOW

LEMMA Ages ==
  ASSUME NEW h \in Tags
  PROVE  /\ \A t \in Tags : Age(h, t) \in Tags
         /\ \A s, t \in Tags : Age(h, s) = Age(h, t) => s = t
         /\ \A k \in Tags : (h + k) % WINDOW \in Tags /\ Age(h, (h + k) % WINDOW) = k
  <1> WINDOW \in Nat \ {0} /\ h \in Nat /\ h < WINDOW
    BY ExecuteAssumption DEF Tags
  <1>1. \A t \in Tags : Age(h, t) \in Tags
    BY DEF Age, Tags
  <1>2. \A s, t \in Tags : Age(h, s) = Age(h, t) => s = t
    BY DEF Age, Tags
  <1>3. ASSUME NEW k \in Tags
        PROVE  (h + k) % WINDOW \in Tags /\ Age(h, (h + k) % WINDOW) = k
    <2>1. (h + k) % WINDOW = IF h + k < WINDOW THEN h + k ELSE h + k - WINDOW
      BY Wraps DEF Tags
    <2>2. QED  BY <2>1 DEF Age, Tags
  <1>4. QED  BY <1>1, <1>2, <1>3

\* The n tags from h on are those with fewer than n before them.
LEMMA Oldests ==
  ASSUME NEW h \in Tags, NEW n \in 0 .. WINDOW, NEW t
  PROVE  t \in {(h + k) % WINDOW : k \in 0 .. n - 1} <=> t \in Tags /\ Age(h, t) < n
  <1> WINDOW \in Nat \ {0}
    BY ExecuteAssumption
  <1>1. 0 .. n - 1 \subseteq Tags
    BY DEF Tags
  <1>2. ASSUME NEW k \in 0 .. n - 1, t = (h + k) % WINDOW
        PROVE  t \in Tags /\ Age(h, t) < n
    BY <1>1, <1>2, Ages
  <1>3. ASSUME t \in Tags, Age(h, t) < n
        PROVE  t \in {(h + k) % WINDOW : k \in 0 .. n - 1}
    <2>1. Age(h, t) \in 0 .. n - 1 /\ Age(h, t) \in Tags
      BY <1>3, Ages DEF Tags
    <2>2. (h + Age(h, t)) % WINDOW \in Tags /\ Age(h, (h + Age(h, t)) % WINDOW) = Age(h, t)
      BY <2>1, Ages
    <2>3. t = (h + Age(h, t)) % WINDOW
      BY <1>3, <2>2, Ages
    <2>4. QED  BY <2>1, <2>3
  <1>4. QED  BY <1>2, <1>3

LEMMA TailTags ==
  ASSUME ExecuteTypes, NEW k \in 1 .. 2, NEW r \in 0 .. 2, r <= count, count - r + k <= WINDOW
  PROVE  /\ TailTag(k) \in Tags
         /\ Age(head, TailTag(k)) = IF count + k - 1 < WINDOW THEN count + k - 1
                              ELSE count + k - 1 - WINDOW
  <1> /\ WINDOW \in Nat \ {0} /\ head \in Nat /\ head < WINDOW /\ count \in Nat /\ count <= WINDOW
    BY ExecuteAssumption DEF ExecuteTypes, Tags
  <1>1. /\ head + count + k - 1 \in Nat
        /\ head + count + k - 1 < 3 * WINDOW
    OBVIOUS
  <1>2. TailTag(k) = IF head + count + k - 1 < WINDOW THEN head + count + k - 1
                     ELSE IF head + count + k - 1 < 2 * WINDOW THEN head + count + k - 1 - WINDOW
                     ELSE head + count + k - 1 - 2 * WINDOW
    BY <1>1, Wraps DEF TailTag
  <1>3. QED  BY <1>2 DEF Age, Tags

Old(r) == {(head + k) % WINDOW : k \in 0 .. r - 1}
Fresh(n) == {TailTag(k) : k \in 1 .. n}

\* r tags leave the window at its old end and n enter at its young one, among
\* them perhaps some of those that leave.
LEMMA WindowMoves ==
  ASSUME ExecuteTypes, NEW r \in 0 .. 2, r <= count, NEW n \in 0 .. 2, count - r + n <= WINDOW,
         head' = (head + r) % WINDOW, count' = count - r + n,
         NEW gone, gone = Old(r)
  PROVE  /\ head' \in Tags /\ count' \in 0 .. WINDOW
         /\ gone \subseteq InWindow /\ InWindow \subseteq Tags
         /\ \A k \in 1 .. n : TailTag(k) \in Tags \ (InWindow \ gone)
         /\ n = 2 => TailTag(1) # TailTag(2)
         /\ InWindow' = (InWindow \ gone) \cup Fresh(n)
  <1> /\ WINDOW \in Nat \ {0} /\ head \in Nat /\ head < WINDOW /\ count \in Nat /\ count <= WINDOW
    BY ExecuteAssumption DEF ExecuteTypes, Tags
  <1>1. head' = IF head + r < WINDOW THEN head + r
                ELSE IF head + r < 2 * WINDOW THEN head + r - WINDOW ELSE head + r - 2 * WINDOW
    BY Wraps
  <1>2. head' \in Tags /\ count' \in 0 .. WINDOW
    BY <1>1 DEF Tags
  <1>3. /\ \A t : t \in InWindow <=> t \in Tags /\ Age(head, t) < count
        /\ \A t : t \in gone <=> t \in Tags /\ Age(head, t) < r
    <2>1. head \in Tags /\ r \in 0 .. WINDOW /\ count \in 0 .. WINDOW
      BY DEF ExecuteTypes
    <2>2. \A t : t \in gone <=> t \in Tags /\ Age(head, t) < r
      BY <2>1, Oldests DEF Old
    <2>3. \A t : t \in InWindow <=> t \in Tags /\ Age(head, t) < count
      BY <2>1, Oldests DEF InWindow
    <2>4. QED  BY <2>2, <2>3
  <1>4. \A t \in Tags : Age(head', t) = IF Age(head, t) >= r THEN Age(head, t) - r ELSE Age(head, t) - r + WINDOW
    BY <1>1 DEF Age, Tags
  <1>5. \A t \in Tags : Age(head, t) \in Nat /\ Age(head, t) < WINDOW
    <2>1. head \in Tags
      BY DEF ExecuteTypes
    <2>2. \A t \in Tags : Age(head, t) \in Tags
      BY <2>1, Ages
    <2>3. QED  BY <2>2 DEF Tags
  <1>6. \A t : t \in InWindow' <=> t \in Tags /\ Age(head', t) < count'
    BY <1>2, Oldests DEF InWindow
  <1>7. \A k \in 1 .. n : /\ TailTag(k) \in Tags
                          /\ Age(head, TailTag(k)) = IF count + k - 1 < WINDOW THEN count + k - 1
                                               ELSE count + k - 1 - WINDOW
    <2> SUFFICES ASSUME NEW k \in 1 .. n
                 PROVE  /\ TailTag(k) \in Tags
                        /\ Age(head, TailTag(k)) = IF count + k - 1 < WINDOW THEN count + k - 1
                                             ELSE count + k - 1 - WINDOW
      OBVIOUS
    <2>1. k \in 1 .. 2 /\ count - r + k <= WINDOW
      OBVIOUS
    <2>2. QED  BY <2>1, TailTags
  <1>8. gone \subseteq InWindow /\ InWindow \subseteq Tags
    <2>1. ASSUME NEW t \in gone
          PROVE  t \in InWindow
      <3>1. t \in Tags /\ Age(head, t) < r
        BY <1>3
      <3>2. Age(head, t) < count
        BY <1>5, <3>1
      <3>3. QED  BY <1>3, <3>1, <3>2
    <2>2. QED  BY <1>3, <2>1
  <1>9. \A k \in 1 .. n : TailTag(k) \in Tags \ (InWindow \ gone)
    <2>1. ASSUME NEW k \in 1 .. n, NEW t, t = TailTag(k), t \in InWindow, t \notin gone
          PROVE  FALSE
      <3>1. t \in Tags /\ Age(head, t) < count /\ ~(Age(head, t) < r)
        BY <1>3, <2>1
      <3>2. Age(head, t) = IF count + k - 1 < WINDOW THEN count + k - 1 ELSE count + k - 1 - WINDOW
        BY <1>7, <2>1
      <3>3. QED  BY <3>1, <3>2
    <2>2. QED  BY <1>7, <2>1
  <1>10. n = 2 => TailTag(1) # TailTag(2)
    BY <1>7
  <1>11. ASSUME NEW t \in InWindow'
         PROVE  t \in (InWindow \ gone) \cup Fresh(n)
    <2> USE DEF Fresh
    <2>1. t \in Tags /\ Age(head', t) < count - r + n
      BY <1>6
    <2>2. CASE t \in InWindow /\ t \notin gone
      BY <2>2
    <2>3. CASE ~(t \in InWindow /\ t \notin gone)
      <3>1. /\ Age(head, t) \in Nat /\ Age(head, t) < WINDOW
            /\ Age(head, t) < r \/ Age(head, t) >= count
            /\ Age(head, t) >= r => Age(head, t) - r < count - r + n
            /\ Age(head, t) < r => Age(head, t) - r + WINDOW < count - r + n
        <4>1. Age(head, t) \in Nat /\ Age(head, t) < WINDOW
          BY <1>5, <2>1
        <4>2. ~(Age(head, t) < count) \/ Age(head, t) < r
          BY <1>3, <2>1, <2>3
        <4>3. Age(head', t) = IF Age(head, t) >= r THEN Age(head, t) - r
                              ELSE Age(head, t) - r + WINDOW
          BY <1>4, <2>1
        <4>4. QED  BY <2>1, <4>1, <4>2, <4>3
      <3>2. PICK k \in 1 .. n : Age(head, t) = IF count + k - 1 < WINDOW THEN count + k - 1
                                               ELSE count + k - 1 - WINDOW
        <4> DEFINE k == IF Age(head, t) >= r THEN Age(head, t) - count + 1
                        ELSE Age(head, t) - count + 1 + WINDOW
        <4>1. k \in 1 .. n
          BY <3>1
        <4>2. Age(head, t) = IF count + k - 1 < WINDOW THEN count + k - 1 ELSE count + k - 1 - WINDOW
          BY <3>1
        <4>3. QED  BY <4>1, <4>2
      <3>3. \A s \in Tags : Age(head, s) = Age(head, t) => s = t
        BY <2>1, Ages DEF ExecuteTypes
      <3>4. t = TailTag(k)
        BY <1>7, <3>2, <3>3
      <3>5. QED  BY <3>4
    <2>4. QED  BY <2>2, <2>3
  <1>12. (InWindow \ gone) \cup Fresh(n) \subseteq InWindow'
    <2>1. ASSUME NEW t \in InWindow \ gone
          PROVE  t \in InWindow'
      BY <1>3, <1>4, <1>5, <1>6
    <2>2. ASSUME NEW k \in 1 .. n, NEW t, t = TailTag(k)
          PROVE  t \in InWindow'
      <3>1. t \in Tags
        BY <1>7, <2>2
      <3>2. Age(head', t) < count'
        BY <1>4, <1>5, <1>7, <2>2, <3>1
      <3>3. QED  BY <1>6, <3>1, <3>2
    <2>3. QED  BY <2>1, <2>2 DEF Fresh
  <1>13. QED  BY <1>2, <1>8, <1>9, <1>10, <1>11, <1>12

-----------------------------------------------------------------------------
(* The complete stage *)

\* A result gets the bus if it is there and no two are before it.
LEMMA Flags ==
  ASSUME NEW k \in 1 .. 4
  PROVE  cdb_in_flag(k) <=>
           /\ fu_rdy[k] # Bubble
           /\ \A i, j \in 1 .. k - 1 : fu_rdy[i] # Bubble /\ fu_rdy[j] # Bubble => i = j
  <1> DEFINE S == {j \in 1 .. k - 1 : fu_rdy[j] # Bubble}
  <1>1. IsFiniteSet(1 .. k - 1) /\ S \in SUBSET (1 .. k - 1)
    BY FS_Interval
  <1>2. IsFiniteSet(S)
    BY <1>1, FS_Subset
  <1>3. Cardinality(S) < 2 <=> \A x, y \in S : x = y
    BY <1>2, FewerThanTwo
  <1>4. QED  BY <1>3 DEF cdb_in_flag

LEMMA Results4 ==
  /\ fu_rdy[1] = mstage[NUM_STAGE] /\ fu_rdy[2] = ex_cp["mem"]
  /\ fu_rdy[3] = ex_cp["alu0"] /\ fu_rdy[4] = ex_cp["alu1"]
  BY DEF fu_rdy

\* No two results are the same instruction.
LEMMA ResultsApart ==
  ASSUME ExecuteInv, NEW i \in 1 .. 4, NEW j \in 1 .. 4, fu_rdy[i] # Bubble, fu_rdy[i] = fu_rdy[j]
  PROVE  i = j
  <1>1. NUM_STAGE \in Stages
    BY ExecuteAssumption DEF Stages
  <1>2. Apart
    BY DEF ExecuteInv
  <1>3. /\ \A u, v \in Results : ex_cp[u] = ex_cp[v] /\ ex_cp[u] # Bubble => u = v
        /\ \A v \in Results : mstage[NUM_STAGE] # Bubble => mstage[NUM_STAGE] # ex_cp[v]
    BY <1>1, <1>2 DEF Apart
  <1>4. QED  BY <1>3, Results4 DEF Results

\* Two results at most broadcast, of instructions that execute; the multiplier's
\* and the memory's always do, and those of the ALUs that do not stall.
LEMMA Bus ==
  ASSUME ExecuteInv
  PROVE  /\ cdb \subseteq Executing
         /\ \E x, y : cdb \subseteq {x, y}
         /\ mstage[NUM_STAGE] # Bubble => mstage[NUM_STAGE] \in cdb
         /\ ex_cp["mem"] # Bubble => ex_cp["mem"] \in cdb
         /\ \A u \in {"alu0", "alu1"} :
              /\ ALU_stall(u) => ex_cp[u] # Bubble
              /\ ex_cp[u] # Bubble => (ex_cp[u] \in cdb <=> ~ALU_stall(u))
         /\ \A t \in cdb : t = mstage[NUM_STAGE] \/ \E u \in Results : t = ex_cp[u]
  <1>1. NUM_STAGE \in Stages
    BY ExecuteAssumption DEF Stages
  <1>2. \A t : t \in cdb <=> \E k \in 1 .. 4 : t = fu_rdy[k] /\ cdb_in_flag(k)
    BY DEF cdb
  <1>3. \A k \in 1 .. 4 : cdb_in_flag(k) => fu_rdy[k] # Bubble
    BY Flags
  <1>4. \A k \in 1 .. 4 : fu_rdy[k] # Bubble => fu_rdy[k] \in Executing
    <2>1. HeldExecutes
      BY DEF ExecuteInv
    <2>2. QED  BY <1>1, <2>1, Results4 DEF HeldExecutes, Results
  <1>5. cdb \subseteq Executing
    BY <1>2, <1>3, <1>4
  <1>6. ~\E i, j, k \in 1 .. 4 :
           i < j /\ j < k /\ cdb_in_flag(i) /\ cdb_in_flag(j) /\ cdb_in_flag(k)
    <2> SUFFICES ASSUME NEW i \in 1 .. 4, NEW j \in 1 .. 4, NEW k \in 1 .. 4, i < j, j < k,
                        cdb_in_flag(i), cdb_in_flag(j), cdb_in_flag(k)
                 PROVE  FALSE
      OBVIOUS
    <2>1. fu_rdy[i] # Bubble /\ fu_rdy[j] # Bubble /\ i \in 1 .. k - 1 /\ j \in 1 .. k - 1
      BY <1>3
    <2>2. QED  BY <2>1, Flags
  <1>7. \E x, y : cdb \subseteq {x, y}
    <2>1. CASE \A x, y \in cdb : x = y
      <3>1. \E x : cdb \subseteq {x, x}
        BY <2>1
      <3>2. QED  BY <3>1
    <2>2. CASE \E x, y \in cdb : x # y
      <3>1. PICK x \in cdb, y \in cdb : x # y
        BY <2>2
      <3>2. ASSUME NEW z \in cdb, z # x, z # y
            PROVE  FALSE
        <4>1. PICK i \in 1 .. 4, j \in 1 .. 4, k \in 1 .. 4 :
                 /\ x = fu_rdy[i] /\ cdb_in_flag(i)
                 /\ y = fu_rdy[j] /\ cdb_in_flag(j)
                 /\ z = fu_rdy[k] /\ cdb_in_flag(k)
          BY <1>2
        <4>2. i # j /\ i # k /\ j # k
          BY <3>1, <3>2, <4>1
        <4>3. QED  BY <1>6, <4>1, <4>2
      <3>3. cdb \subseteq {x, y}
        BY <3>2
      <3>4. QED  BY <3>3
    <2>3. QED  BY <2>1, <2>2
  <1>8. fu_rdy[1] # Bubble => fu_rdy[1] \in cdb
    BY <1>2, Flags
  <1>9. fu_rdy[2] # Bubble => fu_rdy[2] \in cdb
    BY <1>2, Flags
  <1>10. ASSUME NEW u \in {"alu0", "alu1"}, NEW k \in 1 .. 4, ex_cp[u] = fu_rdy[k]
         PROVE  /\ ALU_stall(u) => ex_cp[u] # Bubble
                /\ ex_cp[u] # Bubble => (ex_cp[u] \in cdb <=> ~ALU_stall(u))
    <2>1. ex_cp[u] # Bubble => \A j \in 1 .. 4 : fu_rdy[j] = ex_cp[u] <=> j = k
      BY <1>10, ResultsApart
    <2>2. QED  BY <1>2, <2>1 DEF ALU_stall
  <1>11. \A t \in cdb : t = mstage[NUM_STAGE] \/ \E u \in Results : t = ex_cp[u]
    BY <1>2, Results4 DEF Results
  <1>12. /\ \A u \in {"alu0", "alu1"} : \E k \in 1 .. 4 : ex_cp[u] = fu_rdy[k]
         /\ mstage[NUM_STAGE] = fu_rdy[1] /\ ex_cp["mem"] = fu_rdy[2]
    BY Results4
  <1>13. QED  BY <1>5, <1>7, <1>8, <1>9, <1>10, <1>11, <1>12

-----------------------------------------------------------------------------
(* The issue stage *)

LEMMA EntryTypes ==
  ASSUME ExecuteTypes
  PROVE  /\ DOMAIN rs = 1 .. Len(rs) /\ Len(rs) \in Nat
         /\ \A i \in DOMAIN rs : /\ rs[i].tag \in Tags /\ rs[i].func \in Funcs
                                 /\ rs[i].waits \in Tags \cup {Bubble}
                                 /\ rs[i] \in Entries
  <1>1. rs \in Seq(Entries)
    BY DEF ExecuteTypes
  <1>2. DOMAIN rs = 1 .. Len(rs) /\ Len(rs) \in Nat
    BY <1>1, LenProperties
  <1>3. \A i \in DOMAIN rs : rs[i] \in Entries
    BY <1>1, <1>2, ElementOfSeq
  <1>4. QED  BY <1>2, <1>3 DEF Entries

\* The oldest of some entries is one of them, and there is but one.
LEMMA OldestIsOne ==
  ASSUME NEW S \in SUBSET Nat
  PROVE  /\ Oldest(S) \subseteq S
         /\ \A i, j \in Oldest(S) : i = j
  BY DEF Oldest

\* What the two selectors grant: at most two entries that may be issued, of
\* different units but for two ALUs, and no more ALUs than do not stall.
LEMMA Grants ==
  ASSUME ExecuteTypes, NEW lv \in BOOLEAN
  PROVE  /\ gnt(lv) \subseteq DOMAIN rs
         /\ \/ gnt(lv) = {}
            \/ \E i \in DOMAIN rs : gnt(lv) = {i}
            \/ \E i, j \in DOMAIN rs : i < j /\ gnt(lv) = {i, j}
         /\ \A i \in gnt(lv) :
              /\ req(i, lv)
              /\ rs[i].func = "ALU" => ~ALU0_stall \/ ~ALU1_stall
         /\ \A i, j \in gnt(lv) :
              i # j /\ func_unit(i) = func_unit(j) =>
                func_unit(i) = "ALU" /\ ~ALU0_stall /\ ~ALU1_stall
  <1> DEFINE may == {i \in DOMAIN rs :
                       req(i, lv) /\ ~(func_unit(i) = "ALU" /\ ALU0_stall /\ ALU1_stall)}
             after(i) == {j \in DOMAIN rs \ {i} :
                            req(j, lv) /\ func_unit(j) \notin Masked(func_unit(i))}
  <1>1. DOMAIN rs \subseteq Nat
    BY DEF ExecuteTypes
  <1>2. /\ ps_stage_1(lv) \subseteq may
        /\ \A i, j \in ps_stage_1(lv) : i = j
    <2>1. may \in SUBSET Nat /\ ps_stage_1(lv) = Oldest(may)
      BY <1>1 DEF ps_stage_1
    <2>2. QED  BY <2>1, OldestIsOne
  <1>3. ASSUME NEW i
        PROVE  /\ Oldest(after(i)) \subseteq after(i)
               /\ \A j, k \in Oldest(after(i)) : j = k
    <2>1. after(i) \in SUBSET Nat
      BY <1>1
    <2>2. QED  BY <2>1, OldestIsOne
  <1>4. gnt(lv) = ps_stage_1(lv) \cup UNION {Oldest(after(i)) : i \in ps_stage_1(lv)}
    BY DEF gnt
  <1>5. \A i \in DOMAIN rs : rs[i].func = "ALU" <=> func_unit(i) = "ALU"
    BY DEF func_unit
  <1> HIDE DEF may, after
  <1>6. CASE ps_stage_1(lv) = {}
    BY <1>4, <1>6
  <1>7. ASSUME NEW i \in ps_stage_1(lv)
        PROVE  /\ i \in may
               /\ gnt(lv) = {i} \cup Oldest(after(i))
    BY <1>2, <1>4
  <1>8. ASSUME NEW i \in ps_stage_1(lv), Oldest(after(i)) = {}
        PROVE  gnt(lv) = {i} /\ i \in may
    BY <1>7, <1>8
  <1>9. ASSUME NEW i \in ps_stage_1(lv), NEW j \in Oldest(after(i))
        PROVE  gnt(lv) = {i, j} /\ i \in may /\ j \in after(i)
    BY <1>3, <1>7
  <1>10. ASSUME NEW i, gnt(lv) = {i}, i \in may
         PROVE  /\ i \in DOMAIN rs /\ req(i, lv)
                /\ rs[i].func = "ALU" => ~ALU0_stall \/ ~ALU1_stall
    BY <1>5, <1>10 DEF may
  <1>11. ASSUME NEW i, NEW j, i \in may, j \in after(i)
         PROVE  /\ i \in DOMAIN rs /\ j \in DOMAIN rs /\ i # j
                /\ req(i, lv) /\ req(j, lv)
                /\ rs[i].func = "ALU" => ~ALU0_stall \/ ~ALU1_stall
                /\ rs[j].func = "ALU" => ~ALU0_stall \/ ~ALU1_stall
                /\ func_unit(i) = func_unit(j) =>
                     func_unit(i) = "ALU" /\ ~ALU0_stall /\ ~ALU1_stall
    <2>1. /\ i \in DOMAIN rs /\ j \in DOMAIN rs /\ i # j /\ req(i, lv) /\ req(j, lv)
          /\ func_unit(i) = "ALU" => ~ALU0_stall \/ ~ALU1_stall
          /\ func_unit(j) \notin Masked(func_unit(i))
      BY <1>11 DEF may, after
    <2>2. func_unit(j) = "ALU" => ~ALU0_stall \/ ~ALU1_stall
      BY <2>1 DEF Masked
    <2>3. func_unit(i) = func_unit(j) => func_unit(i) = "ALU" /\ ~ALU0_stall /\ ~ALU1_stall
      BY <2>1 DEF Masked
    <2>4. QED  BY <1>5, <2>1, <2>2, <2>3
  <1>12. CASE \E i \in ps_stage_1(lv) : Oldest(after(i)) = {}
    <2>1. PICK i : gnt(lv) = {i} /\ i \in may
      BY <1>8, <1>12
    <2>2. QED  BY <1>10, <2>1
  <1>13. CASE \E i \in ps_stage_1(lv) : Oldest(after(i)) # {}
    <2>1. PICK i, j : gnt(lv) = {i, j} /\ i \in may /\ j \in after(i)
      BY <1>9, <1>13
    <2>2. /\ i \in DOMAIN rs /\ j \in DOMAIN rs /\ i # j
          /\ i < j \/ j < i
      BY <1>1, <1>11, <2>1
    <2>3. \E k, l \in DOMAIN rs : k < l /\ gnt(lv) = {k, l}
      <3>1. CASE i < j
        BY <2>1, <2>2, <3>1
      <3>2. CASE j < i
        <4>1. gnt(lv) = {j, i}
          BY <2>1
        <4>2. QED  BY <2>2, <3>2, <4>1
      <3>3. QED  BY <2>2, <3>1, <3>2
    <2>4. QED  BY <1>11, <2>1, <2>2, <2>3
  <1>14. QED  BY <1>6, <1>12, <1>13

\* The packet made of the entries of a set of two at most is the older one's.
LEMMA PacketOf ==
  ASSUME ExecuteTypes, NEW S \in SUBSET DOMAIN rs
  PROVE  /\ S = {} => Packet(S) = Bubble
         /\ \A i \in S : S = {i} => Packet(S) = rs[i].tag /\ Oldest(S) = {i}
         /\ \A i, j \in S : i < j /\ S = {i, j} => Packet(S) = rs[i].tag /\ Oldest(S) = {i}
  <1>1. DOMAIN rs \subseteq Nat
    BY DEF ExecuteTypes
  <1>2. S = {} => Packet(S) = Bubble
    BY DEF Packet
  <1>3. ASSUME NEW i \in S, Oldest(S) = {i}
        PROVE  Packet(S) = rs[i].tag
    <2>1. (CHOOSE k \in Oldest(S) : TRUE) = i
      BY <1>3
    <2>2. S # {}
      OBVIOUS
    <2>3. QED  BY <2>1, <2>2 DEF Packet
  <1>4. \A i \in S : S = {i} => Oldest(S) = {i}
    BY <1>1 DEF Oldest
  <1>5. \A i, j \in S : i < j /\ S = {i, j} => Oldest(S) = {i}
    BY <1>1 DEF Oldest
  <1>6. QED  BY <1>2, <1>3, <1>4, <1>5

\* The packets for the units, from the entries granted.
LEMMA PacketsFor ==
  ASSUME ExecuteTypes, NEW lv \in BOOLEAN, NEW free, free = gnt(lv)
  PROVE  /\ \A f \in {"MULT", "LD", "ST"} : \A S :
              S = {i \in free : rs[i].func = f} =>
                /\ S = {} => Packet(S) = Bubble
                /\ \A i \in S : Packet(S) = rs[i].tag
         /\ \/ /\ \A i \in free : rs[i].func # "ALU"
               /\ issue(free).alu0 = Bubble /\ issue(free).alu1 = Bubble
            \/ \E i \in free :
                 /\ \A k \in free : rs[k].func = "ALU" <=> k = i
                 /\ IF ~ALU0_stall
                    THEN issue(free).alu0 = rs[i].tag /\ issue(free).alu1 = Bubble
                    ELSE issue(free).alu0 = Bubble /\ issue(free).alu1 = rs[i].tag
            \/ \E i, j \in free :
                 /\ i # j /\ ~ALU0_stall /\ ~ALU1_stall
                 /\ \A k \in free : rs[k].func = "ALU" <=> k \in {i, j}
                 /\ issue(free).alu0 = rs[i].tag /\ issue(free).alu1 = rs[j].tag
  <1>1. /\ free \subseteq DOMAIN rs
        /\ \/ free = {}
           \/ \E i \in DOMAIN rs : free = {i}
           \/ \E i, j \in DOMAIN rs : i < j /\ free = {i, j}
        /\ \A i, j \in free :
             i # j /\ func_unit(i) = func_unit(j) =>
               func_unit(i) = "ALU" /\ ~ALU0_stall /\ ~ALU1_stall
    BY Grants
  <1>2. DOMAIN rs \subseteq Nat
    BY DEF ExecuteTypes
  <1>3. ASSUME NEW f \in {"MULT", "LD", "ST"}, NEW S, S = {i \in free : rs[i].func = f}
        PROVE  /\ S = {} => Packet(S) = Bubble
               /\ \A i \in S : Packet(S) = rs[i].tag
    <2>1. S \in SUBSET DOMAIN rs
      BY <1>1, <1>3
    <2>2. \A i, j \in S : i = j
      BY <1>1, <1>3 DEF func_unit
    <2>3. \A i \in S : S = {i}
      BY <2>2
    <2>4. QED  BY <2>1, <2>3, PacketOf
  <1> DEFINE alus == {i \in free : rs[i].func = "ALU"}
             both == Cardinality(alus) = 2
  <1>4. /\ issue(free).alu0 = IF both \/ ~ALU0_stall THEN Packet(alus) ELSE Bubble
        /\ issue(free).alu1 = IF both THEN Packet(alus \ Oldest(alus))
                              ELSE IF ALU0_stall THEN Packet(alus) ELSE Bubble
    BY DEF issue
  <1>5. alus \in SUBSET DOMAIN rs
    BY <1>1
  <1>6. CASE alus = {}
    <2>1. ~both
      BY <1>6, FS_EmptySet
    <2>2. Packet(alus) = Bubble
      BY <1>5, <1>6, PacketOf
    <2>3. QED  BY <1>3, <1>4, <1>6, <2>1, <2>2
  <1>7. ASSUME NEW i, alus = {i}
        PROVE  /\ i \in free /\ \A k \in free : rs[k].func = "ALU" <=> k = i
               /\ IF ~ALU0_stall
                  THEN issue(free).alu0 = rs[i].tag /\ issue(free).alu1 = Bubble
                  ELSE issue(free).alu0 = Bubble /\ issue(free).alu1 = rs[i].tag
    <2>1. ~both
      BY <1>7, FS_Singleton
    <2>2. Packet(alus) = rs[i].tag
      BY <1>5, <1>7, PacketOf
    <2>3. QED  BY <1>4, <1>7, <2>1, <2>2
  <1>8. ASSUME NEW i, NEW j, i < j, alus = {i, j}
        PROVE  /\ i \in free /\ j \in free /\ i # j /\ ~ALU0_stall /\ ~ALU1_stall
               /\ \A k \in free : rs[k].func = "ALU" <=> k \in {i, j}
               /\ issue(free).alu0 = rs[i].tag /\ issue(free).alu1 = rs[j].tag
    <2>1. i \in alus /\ j \in alus /\ i # j /\ i \in Nat /\ j \in Nat
      BY <1>2, <1>5, <1>8
    <2>2. ~ALU0_stall /\ ~ALU1_stall
      BY <1>1, <2>1 DEF func_unit
    <2>3. both
      <3>1. Cardinality({i, j}) = 2
        BY <2>1, TwoMembers
      <3>2. QED  BY <1>8, <3>1
    <2>4. Packet(alus) = rs[i].tag /\ Oldest(alus) = {i}
      BY <1>5, <1>8, <2>1, PacketOf
    <2>5. alus \ Oldest(alus) = {j}
      BY <1>8, <2>1, <2>4
    <2>6. Packet(alus \ Oldest(alus)) = rs[j].tag
      BY <1>5, <2>5, PacketOf
    <2>7. QED  BY <1>4, <1>8, <2>1, <2>2, <2>3, <2>4, <2>6
  <1>9. \/ alus = {}
        \/ \E i : alus = {i}
        \/ \E i, j : i < j /\ alus = {i, j}
    <2>1. CASE free = {}
      BY <2>1
    <2>2. CASE \E i \in DOMAIN rs : free = {i}
      BY <2>2
    <2>3. CASE \E i, j \in DOMAIN rs : i < j /\ free = {i, j}
      <3>1. PICK i \in DOMAIN rs, j \in DOMAIN rs : i < j /\ free = {i, j}
        BY <2>3
      <3>2. alus = {} \/ alus = {i} \/ alus = {j} \/ alus = {i, j}
        BY <3>1
      <3>3. QED  BY <3>1, <3>2
    <2>4. QED  BY <1>1, <2>1, <2>2, <2>3
  <1> HIDE DEF alus, both
  <1>10. CASE \E i : alus = {i}
    BY <1>3, <1>7, <1>10
  <1>11. CASE \E i, j : i < j /\ alus = {i, j}
    BY <1>3, <1>8, <1>11
  <1>12. QED  BY <1>3, <1>6, <1>9, <1>10, <1>11

\* Every entry granted goes to one unit, whose register is free for it.
LEMMA Issues ==
  ASSUME ExecuteTypes, Windowed, NEW lv \in BOOLEAN, NEW free, free = gnt(lv),
         NEW issued, issued = issue(free)
  PROVE  /\ \A u \in Ports : issued[u] \in Tags \cup {Bubble}
         /\ \A u \in Ports : issued[u] # Bubble =>
              enabled(u, lv) /\ \E i \in free : issued[u] = rs[i].tag
         /\ \A i \in free : \E u \in Ports : issued[u] = rs[i].tag
         /\ \A u, v \in Ports : issued[u] = issued[v] /\ issued[u] # Bubble => u = v
  <1>1. /\ free \subseteq DOMAIN rs
        /\ \A i \in free :
              /\ req(i, lv)
              /\ rs[i].func = "ALU" => ~ALU0_stall \/ ~ALU1_stall
    BY Grants
  <1>2. /\ \A i \in free : rs[i].tag \in Tags /\ rs[i].func \in Funcs
        /\ \A i, j \in free : rs[i].tag = rs[j].tag => i = j
    <2>1. \A i \in DOMAIN rs : rs[i].tag \in Tags /\ rs[i].func \in Funcs
      BY EntryTypes
    <2>2. \A i, j \in DOMAIN rs : rs[i].tag = rs[j].tag => i = j
      BY DEF Windowed
    <2>3. QED  BY <1>1, <2>1, <2>2
  <1>3. ASSUME NEW f \in {"MULT", "LD", "ST"}, NEW S, S = {i \in free : rs[i].func = f}
        PROVE  /\ \/ Packet(S) = Bubble /\ \A i \in free : rs[i].func # f
                  \/ \E i \in free : rs[i].func = f /\ Packet(S) = rs[i].tag
               /\ \A i \in free : rs[i].func = f => Packet(S) = rs[i].tag
    <2>1. /\ S = {} => Packet(S) = Bubble
          /\ \A i \in S : Packet(S) = rs[i].tag
      BY <1>3, PacketsFor
    <2>2. QED  BY <1>3, <2>1
  <1>4. ASSUME NEW u, NEW f, <<u, f>> \in {<<"mult", "MULT">>, <<"ld", "LD">>, <<"st", "ST">>}
        PROVE  /\ \/ issued[u] = Bubble /\ \A i \in free : rs[i].func # f
                  \/ \E i \in free : rs[i].func = f /\ issued[u] = rs[i].tag
               /\ \A i \in free : rs[i].func = f => issued[u] = rs[i].tag
    <2> DEFINE S == {i \in free : rs[i].func = f}
    <2>1. issued[u] = Packet(S)
      <3>1. CASE u = "mult" /\ f = "MULT"
        BY <3>1 DEF issue
      <3>2. CASE u = "ld" /\ f = "LD"
        BY <3>2 DEF issue
      <3>3. CASE u = "st" /\ f = "ST"
        BY <3>3 DEF issue
      <3>4. QED  BY <1>4, <3>1, <3>2, <3>3
    <2>2. f \in {"MULT", "LD", "ST"}
      BY <1>4
    <2>3. QED  BY <1>3, <2>1, <2>2
  <1>5. \/ /\ \A i \in free : rs[i].func # "ALU"
           /\ issued["alu0"] = Bubble /\ issued["alu1"] = Bubble
        \/ \E i \in free :
             /\ \A k \in free : rs[k].func = "ALU" <=> k = i
             /\ IF ~ALU0_stall
                THEN issued["alu0"] = rs[i].tag /\ issued["alu1"] = Bubble
                ELSE issued["alu0"] = Bubble /\ issued["alu1"] = rs[i].tag
        \/ \E i, j \in free :
             /\ i # j /\ ~ALU0_stall /\ ~ALU1_stall
             /\ \A k \in free : rs[k].func = "ALU" <=> k \in {i, j}
             /\ issued["alu0"] = rs[i].tag /\ issued["alu1"] = rs[j].tag
    <2>1. issued["alu0"] = issue(free).alu0 /\ issued["alu1"] = issue(free).alu1
      OBVIOUS
    <2>2. QED  BY <2>1, PacketsFor
  <1> DEFINE Kind(u) == IF u = "mult" THEN "MULT" ELSE IF u = "ld" THEN "LD"
                        ELSE IF u = "st" THEN "ST" ELSE "ALU"
  <1>6. ASSUME NEW u \in Ports, issued[u] # Bubble
        PROVE  \E i \in free : rs[i].func = Kind(u) /\ issued[u] = rs[i].tag
    <2>1. CASE u \in {"alu0", "alu1"}
      BY <1>5, <1>6, <2>1
    <2>2. CASE u \in {"mult", "ld", "st"}
      BY <1>4, <1>6, <2>2
    <2>3. QED  BY <2>1, <2>2 DEF Ports
  <1>7. ASSUME NEW u \in Ports, issued[u] # Bubble
        PROVE  enabled(u, lv)
    <2>1. CASE u = "alu0"
      BY <1>5, <1>7, <2>1 DEF enabled, ALU0_stall, ALU1_stall
    <2>2. CASE u = "alu1"
      <3>1. ALU0_stall => ~ALU1_stall
        BY <1>1, <1>5, <1>7, <2>2
      <3>2. ~ALU1_stall
        BY <1>5, <1>7, <2>2, <3>1
      <3>3. QED  BY <2>2, <3>2 DEF enabled, ALU1_stall
    <2>3. CASE u = "mult"
      BY <2>3 DEF enabled
    <2>4. CASE u \in {"ld", "st"}
      <3>1. PICK i \in free : rs[i].func = Kind(u)
        BY <1>6, <1>7
      <3>2. QED  BY <1>1, <2>4, <3>1 DEF enabled, req
    <2>5. QED  BY <2>1, <2>2, <2>3, <2>4 DEF Ports
  <1>8. ASSUME NEW i \in free
        PROVE  \E u \in Ports : issued[u] = rs[i].tag
    <2>1. CASE rs[i].func = "ALU"
      BY <1>5, <2>1 DEF Ports
    <2>2. CASE rs[i].func # "ALU"
      <3>1. \E u \in {"mult", "ld", "st"} : issued[u] = rs[i].tag
        BY <1>2, <1>4, <2>2 DEF Funcs
      <3>2. QED  BY <3>1 DEF Ports
    <2>3. QED  BY <2>1, <2>2
  <1>9. ASSUME NEW u \in Ports, NEW v \in Ports, issued[u] = issued[v], issued[u] # Bubble
        PROVE  u = v
    <2>1. Kind(u) = Kind(v)
      BY <1>2, <1>6, <1>9
    <2>2. CASE u \in {"alu0", "alu1"}
      <3>1. v \in {"alu0", "alu1"}
        BY <2>1, <2>2 DEF Ports
      <3>2. QED  BY <1>2, <1>5, <1>9, <2>2, <3>1
    <2>3. CASE u \notin {"alu0", "alu1"}
      BY <2>1, <2>3 DEF Ports
    <2>4. QED  BY <2>2, <2>3
  <1>10. \A u \in Ports : issued[u] \in Tags \cup {Bubble}
    BY <1>2, <1>6
  <1>11. QED  BY <1>6, <1>7, <1>8, <1>9, <1>10

-----------------------------------------------------------------------------
(* The station *)

\* Closing the gaps of two places at most moves every entry that stays to one
\* place, and no two to the same.
LEMMA Gaps ==
  ASSUME NEW n \in Nat, NEW free,
         \/ free = {}
         \/ \E a \in 1 .. n : free = {a}
         \/ \E a, b \in 1 .. n : a < b /\ free = {a, b},
         NEW m, m = n - Cardinality(free)
  PROVE  /\ m \in Nat /\ Cardinality(free) <= 2
         /\ \A k \in 1 .. m : From(k, free) \in (1 .. n) \ free
         /\ \A k, l \in 1 .. m : From(k, free) = From(l, free) => k = l
         /\ \A i \in (1 .. n) \ free : \E k \in 1 .. m : From(k, free) = i
  <1>1. CASE free = {}
    <2>1. m = n /\ Cardinality(free) = 0
      BY <1>1, FS_EmptySet
    <2>2. \A k \in 1 .. m : From(k, free) = k
      BY <1>1 DEF From
    <2>3. QED  BY <1>1, <2>1, <2>2
  <1>2. ASSUME NEW a \in 1 .. n, free = {a}
        PROVE  /\ m \in Nat /\ Cardinality(free) <= 2
               /\ \A k \in 1 .. m : From(k, free) \in (1 .. n) \ free
               /\ \A k, l \in 1 .. m : From(k, free) = From(l, free) => k = l
               /\ \A i \in (1 .. n) \ free : \E k \in 1 .. m : From(k, free) = i
    <2>1. Cardinality(free) = 1 /\ m = n - 1
      BY <1>2, FS_Singleton
    <2>2. \A k \in 1 .. m : From(k, free) = IF a <= k THEN k + 1 ELSE k
      BY <1>2 DEF From
    <2>3. ASSUME NEW i \in (1 .. n) \ free
          PROVE  \E k \in 1 .. m : From(k, free) = i
      <3>1. CASE i < a
        <4>1. i \in 1 .. m /\ From(i, free) = i
          BY <2>1, <2>2, <3>1
        <4>2. QED  BY <4>1
      <3>2. CASE i > a
        <4>1. i - 1 \in 1 .. m /\ From(i - 1, free) = i
          BY <2>1, <2>2, <3>2
        <4>2. QED  BY <4>1
      <3>3. QED  BY <1>2, <3>1, <3>2
    <2>4. QED  BY <1>2, <2>1, <2>2, <2>3
  <1>3. ASSUME NEW a \in 1 .. n, NEW b \in 1 .. n, a < b, free = {a, b}
        PROVE  /\ m \in Nat /\ Cardinality(free) <= 2
               /\ \A k \in 1 .. m : From(k, free) \in (1 .. n) \ free
               /\ \A k, l \in 1 .. m : From(k, free) = From(l, free) => k = l
               /\ \A i \in (1 .. n) \ free : \E k \in 1 .. m : From(k, free) = i
    <2>1. Cardinality(free) = 2 /\ m = n - 2
      <3>1. a # b
        BY <1>3
      <3>2. Cardinality({a, b}) = 2
        BY <3>1, TwoMembers
      <3>3. QED  BY <1>3, <3>2
    <2>2. \A k \in 1 .. m : From(k, free) = IF b <= k + 1 THEN k + 2
                                            ELSE IF a <= k THEN k + 1 ELSE k
      BY <1>3 DEF From
    <2>3. ASSUME NEW i \in (1 .. n) \ free
          PROVE  \E k \in 1 .. m : From(k, free) = i
      <3>1. CASE i < a
        <4>1. i \in 1 .. m /\ From(i, free) = i
          BY <1>3, <2>1, <2>2, <3>1
        <4>2. QED  BY <4>1
      <3>2. CASE i > a /\ i < b
        <4>1. i - 1 \in 1 .. m /\ From(i - 1, free) = i
          BY <1>3, <2>1, <2>2, <3>2
        <4>2. QED  BY <4>1
      <3>3. CASE i > b
        <4>1. i - 2 \in 1 .. m /\ From(i - 2, free) = i
          BY <1>3, <2>1, <2>2, <3>3
        <4>2. QED  BY <4>1
      <3>4. QED  BY <1>3, <3>1, <3>2, <3>3
    <2>4. \A k \in 1 .. m : From(k, free) \in (1 .. n) \ free
      BY <1>3, <2>1, <2>2
    <2>5. \A k, l \in 1 .. m : From(k, free) = From(l, free) => k = l
      BY <1>3, <2>1, <2>2
    <2>6. m \in Nat
      BY <1>3, <2>1
    <2>7. QED  BY <2>1, <2>3, <2>4, <2>5, <2>6
  <1>4. QED  BY <1>1, <1>2, <1>3

\* What is dispatched: two instructions at most, with the tags behind the window.
LEMMA News ==
  ASSUME ExecuteTypes, NEW new \in Dispatched
  PROVE  /\ new \in Seq(Entries) /\ Len(new) \in 0 .. 2
         /\ \A k \in 1 .. Len(new) : new[k].tag = TailTag(k)
  <1> /\ WINDOW \in Nat \ {0} /\ head \in Nat /\ count \in Nat
    BY ExecuteAssumption DEF ExecuteTypes, Tags
  <1>1. \A k \in 1 .. 2 : TailTag(k) \in Tags
    BY DEF TailTag, Tags
  <1>2. InFlight \subseteq Tags
    BY DEF InFlight, Tags
  <1>3. ASSUME NEW k \in 1 .. 2, NEW e \in Insns(k)
        PROVE  e \in Entries /\ e.tag = TailTag(k)
    <2> DEFINE flying == (InFlight \ cdb) \cup (IF k = 2 THEN {TailTag(1)} ELSE {})
               sources == flying \cap {(TailTag(k) - d) % WINDOW : d \in Distances}
    <2>1. flying \subseteq Tags
      BY <1>1, <1>2
    <2>2. sources \subseteq Tags
      BY <2>1
    <2>3. e \in [tag : {TailTag(k)}, func : Funcs, waits : {Bubble} \cup sources]
      BY <1>3 DEF Insns
    <2> HIDE DEF sources
    <2>4. QED  BY <1>1, <2>2, <2>3 DEF Entries
  <1>4. CASE new = <<>>
    BY <1>4
  <1>5. ASSUME NEW e \in Insns(1), new = <<e>>
        PROVE  /\ new \in Seq(Entries) /\ Len(new) \in 0 .. 2
               /\ \A k \in 1 .. Len(new) : new[k].tag = TailTag(k)
    <2>1. e \in Entries /\ e.tag = TailTag(1)
      BY <1>3
    <2>2. QED  BY <1>5, <2>1
  <1>6. ASSUME NEW e \in Insns(1), NEW f \in Insns(2), new = <<e, f>>
        PROVE  /\ new \in Seq(Entries) /\ Len(new) \in 0 .. 2
               /\ \A k \in 1 .. Len(new) : new[k].tag = TailTag(k)
    <2>1. e \in Entries /\ e.tag = TailTag(1) /\ f \in Entries /\ f.tag = TailTag(2)
      BY <1>3
    <2>2. QED  BY <1>6, <2>1
  <1>7. \/ new = <<>>
        \/ \E e \in Insns(1) : new = <<e>>
        \/ \E e \in Insns(1), f \in Insns(2) : new = <<e, f>>
    BY DEF Dispatched
  <1>8. QED  BY <1>4, <1>5, <1>6, <1>7

\* The entries of an old station that stay move to the next one, by at most two
\* places, and p others follow them there.
Follows(n, m, p, free, old, next, tail) ==
  /\ \A k \in 1 .. m : From(k, free) \in (1 .. n) \ free
  /\ \A k, l \in 1 .. m : From(k, free) = From(l, free) => k = l
  /\ \A i \in (1 .. n) \ free : \E k \in 1 .. m : From(k, free) = i
  /\ DOMAIN next = 1 .. m + p
  /\ \A k \in 1 .. m : next[k].tag = old[From(k, free)].tag
  /\ \A k \in 1 .. m : old[From(k, free)].waits = Bubble => next[k].waits = Bubble
  /\ \A k \in 1 .. p : next[m + k].tag = tail[k]
  /\ \A i, j \in 1 .. n : old[i].tag = old[j].tag => i = j
  /\ \A k \in 1 .. p, i \in 1 .. n : tail[k] # old[i].tag
  /\ p = 2 => tail[1] # tail[2]

\* None is lost, none comes twice, and what waited for nothing still does.
LEMMA Following ==
  ASSUME NEW n \in Nat, NEW m \in Nat, NEW p \in 0 .. 2, NEW free,
         NEW old, NEW next, NEW tail, Follows(n, m, p, free, old, next, tail)
  PROVE  /\ \A i, j \in DOMAIN next : next[i].tag = next[j].tag => i = j
         /\ \A i \in DOMAIN next :
              \/ \E j \in (1 .. n) \ free : next[i].tag = old[j].tag
              \/ \E k \in 1 .. p : next[i].tag = tail[k]
         /\ \A j \in (1 .. n) \ free : \E i \in DOMAIN next :
              next[i].tag = old[j].tag /\ (old[j].waits = Bubble => next[i].waits = Bubble)
         /\ \A k \in 1 .. p : \E i \in DOMAIN next : next[i].tag = tail[k]
  <1> USE DEF Follows
  <1>1. /\ \A k \in 1 .. m : k \in DOMAIN next
        /\ \A k \in 1 .. p : m + k \in DOMAIN next
    OBVIOUS
  <1>2. ASSUME NEW i \in DOMAIN next
        PROVE  i \in 1 .. m \/ \E k \in 1 .. p : i = m + k
    <2>1. CASE i > m
      <3>1. i - m \in 1 .. p /\ i = m + (i - m)
        BY <2>1
      <3>2. QED  BY <3>1
    <2>2. QED  BY <2>1
  <1>3. ASSUME NEW i \in DOMAIN next, NEW j \in DOMAIN next, next[i].tag = next[j].tag
        PROVE  i = j
    <2>1. CASE i \in 1 .. m /\ j \in 1 .. m
      BY <1>3, <2>1
    <2>2. ASSUME NEW a \in 1 .. m, NEW k \in 1 .. p
          PROVE  next[a].tag # next[m + k].tag
      <3>1. From(a, free) \in 1 .. n
        OBVIOUS
      <3>2. next[a].tag = old[From(a, free)].tag /\ next[m + k].tag = tail[k]
        OBVIOUS
      <3>3. QED  BY <3>1, <3>2
    <2>3. \A k, l \in 1 .. p : tail[k] = tail[l] => k = l
      <3> SUFFICES ASSUME NEW k \in 1 .. p, NEW l \in 1 .. p, tail[k] = tail[l]
                   PROVE  k = l
        OBVIOUS
      <3>1. k = 1 \/ k = 2
        OBVIOUS
      <3>2. l = 1 \/ l = 2
        OBVIOUS
      <3>3. k = 2 \/ l = 2 => p = 2
        OBVIOUS
      <3>4. QED  BY <3>1, <3>2, <3>3
    <2>4. CASE \E k, l \in 1 .. p : i = m + k /\ j = m + l
      <3>1. PICK k \in 1 .. p, l \in 1 .. p : i = m + k /\ j = m + l
        BY <2>4
      <3>2. next[m + k].tag = tail[k] /\ next[m + l].tag = tail[l]
        OBVIOUS
      <3>3. tail[k] = tail[l]
        BY <1>3, <3>1, <3>2
      <3>4. QED  BY <2>3, <3>1, <3>3
    <2>5. CASE i \in 1 .. m /\ \E l \in 1 .. p : j = m + l
      BY <1>3, <2>2, <2>5
    <2>6. CASE j \in 1 .. m /\ \E k \in 1 .. p : i = m + k
      <3>1. PICK k \in 1 .. p : i = m + k
        BY <2>6
      <3>2. next[j].tag # next[m + k].tag
        BY <2>2, <2>6
      <3>3. QED  BY <1>3, <3>1, <3>2
    <2>7. QED  BY <1>2, <2>1, <2>4, <2>5, <2>6
  <1>4. ASSUME NEW i \in DOMAIN next
        PROVE  \/ \E j \in (1 .. n) \ free : next[i].tag = old[j].tag
               \/ \E k \in 1 .. p : next[i].tag = tail[k]
    <2>1. CASE i \in 1 .. m
      <3>1. From(i, free) \in (1 .. n) \ free /\ next[i].tag = old[From(i, free)].tag
        BY <2>1
      <3>2. QED  BY <3>1
    <2>2. CASE \E k \in 1 .. p : i = m + k
      BY <2>2
    <2>3. QED  BY <1>2, <2>1, <2>2
  <1>5. ASSUME NEW j \in (1 .. n) \ free
        PROVE  \E i \in DOMAIN next :
                 next[i].tag = old[j].tag /\ (old[j].waits = Bubble => next[i].waits = Bubble)
    <2>1. PICK k \in 1 .. m : From(k, free) = j
      OBVIOUS
    <2>2. k \in DOMAIN next /\ next[k].tag = old[j].tag
      BY <1>1, <2>1
    <2>3. old[j].waits = Bubble => next[k].waits = Bubble
      BY <2>1
    <2>4. QED  BY <2>2, <2>3
  <1>6. QED  BY <1>1, <1>3, <1>4, <1>5

Moved(free, new, done) == [i \in DOMAIN (Stay(free) \o new) |-> Awake((Stay(free) \o new)[i], done)]

\* The station after a cycle holds the entries that stayed and the new ones.  What
\* waited for nothing goes on waiting for nothing.
LEMMA StationMoves ==
  ASSUME ExecuteTypes, Windowed, NEW lv \in BOOLEAN, NEW free, free = gnt(lv),
         NEW new \in Dispatched, NEW done,
         rs' = Moved(free, new, done),
         \A k \in 1 .. Len(new), i \in DOMAIN rs : TailTag(k) # rs[i].tag,
         Len(new) = 2 => TailTag(1) # TailTag(2)
  PROVE  /\ rs' \in Seq(Entries)
         /\ \A i, j \in DOMAIN rs' : rs'[i].tag = rs'[j].tag => i = j
         /\ \A i \in DOMAIN rs' :
              \/ \E j \in DOMAIN rs \ free : rs'[i].tag = rs[j].tag
              \/ \E k \in 1 .. Len(new) : rs'[i].tag = TailTag(k)
         /\ \A j \in DOMAIN rs \ free : \E i \in DOMAIN rs' :
              rs'[i].tag = rs[j].tag /\ (rs[j].waits = Bubble => rs'[i].waits = Bubble)
         /\ \A k \in 1 .. Len(new) : \E i \in DOMAIN rs' : rs'[i].tag = TailTag(k)
  <1> DEFINE n == Len(rs)
             m == n - Cardinality(free)
             all == Stay(free) \o new
  <1>1. /\ DOMAIN rs = 1 .. n /\ n \in Nat
        /\ \A i \in DOMAIN rs : rs[i] \in Entries
    BY EntryTypes
  <1>2. /\ m \in Nat
        /\ \A k \in 1 .. m : From(k, free) \in (1 .. n) \ free
        /\ \A k, l \in 1 .. m : From(k, free) = From(l, free) => k = l
        /\ \A i \in (1 .. n) \ free : \E k \in 1 .. m : From(k, free) = i
    <2>1. \/ free = {}
          \/ \E a \in 1 .. n : free = {a}
          \/ \E a, b \in 1 .. n : a < b /\ free = {a, b}
      BY <1>1, Grants
    <2>2. QED  BY <1>1, <2>1, Gaps
  <1>3. /\ new \in Seq(Entries) /\ Len(new) \in 0 .. 2
        /\ \A k \in 1 .. Len(new) : new[k].tag = TailTag(k)
        /\ \A k \in 1 .. Len(new) : new[k] \in Entries
    BY News, ElementOfSeq
  <1> HIDE DEF m
  <1>4. /\ Stay(free) \in Seq(Entries) /\ Len(Stay(free)) = m
        /\ \A k \in 1 .. m : Stay(free)[k] = rs[From(k, free)]
    <2>1. Stay(free) = [k \in 1 .. m |-> rs[From(k, free)]]
      BY DEF Stay, m
    <2>2. QED  BY <1>1, <1>2, <2>1
  <1>5. /\ all \in Seq(Entries) /\ Len(all) = m + Len(new)
        /\ \A k \in 1 .. m : all[k] = rs[From(k, free)]
        /\ \A k \in 1 .. Len(new) : all[m + k] = new[k]
    <2>1. /\ all \in Seq(Entries) /\ Len(all) = m + Len(new)
          /\ \A k \in 1 .. m + Len(new) : all[k] = IF k <= m THEN Stay(free)[k] ELSE new[k - m]
      BY <1>3, <1>4, ConcatProperties
    <2> HIDE DEF all
    <2>2. \A k \in 1 .. m : all[k] = rs[From(k, free)]
      BY <1>2, <1>3, <1>4, <2>1
    <2>3. ASSUME NEW k \in 1 .. Len(new)
          PROVE  all[m + k] = new[k]
      <3>1. m + k \in 1 .. m + Len(new) /\ ~(m + k <= m) /\ (m + k) - m = k
        BY <1>2, <1>3
      <3>2. QED  BY <2>1, <3>1
    <2>4. QED  BY <2>1, <2>2, <2>3
  <1> HIDE DEF all
  <1>6. ASSUME NEW e \in Entries
        PROVE  /\ Awake(e, done) \in Entries /\ Awake(e, done).tag = e.tag
               /\ e.waits = Bubble => Awake(e, done).waits = Bubble
    BY DEF Awake, Entries
  <1>7. /\ DOMAIN rs' = 1 .. m + Len(new)
        /\ \A i \in 1 .. m + Len(new) : rs'[i] = Awake(all[i], done)
        /\ \A i \in 1 .. m + Len(new) : all[i] \in Entries
    <2>1. rs' = [i \in DOMAIN all |-> Awake(all[i], done)]
      BY DEF all, Moved
    <2>2. DOMAIN all = 1 .. m + Len(new) /\ \A i \in 1 .. m + Len(new) : all[i] \in Entries
      BY <1>5, LenProperties, ElementOfSeq
    <2>3. QED  BY <2>1, <2>2
  <1>8. rs' \in Seq(Entries)
    <2>1. rs' = [i \in 1 .. m + Len(new) |-> Awake(all[i], done)]
      BY <1>5, LenProperties DEF all, Moved
    <2>2. \A i \in 1 .. m + Len(new) : Awake(all[i], done) \in Entries
      BY <1>6, <1>7
    <2>3. m + Len(new) \in Nat
      BY <1>2, <1>3
    <2>4. QED  BY <2>1, <2>2, <2>3
  <1>9. ASSUME NEW k \in 1 .. m
        PROVE  /\ rs'[k].tag = rs[From(k, free)].tag
               /\ rs[From(k, free)].waits = Bubble => rs'[k].waits = Bubble
    <2>1. k \in 1 .. m + Len(new) /\ From(k, free) \in DOMAIN rs
      BY <1>1, <1>2, <1>3
    <2>2. rs'[k] = Awake(rs[From(k, free)], done)
      BY <1>5, <1>7, <2>1
    <2>3. QED  BY <1>1, <1>6, <2>1, <2>2
  <1>10. ASSUME NEW k \in 1 .. Len(new)
         PROVE  rs'[m + k].tag = TailTag(k)
    <2>1. m + k \in 1 .. m + Len(new)
      BY <1>2, <1>3
    <2>2. rs'[m + k] = Awake(new[k], done) /\ new[k].tag = TailTag(k)
      BY <1>3, <1>5, <1>7, <2>1
    <2>3. QED  BY <1>3, <1>6, <2>2
  <1> DEFINE tail == [k \in 1 .. 2 |-> TailTag(k)]
  <1>11. \A k \in 1 .. Len(new) : tail[k] = TailTag(k)
    BY <1>3
  <1>12. \A k \in 1 .. Len(new), i \in 1 .. n : tail[k] # rs[i].tag
    BY <1>1, <1>11
  <1>13. Len(new) = 2 => tail[1] # tail[2]
    OBVIOUS
  <1>14. \A i, j \in 1 .. n : rs[i].tag = rs[j].tag => i = j
    BY <1>1 DEF Windowed
  <1>15. \A k \in 1 .. Len(new) : rs'[m + k].tag = tail[k]
    BY <1>10, <1>11
  <1> HIDE DEF tail
  <1>16. /\ \A i, j \in DOMAIN rs' : rs'[i].tag = rs'[j].tag => i = j
         /\ \A i \in DOMAIN rs' :
              \/ \E j \in (1 .. n) \ free : rs'[i].tag = rs[j].tag
              \/ \E k \in 1 .. Len(new) : rs'[i].tag = tail[k]
         /\ \A j \in (1 .. n) \ free : \E i \in DOMAIN rs' :
              rs'[i].tag = rs[j].tag /\ (rs[j].waits = Bubble => rs'[i].waits = Bubble)
         /\ \A k \in 1 .. Len(new) : \E i \in DOMAIN rs' : rs'[i].tag = tail[k]
    <2>1. n \in Nat /\ m \in Nat /\ Len(new) \in 0 .. 2
      BY <1>1, <1>2, <1>3
    <2>2. DOMAIN rs' = 1 .. m + Len(new)
      BY <1>7
    <2>3. /\ \A k \in 1 .. m : rs'[k].tag = rs[From(k, free)].tag
          /\ \A k \in 1 .. m : rs[From(k, free)].waits = Bubble => rs'[k].waits = Bubble
      BY <1>9
    <2> HIDE DEF n
    <2> DEFINE p == Len(new)
    <2>4. Follows(n, m, p, free, rs, rs', tail)
      BY <1>2, <1>12, <1>13, <1>14, <1>15, <2>2, <2>3 DEF Follows
    <2>5. p \in 0 .. 2
      BY <2>1
    <2> HIDE DEF p
    <2>6. /\ \A i, j \in DOMAIN rs' : rs'[i].tag = rs'[j].tag => i = j
          /\ \A i \in DOMAIN rs' :
               \/ \E j \in (1 .. n) \ free : rs'[i].tag = rs[j].tag
               \/ \E k \in 1 .. p : rs'[i].tag = tail[k]
          /\ \A j \in (1 .. n) \ free : \E i \in DOMAIN rs' :
               rs'[i].tag = rs[j].tag /\ (rs[j].waits = Bubble => rs'[i].waits = Bubble)
          /\ \A k \in 1 .. p : \E i \in DOMAIN rs' : rs'[i].tag = tail[k]
      BY <2>1, <2>4, <2>5, Following
    <2>7. QED  BY <2>6 DEF p
  <1>17. DOMAIN rs \ free = (1 .. n) \ free
    BY <1>1
  <1> HIDE DEF n
  <1>18. \A i \in DOMAIN rs' :
           \/ \E j \in DOMAIN rs \ free : rs'[i].tag = rs[j].tag
           \/ \E k \in 1 .. Len(new) : rs'[i].tag = TailTag(k)
    BY <1>11, <1>16, <1>17
  <1>19. \A j \in DOMAIN rs \ free : \E i \in DOMAIN rs' :
           rs'[i].tag = rs[j].tag /\ (rs[j].waits = Bubble => rs'[i].waits = Bubble)
    BY <1>16, <1>17
  <1>20. \A k \in 1 .. Len(new) : \E i \in DOMAIN rs' : rs'[i].tag = TailTag(k)
    BY <1>11, <1>16
  <1>21. QED  BY <1>8, <1>16, <1>18, <1>19, <1>20

-----------------------------------------------------------------------------
(* The window and the station together *)

Leaving(free) == {rs[i].tag : i \in free}
Arriving(new) == Fresh(Len(new))

LEMMA Retiring ==
  ASSUME ExecuteTypes
  PROVE  /\ Retired \in 0 .. 2 /\ Retired <= count
         /\ {(head + k) % WINDOW : k \in 0 .. Retired - 1} \subseteq complete
  <1> DEFINE leaves(k) == k < count /\ (head + k) % WINDOW \in complete
  <1>1. count \in Nat
    BY DEF ExecuteTypes
  <1>2. Retired = IF ~leaves(0) THEN 0 ELSE IF ~leaves(1) THEN 1 ELSE 2
    BY DEF Retired
  <1>3. Retired \in 0 .. 2 /\ Retired <= count
    BY <1>1, <1>2
  <1>4. \A k \in 0 .. Retired - 1 : leaves(k)
    <2>1. \A k \in 0 .. Retired - 1 : (k = 0 /\ Retired > 0) \/ (k = 1 /\ Retired > 1)
      BY <1>3
    <2>2. /\ Retired > 0 => leaves(0)
          /\ Retired > 1 => leaves(0) /\ leaves(1)
      BY <1>2
    <2> HIDE DEF leaves
    <2>3. QED  BY <2>1, <2>2
  <1>5. QED  BY <1>3, <1>4

\* A cycle's effect on what is in flight, in the station and in the units: the
\* issued leave the station for the units, the bus takes from the units, and the
\* dispatched come to the station.
LEMMA Flow ==
  ASSUME ExecuteInv, NEW lv \in BOOLEAN, NEW free, free = gnt(lv),
         NEW new \in Dispatched, Window(free, Retired, new, cdb)
  PROVE  /\ head' \in Tags /\ count' \in 0 .. WINDOW /\ rs' \in Seq(Entries)
         /\ complete' \in SUBSET Tags
         /\ Windowed'
         /\ Leaving(free) \subseteq InStation
         /\ Arriving(new) \subseteq Tags
         /\ Arriving(new) \cap InFlight = {}
         /\ InStation' = (InStation \ Leaving(free)) \cup Arriving(new)
         /\ Executing' = (Executing \ cdb) \cup Leaving(free)
         /\ InFlight' = (InFlight \ cdb) \cup Arriving(new)
         /\ \A j \in DOMAIN rs \ free : \E i \in DOMAIN rs' :
              rs'[i].tag = rs[j].tag /\ (rs[j].waits = Bubble => rs'[i].waits = Bubble)
  <1> DEFINE gone == Old(Retired)
  <1>1. ExecuteTypes /\ Windowed
    BY DEF ExecuteInv
  <1>2. Retired \in 0 .. 2 /\ Retired <= count /\ gone \subseteq complete
    BY <1>1, Retiring DEF Old
  <1>3. Len(new) \in 0 .. 2
    BY <1>1, News
  <1>4. /\ count - Retired + Len(new) <= WINDOW
        /\ head' = (head + Retired) % WINDOW
        /\ count' = count - Retired + Len(new)
        /\ complete' = (complete \ gone) \cup cdb
        /\ rs' = Moved(free, new, cdb)
    BY DEF Window, Moved, Old
  <1>5. /\ head' \in Tags /\ count' \in 0 .. WINDOW
        /\ gone \subseteq InWindow /\ InWindow \subseteq Tags
        /\ \A k \in 1 .. Len(new) : TailTag(k) \in Tags \ (InWindow \ gone)
        /\ Len(new) = 2 => TailTag(1) # TailTag(2)
        /\ InWindow' = (InWindow \ gone) \cup Arriving(new)
    <2> DEFINE r == Retired
               p == Len(new)
    <2>1. gone = Old(r)
      OBVIOUS
    <2>2. /\ r \in 0 .. 2 /\ r <= count /\ p \in 0 .. 2 /\ count - r + p <= WINDOW
          /\ head' = (head + r) % WINDOW /\ count' = count - r + p
      BY <1>2, <1>3, <1>4
    <2> HIDE DEF gone, r, p
    <2>3. /\ head' \in Tags /\ count' \in 0 .. WINDOW
          /\ gone \subseteq InWindow /\ InWindow \subseteq Tags
          /\ \A k \in 1 .. p : TailTag(k) \in Tags \ (InWindow \ gone)
          /\ p = 2 => TailTag(1) # TailTag(2)
          /\ InWindow' = (InWindow \ gone) \cup Fresh(p)
      BY <1>1, <2>1, <2>2, WindowMoves
    <2>4. Arriving(new) = Fresh(p)
      BY DEF Arriving, p
    <2>5. QED  BY <2>3, <2>4 DEF p
  <1> HIDE DEF gone
  <1>6. /\ InFlight = InWindow \ complete
        /\ InFlight' = InWindow' \ complete'
        /\ Executing = InFlight \ InStation
        /\ Executing' = InFlight' \ InStation'
    BY DEF InFlight, InWindow, Executing
  <1>7. /\ cdb \subseteq Executing
        /\ complete \subseteq InWindow
        /\ InStation \subseteq InFlight
    <2>1. cdb \subseteq Executing
      BY Bus
    <2>2. QED  BY <1>1, <1>6, <2>1 DEF Windowed, InStation
  <1>8. free \subseteq DOMAIN rs
    BY <1>1, Grants
  <1>9. Leaving(free) \subseteq InStation
    BY <1>8 DEF Leaving, InStation
  <1>10. Arriving(new) \subseteq Tags /\ Arriving(new) \cap (InWindow \ gone) = {}
    BY <1>5 DEF Arriving, Fresh
  <1>11. /\ \A k \in 1 .. Len(new), i \in DOMAIN rs : TailTag(k) # rs[i].tag
    <2>1. \A i \in DOMAIN rs : rs[i].tag \in InWindow \ gone
      BY <1>1, <1>2 DEF Windowed
    <2>2. QED  BY <1>5, <2>1
  <1>12. /\ rs' \in Seq(Entries)
         /\ \A i, j \in DOMAIN rs' : rs'[i].tag = rs'[j].tag => i = j
         /\ \A i \in DOMAIN rs' :
              \/ \E j \in DOMAIN rs \ free : rs'[i].tag = rs[j].tag
              \/ \E k \in 1 .. Len(new) : rs'[i].tag = TailTag(k)
         /\ \A j \in DOMAIN rs \ free : \E i \in DOMAIN rs' :
              rs'[i].tag = rs[j].tag /\ (rs[j].waits = Bubble => rs'[i].waits = Bubble)
         /\ \A k \in 1 .. Len(new) : \E i \in DOMAIN rs' : rs'[i].tag = TailTag(k)
    BY <1>1, <1>4, <1>5, <1>11, StationMoves
  <1>13. InStation' = (InStation \ Leaving(free)) \cup Arriving(new)
    <2>1. \A t : t \in InStation' <=> \E i \in DOMAIN rs' : t = rs'[i].tag
      BY DEF InStation
    <2>2. \A t : t \in InStation \ Leaving(free) <=> \E j \in DOMAIN rs \ free : t = rs[j].tag
      <3>1. \A i, j \in DOMAIN rs : rs[i].tag = rs[j].tag => i = j
        BY <1>1 DEF Windowed
      <3>2. QED  BY <1>8, <3>1 DEF InStation, Leaving
    <2>3. \A t : t \in Arriving(new) <=> \E k \in 1 .. Len(new) : t = TailTag(k)
      BY DEF Arriving, Fresh
    <2>4. ASSUME NEW t \in InStation'
          PROVE  t \in (InStation \ Leaving(free)) \cup Arriving(new)
      BY <1>12, <2>1, <2>2, <2>3
    <2>5. ASSUME NEW t \in (InStation \ Leaving(free)) \cup Arriving(new)
          PROVE  t \in InStation'
      <3>1. CASE t \in Arriving(new)
        <4>1. PICK k \in 1 .. Len(new) : t = TailTag(k)
          BY <2>3, <3>1
        <4>2. QED  BY <1>12, <2>1, <4>1
      <3>2. CASE t \in InStation \ Leaving(free)
        BY <1>12, <2>1, <2>2, <3>2
      <3>3. QED  BY <2>5, <3>1, <3>2
    <2>6. QED  BY <2>4, <2>5
  <1>14. cdb \subseteq InWindow \ gone /\ cdb \cap InStation = {}
    BY <1>2, <1>6, <1>7
  <1>15. InFlight' = (InFlight \ cdb) \cup Arriving(new)
    BY <1>2, <1>4, <1>5, <1>6, <1>7, <1>10, <1>14
  <1>16. Arriving(new) \cap InFlight = {}
    BY <1>2, <1>6, <1>10
  <1>17. Executing' = (Executing \ cdb) \cup Leaving(free)
    BY <1>6, <1>7, <1>9, <1>13, <1>14, <1>15, <1>16
  <1>18. complete' \in SUBSET Tags
    BY <1>4, <1>5, <1>7, <1>14
  <1>19. Windowed'
    <2>1. complete' \subseteq InWindow'
      BY <1>4, <1>5, <1>7, <1>14
    <2>2. InStation' \subseteq InFlight'
      BY <1>7, <1>13, <1>14, <1>15
    <2>3. \A i \in DOMAIN rs' : rs'[i].tag \in InWindow' \ complete'
      BY <1>6, <2>2 DEF InStation
    <2>4. QED  BY <1>12, <2>1, <2>3 DEF Windowed
  <1>20. QED  BY <1>5, <1>9, <1>10, <1>12, <1>13, <1>15, <1>16, <1>17, <1>18, <1>19

-----------------------------------------------------------------------------
(* The registers of the units *)

\* The next contents of the registers, each on its own, and which may move on.
LEMMA RegistersMove ==
  ASSUME ExecuteTypes, NEW lv \in BOOLEAN, NEW issued, Advance(lv, issued)
  PROVE  /\ \A u \in Ports : is_ex'[u] = IF enabled(u, lv) THEN issued[u] ELSE is_ex[u]
         /\ mstage'[1] = is_ex["mult"]
         /\ \A k \in Stages : k # 1 => k - 1 \in Stages /\ mstage'[k] = mstage[k - 1]
         /\ \A k \in Stages : k # NUM_STAGE => k + 1 \in Stages /\ mstage'[k + 1] = mstage[k]
         /\ ex_cp'["mem"] = IF lv THEN is_ex["ld"] ELSE is_ex["st"]
         /\ \A u \in {"alu0", "alu1"} :
              ex_cp'[u] = IF enabled(u, lv) THEN is_ex[u] ELSE ex_cp[u]
         /\ enabled("mult", lv)
         /\ \A u \in {"alu0", "alu1"} : enabled(u, lv) <=> ~ALU_stall(u)
         /\ lv => enabled("ld", lv) /\ (is_ex["st"] # Bubble => ~enabled("st", lv))
         /\ ~lv => enabled("st", lv) /\ (is_ex["ld"] # Bubble => ~enabled("ld", lv))
         /\ DOMAIN is_ex' = Ports /\ DOMAIN mstage' = Stages /\ DOMAIN ex_cp' = Results
  <1>1. DOMAIN is_ex = Ports /\ DOMAIN ex_cp = Results
    BY DEF ExecuteTypes
  <1>2. /\ is_ex' = [u \in Ports |-> IF enabled(u, lv) THEN issued[u] ELSE is_ex[u]]
        /\ mstage' = [k \in Stages |-> IF k = 1 THEN is_ex["mult"] ELSE mstage[k - 1]]
        /\ ex_cp' = [u \in Results |->
                       IF u = "mem" THEN IF lv THEN is_ex["ld"] ELSE is_ex["st"]
                       ELSE IF enabled(u, lv) THEN is_ex[u] ELSE ex_cp[u]]
    BY <1>1 DEF Advance, Stages
  <1>3. NUM_STAGE \in Nat \ {0} /\ Stages = 1 .. NUM_STAGE
    BY ExecuteAssumption DEF Stages
  <1>4. mstage'[1] = is_ex["mult"]
    <2>1. 1 \in Stages
      BY <1>3
    <2>2. QED  BY <1>2, <2>1
  <1>5. \A k \in Stages : k # 1 => k - 1 \in Stages /\ mstage'[k] = mstage[k - 1]
    BY <1>2, <1>3
  <1>6. \A k \in Stages : k # NUM_STAGE => k + 1 \in Stages /\ mstage'[k + 1] = mstage[k]
    <2> SUFFICES ASSUME NEW k \in Stages, k # NUM_STAGE
                 PROVE  k + 1 \in Stages /\ mstage'[k + 1] = mstage[k]
      OBVIOUS
    <2>1. k + 1 \in Stages /\ k + 1 # 1 /\ (k + 1) - 1 = k
      BY <1>3
    <2>2. QED  BY <1>2, <2>1
  <1>7. /\ ex_cp'["mem"] = IF lv THEN is_ex["ld"] ELSE is_ex["st"]
        /\ \A u \in {"alu0", "alu1"} :
             ex_cp'[u] = IF enabled(u, lv) THEN is_ex[u] ELSE ex_cp[u]
    BY <1>2 DEF Results
  <1>8. /\ enabled("mult", lv)
        /\ \A u \in {"alu0", "alu1"} : enabled(u, lv) <=> ~ALU_stall(u)
        /\ lv => enabled("ld", lv) /\ (is_ex["st"] # Bubble => ~enabled("st", lv))
        /\ ~lv => enabled("st", lv) /\ (is_ex["ld"] # Bubble => ~enabled("ld", lv))
    BY DEF enabled, ld_stall, st_stall
  <1>9. QED  BY <1>2, <1>4, <1>5, <1>6, <1>7, <1>8

\* What the registers hold after a cycle: an instruction issued in it, or what
\* another register, or this one, held, the bus having taken none of that.
LEMMA Origins ==
  ASSUME ExecuteInv, NEW lv \in BOOLEAN, NEW free, free = gnt(lv),
         NEW issued, issued = issue(free), Advance(lv, issued)
  PROVE  /\ \A u \in Ports : is_ex[u] \notin cdb
         /\ \A k \in Stages : mstage[k] \in cdb => k = NUM_STAGE
         /\ \A u \in {"alu0", "alu1"} : ~enabled(u, lv) => ex_cp[u] # Bubble /\ ex_cp[u] \notin cdb
         /\ \A u \in {"alu0", "alu1"} : ex_cp[u] # Bubble /\ ex_cp[u] \notin cdb => ~enabled(u, lv)
  <1>1. Bubble \notin cdb
    <2>1. cdb \subseteq Executing
      BY Bus
    <2>2. Executing \subseteq Tags
      <3>1. \A k \in 0 .. count - 1 : (head + k) % WINDOW \in Tags
        BY ExecuteAssumption DEF ExecuteInv, ExecuteTypes, Tags
      <3>2. QED  BY <3>1 DEF Executing, InFlight
    <2>3. Bubble \notin Tags
      BY DEF Bubble, Tags
    <2>4. QED  BY <2>1, <2>2, <2>3
  <1>2. Apart /\ NUM_STAGE \in Stages
    BY ExecuteAssumption DEF ExecuteInv, Stages
  <1>3. \A t \in cdb : t = mstage[NUM_STAGE] \/ \E u \in Results : t = ex_cp[u]
    BY Bus
  <1>4. \A u \in Ports : is_ex[u] \notin cdb
    BY <1>1, <1>2, <1>3 DEF Apart
  <1>5. \A k \in Stages : mstage[k] \in cdb => k = NUM_STAGE
    BY <1>1, <1>2, <1>3 DEF Apart
  <1>6. \A u \in {"alu0", "alu1"} : enabled(u, lv) <=> ~ALU_stall(u)
    BY DEF enabled
  <1>7. \A u \in {"alu0", "alu1"} :
          /\ ALU_stall(u) => ex_cp[u] # Bubble
          /\ ex_cp[u] # Bubble => (ex_cp[u] \in cdb <=> ~ALU_stall(u))
    BY Bus
  <1>8. QED  BY <1>4, <1>5, <1>6, <1>7

\* After a cycle the registers hold what executes then.
LEMMA HoldingKept ==
  ASSUME ExecuteInv, NEW lv \in BOOLEAN, NEW free, free = gnt(lv),
         NEW issued, issued = issue(free), Advance(lv, issued),
         Executing' = (Executing \ cdb) \cup Leaving(free)
  PROVE  HeldExecutes'
  <1>1. ExecuteTypes /\ Windowed /\ HeldExecutes /\ Apart
    BY DEF ExecuteInv
  <1>2. \A u \in Ports : issued[u] # Bubble => enabled(u, lv) /\ issued[u] \in Leaving(free)
    BY <1>1, Issues DEF Leaving
  <1>3. ASSUME NEW u \in Ports
        PROVE  is_ex[u] # Bubble => is_ex[u] \in Executing \ cdb
    BY <1>1, Origins DEF HeldExecutes
  <1>4. ASSUME NEW u \in Ports, is_ex'[u] # Bubble
        PROVE  is_ex'[u] \in Executing'
    <2>1. is_ex'[u] = IF enabled(u, lv) THEN issued[u] ELSE is_ex[u]
      BY <1>1, RegistersMove
    <2>2. QED  BY <1>2, <1>3, <1>4, <2>1
  <1>5. ASSUME NEW k \in Stages, mstage'[k] # Bubble
        PROVE  mstage'[k] \in Executing'
    <2>1. CASE k = 1
      <3>1. mstage'[k] = is_ex["mult"]
        BY <1>1, <2>1, RegistersMove
      <3>2. QED  BY <1>3, <1>5, <3>1 DEF Ports
    <2>2. CASE k # 1
      <3>1. k - 1 \in Stages /\ mstage'[k] = mstage[k - 1]
        BY <1>1, <2>2, RegistersMove
      <3>2. mstage[k - 1] \notin cdb
        <4>1. k - 1 # NUM_STAGE
          BY ExecuteAssumption DEF Stages
        <4>2. QED  BY <3>1, <4>1, Origins
      <3>3. mstage[k - 1] \in Executing
        BY <1>1, <1>5, <3>1 DEF HeldExecutes
      <3>4. QED  BY <3>1, <3>2, <3>3
    <2>3. QED  BY <2>1, <2>2
  <1>6. ASSUME NEW u \in Results, ex_cp'[u] # Bubble
        PROVE  ex_cp'[u] \in Executing'
    <2>1. CASE u = "mem"
      <3>1. ex_cp'[u] = is_ex["ld"] \/ ex_cp'[u] = is_ex["st"]
        BY <1>1, <2>1, RegistersMove
      <3>2. QED  BY <1>3, <1>6, <3>1 DEF Ports
    <2>2. CASE u \in {"alu0", "alu1"}
      <3>1. ex_cp'[u] = IF enabled(u, lv) THEN is_ex[u] ELSE ex_cp[u]
        BY <1>1, <2>2, RegistersMove
      <3>2. ~enabled(u, lv) => ex_cp[u] # Bubble /\ ex_cp[u] \notin cdb
        BY <2>2, Origins
      <3>3. ex_cp[u] # Bubble => ex_cp[u] \in Executing
        BY <1>1 DEF HeldExecutes
      <3>4. u \in Ports
        BY <2>2 DEF Ports
      <3>5. QED  BY <1>3, <1>6, <3>1, <3>2, <3>3, <3>4
    <2>3. QED  BY <2>1, <2>2 DEF Results
  <1>7. QED  BY <1>4, <1>5, <1>6 DEF HeldExecutes

\* After a cycle everything that executes then is in a register.
LEMMA HeldKept ==
  ASSUME ExecuteInv, NEW lv \in BOOLEAN, NEW free, free = gnt(lv),
         NEW issued, issued = issue(free), Advance(lv, issued),
         Executing' = (Executing \ cdb) \cup Leaving(free)
  PROVE  ExecutesHeld'
  <1> DEFINE Again(t) == \/ \E u \in Ports : is_ex'[u] = t
                         \/ \E k \in Stages : mstage'[k] = t
                         \/ \E u \in Results : ex_cp'[u] = t
  <1>1. ExecuteTypes /\ Windowed /\ HeldExecutes /\ ExecutesHeld
    BY DEF ExecuteInv
  <1>2. Bubble \notin Executing
    <2>1. \A k \in 0 .. count - 1 : (head + k) % WINDOW \in Tags
      BY <1>1, ExecuteAssumption DEF ExecuteTypes, Tags
    <2>2. QED  BY <2>1 DEF Executing, InFlight, Bubble, Tags
  <1>3. ASSUME NEW t \in Leaving(free)
        PROVE  Again(t)
    <2>1. PICK i \in free : t = rs[i].tag
      BY DEF Leaving
    <2>2. PICK u \in Ports : issued[u] = t
      BY <1>1, <2>1, Issues
    <2>3. t \in Tags
      <3>1. i \in DOMAIN rs
        BY <1>1, <2>1, Grants
      <3>2. QED  BY <1>1, <2>1, <3>1, EntryTypes
    <2>4. enabled(u, lv)
      <3>1. issued[u] # Bubble
        BY <2>2, <2>3 DEF Bubble, Tags
      <3>2. QED  BY <1>1, <3>1, Issues
    <2>5. is_ex'[u] = t
      BY <1>1, <2>2, <2>4, RegistersMove
    <2>6. QED  BY <2>5
  <1>4. ASSUME NEW u \in Ports, is_ex[u] \in Executing
        PROVE  Again(is_ex[u])
    <2>1. CASE ~enabled(u, lv)
      <3>1. is_ex'[u] = is_ex[u]
        BY <1>1, <2>1, RegistersMove
      <3>2. QED  BY <3>1
    <2>2. CASE enabled(u, lv) /\ u \in {"alu0", "alu1"}
      <3>1. ex_cp'[u] = is_ex[u] /\ u \in Results
        BY <1>1, <2>2, RegistersMove DEF Results
      <3>2. QED  BY <3>1
    <2>3. CASE u = "mult"
      <3>1. mstage'[1] = is_ex[u] /\ 1 \in Stages
        BY <1>1, <2>3, RegistersMove, ExecuteAssumption DEF Stages
      <3>2. QED  BY <3>1
    <2>4. CASE enabled(u, lv) /\ u \in {"ld", "st"}
      <3>1. is_ex[u] # Bubble
        BY <1>2, <1>4
      <3>2. ex_cp'["mem"] = is_ex[u] /\ "mem" \in Results
        BY <1>1, <2>4, <3>1, RegistersMove DEF Results
      <3>3. QED  BY <3>2
    <2>5. QED  BY <2>1, <2>2, <2>3, <2>4 DEF Ports
  <1>5. ASSUME NEW k \in Stages, mstage[k] \in Executing, mstage[k] \notin cdb
        PROVE  Again(mstage[k])
    <2>1. k # NUM_STAGE
      BY <1>2, <1>5, Bus
    <2>2. k + 1 \in Stages /\ mstage'[k + 1] = mstage[k]
      BY <1>1, <2>1, RegistersMove
    <2>3. QED  BY <2>2
  <1>6. ASSUME NEW u \in Results, ex_cp[u] \in Executing, ex_cp[u] \notin cdb
        PROVE  Again(ex_cp[u])
    <2>1. u \in {"alu0", "alu1"}
      BY <1>2, <1>6, Bus DEF Results
    <2>2. ~enabled(u, lv)
      BY <1>2, <1>6, <2>1, Origins
    <2>3. ex_cp'[u] = ex_cp[u]
      BY <1>1, <2>1, <2>2, RegistersMove
    <2>4. QED  BY <2>3
  <1>7. ASSUME NEW t \in Executing \ cdb
        PROVE  Again(t)
    <2>1. \/ \E u \in Ports : is_ex[u] = t
          \/ \E k \in Stages : mstage[k] = t
          \/ \E u \in Results : ex_cp[u] = t
      BY <1>1 DEF ExecutesHeld
    <2> HIDE DEF Again
    <2>2. QED  BY <1>4, <1>5, <1>6, <2>1
  <1>8. QED  BY <1>3, <1>7 DEF ExecutesHeld

\* After a cycle no two registers hold the same instruction: those issued come
\* from the station, and what was held moves to one register only.
LEMMA ApartKept ==
  ASSUME ExecuteInv, NEW lv \in BOOLEAN, NEW free, free = gnt(lv),
         NEW issued, issued = issue(free), Advance(lv, issued)
  PROVE  Apart'
  <1>1. ExecuteTypes /\ Windowed /\ HeldExecutes /\ Apart
    BY DEF ExecuteInv
  <1>2. ASSUME NEW u \in Ports, issued[u] # Bubble
        PROVE  enabled(u, lv) /\ issued[u] \notin Executing
    <2>1. enabled(u, lv) /\ \E i \in free : issued[u] = rs[i].tag
      BY <1>1, <1>2, Issues
    <2>2. free \subseteq DOMAIN rs
      BY <1>1, Grants
    <2>3. QED  BY <2>1, <2>2 DEF Executing, InStation
  <1>3. \A u, v \in Ports : issued[u] = issued[v] /\ issued[u] # Bubble => u = v
    BY <1>1, Issues
  <1>4. /\ \A u \in Ports : is_ex[u] # Bubble => is_ex[u] \in Executing
        /\ \A k \in Stages : mstage[k] # Bubble => mstage[k] \in Executing
        /\ \A u \in Results : ex_cp[u] # Bubble => ex_cp[u] \in Executing
    BY <1>1 DEF HeldExecutes
  <1>5. \A u \in Ports : is_ex'[u] = IF enabled(u, lv) THEN issued[u] ELSE is_ex[u]
    BY <1>1, RegistersMove
  <1>6. ASSUME NEW k \in Stages
        PROVE  \/ k = 1 /\ mstage'[k] = is_ex["mult"]
               \/ k # 1 /\ k - 1 \in Stages /\ mstage'[k] = mstage[k - 1]
    BY <1>1, RegistersMove
  <1>7. ASSUME NEW v \in Results, ex_cp'[v] # Bubble
        PROVE  \/ v = "mem" /\ \E w \in {"ld", "st"} :
                    enabled(w, lv) /\ ex_cp'[v] = is_ex[w]
               \/ v \in {"alu0", "alu1"} /\ enabled(v, lv) /\ ex_cp'[v] = is_ex[v]
               \/ v \in {"alu0", "alu1"} /\ ~enabled(v, lv) /\ ex_cp'[v] = ex_cp[v]
    <2>1. CASE v = "mem"
      <3>1. /\ ex_cp'["mem"] = IF lv THEN is_ex["ld"] ELSE is_ex["st"]
            /\ lv => enabled("ld", lv)
            /\ ~lv => enabled("st", lv)
        BY <1>1, RegistersMove
      <3>2. QED  BY <2>1, <3>1
    <2>2. CASE v \in {"alu0", "alu1"}
      BY <1>1, <2>2, RegistersMove
    <2>3. QED  BY <2>1, <2>2 DEF Results
  <1>8. ASSUME NEW u \in Ports, NEW v \in Ports, is_ex'[u] = is_ex'[v], is_ex'[u] # Bubble
        PROVE  u = v
    <2>1. CASE enabled(u, lv) /\ enabled(v, lv)
      BY <1>3, <1>5, <1>8, <2>1
    <2>2. CASE ~enabled(u, lv) /\ ~enabled(v, lv)
      BY <1>1, <1>5, <1>8, <2>2 DEF Apart
    <2>3. CASE ~(enabled(u, lv) <=> enabled(v, lv))
      BY <1>2, <1>4, <1>5, <1>8, <2>3
    <2>4. QED  BY <2>1, <2>2, <2>3
  <1>9. ASSUME NEW j \in Stages, NEW k \in Stages, mstage'[j] = mstage'[k], mstage'[j] # Bubble
        PROVE  j = k
    <2>1. "mult" \in Ports
      BY DEF Ports
    <2>2. CASE j # 1 /\ k # 1
      <3>1. j - 1 = k - 1
        BY <1>1, <1>6, <1>9, <2>2 DEF Apart
      <3>2. QED  BY <3>1 DEF Stages
    <2>3. CASE ~(j # 1 /\ k # 1)
      BY <1>1, <1>6, <1>9, <2>1, <2>3 DEF Apart
    <2>4. QED  BY <2>2, <2>3
  <1>10. ASSUME NEW u \in Results, NEW v \in Results, ex_cp'[u] = ex_cp'[v], ex_cp'[u] # Bubble
         PROVE  u = v
    <2>1. /\ \A x, y \in Ports : is_ex[x] = is_ex[y] /\ is_ex[x] # Bubble => x = y
          /\ \A x, y \in Results : ex_cp[x] = ex_cp[y] /\ ex_cp[x] # Bubble => x = y
          /\ \A x \in Ports, y \in Results : is_ex[x] # Bubble => is_ex[x] # ex_cp[y]
      BY <1>1 DEF Apart
    <2>2. {"alu0", "alu1", "ld", "st"} \subseteq Ports /\ {"alu0", "alu1"} \subseteq Results
      BY DEF Ports, Results
    <2>3. ASSUME NEW x \in Results, ex_cp'[x] # Bubble
          PROVE  \/ \E w \in {"ld", "st"} : x = "mem" /\ ex_cp'[x] = is_ex[w]
                 \/ x \in {"alu0", "alu1"} /\ ex_cp'[x] = is_ex[x]
                 \/ x \in {"alu0", "alu1"} /\ ex_cp'[x] = ex_cp[x]
      BY <1>7, <2>3
    <2>4. QED  BY <1>10, <2>1, <2>2, <2>3
  <1>11. ASSUME NEW u \in Ports, NEW k \in Stages, is_ex'[u] # Bubble, is_ex'[u] = mstage'[k]
         PROVE  FALSE
    <2>1. "mult" \in Ports /\ enabled("mult", lv)
      BY <1>1, RegistersMove DEF Ports
    <2>2. mstage'[k] \in Executing
      BY <1>4, <1>6, <1>11, <2>1
    <2>3. ~enabled(u, lv) /\ is_ex'[u] = is_ex[u]
      BY <1>2, <1>5, <1>11, <2>2
    <2>4. u # "mult"
      BY <2>1, <2>3
    <2>5. CASE mstage'[k] = is_ex["mult"]
      BY <1>1, <1>11, <2>1, <2>3, <2>4, <2>5 DEF Apart
    <2>6. CASE k - 1 \in Stages /\ mstage'[k] = mstage[k - 1]
      BY <1>1, <1>11, <2>3, <2>6 DEF Apart
    <2>7. QED  BY <1>6, <2>5, <2>6
  <1>12. ASSUME NEW u \in Ports, NEW v \in Results, is_ex'[u] # Bubble, is_ex'[u] = ex_cp'[v]
         PROVE  FALSE
    <2>1. \/ \E w \in Ports : enabled(w, lv) /\ ex_cp'[v] = is_ex[w]
          \/ ex_cp'[v] = ex_cp[v]
      BY <1>7, <1>12 DEF Ports
    <2>2. ex_cp'[v] \in Executing
      BY <1>4, <1>12, <2>1
    <2>3. ~enabled(u, lv) /\ is_ex'[u] = is_ex[u]
      BY <1>2, <1>5, <1>12, <2>2
    <2>4. QED  BY <1>1, <1>12, <2>1, <2>3 DEF Apart
  <1>13. ASSUME NEW k \in Stages, NEW v \in Results, mstage'[k] # Bubble, mstage'[k] = ex_cp'[v]
         PROVE  FALSE
    <2>1. \/ \E w \in Ports \ {"mult"} : ex_cp'[v] = is_ex[w]
          \/ ex_cp'[v] = ex_cp[v]
      BY <1>7, <1>13 DEF Ports
    <2>2. "mult" \in Ports
      BY DEF Ports
    <2>3. QED  BY <1>1, <1>6, <1>13, <2>1, <2>2 DEF Apart
  <1>14. QED  BY <1>8, <1>9, <1>10, <1>11, <1>12, <1>13 DEF Apart

-----------------------------------------------------------------------------
(* The invariant *)

LEMMA ClockKeeps ==
  ASSUME ExecuteInv, NEW lv \in BOOLEAN, Clock(lv)
  PROVE  ExecuteInv'
  <1> DEFINE free == gnt(lv)
             issued == issue(free)
  <1>1. PICK new \in Dispatched : Window(free, Retired, new, cdb)
    BY DEF Clock
  <1>2. Advance(lv, issued)
    BY DEF Clock
  <1> HIDE DEF free, issued
  <1>3. free = gnt(lv) /\ issued = issue(free)
    BY DEF free, issued
  <1>4. ExecuteTypes /\ Windowed
    BY DEF ExecuteInv
  <1>5. /\ head' \in Tags /\ count' \in 0 .. WINDOW /\ rs' \in Seq(Entries)
        /\ complete' \in SUBSET Tags
        /\ Windowed'
        /\ Executing' = (Executing \ cdb) \cup Leaving(free)
    BY <1>1, <1>3, Flow
  <1>6. HeldExecutes' /\ ExecutesHeld' /\ Apart'
    BY <1>2, <1>3, <1>5, HoldingKept, HeldKept, ApartKept
  <1>7. /\ DOMAIN is_ex = Ports /\ DOMAIN ex_cp = Results
        /\ \A u \in Ports : is_ex[u] \in Tags \cup {Bubble}
        /\ \A k \in Stages : mstage[k] \in Tags \cup {Bubble}
        /\ \A u \in Results : ex_cp[u] \in Tags \cup {Bubble}
        /\ \A u \in Ports : issued[u] \in Tags \cup {Bubble}
    BY <1>3, <1>4, Issues DEF ExecuteTypes
  <1>8. is_ex' \in [Ports -> Tags \cup {Bubble}]
    BY <1>2, <1>7 DEF Advance
  <1>9. mstage' \in [Stages -> Tags \cup {Bubble}]
    <2>1. mstage' = [k \in Stages |-> IF k = 1 THEN is_ex["mult"] ELSE mstage[k - 1]]
      BY <1>2 DEF Advance, Stages
    <2>2. ASSUME NEW k \in Stages
          PROVE  (IF k = 1 THEN is_ex["mult"] ELSE mstage[k - 1]) \in Tags \cup {Bubble}
      <3>1. k # 1 => k - 1 \in Stages
        BY ExecuteAssumption DEF Stages
      <3>2. QED  BY <1>7, <3>1 DEF Ports
    <2>3. QED  BY <2>1, <2>2
  <1>10. ex_cp' \in [Results -> Tags \cup {Bubble}]
    BY <1>2, <1>7 DEF Advance, Results, Ports
  <1>11. QED  BY <1>5, <1>6, <1>8, <1>9, <1>10 DEF ExecuteInv, ExecuteTypes, Tags

LEMMA SquashKeeps ==
  ASSUME ExecuteTypes, Squash
  PROVE  /\ ExecuteInv' /\ InStation' = {} /\ InFlight' = {} /\ Executing' = {}
  <1>1. /\ DOMAIN is_ex = Ports /\ DOMAIN mstage = Stages /\ DOMAIN ex_cp = Results
        /\ 0 \in Tags /\ 0 \in 0 .. WINDOW
    BY ExecuteAssumption DEF ExecuteTypes, Tags
  <1>2. rs' = <<>> /\ DOMAIN rs' = {} /\ <<>> \in Seq(Entries)
    BY DEF Squash
  <1>3. InWindow' = {} /\ InFlight' = {}
    BY DEF Squash, InWindow, InFlight
  <1>4. InStation' = {} /\ Executing' = {}
    BY <1>2, <1>3 DEF InStation, Executing
  <1>5. ExecuteTypes'
    BY <1>1, <1>2 DEF ExecuteTypes, Squash, Tags
  <1>6. Windowed'
    BY <1>2 DEF Windowed, Squash
  <1>7. /\ \A u \in Ports : is_ex'[u] = Bubble
        /\ \A k \in Stages : mstage'[k] = Bubble
        /\ \A u \in Results : ex_cp'[u] = Bubble
    BY <1>1 DEF Squash
  <1>8. HeldExecutes' /\ ExecutesHeld' /\ Apart'
    BY <1>4, <1>7 DEF HeldExecutes, ExecutesHeld, Apart
  <1>9. QED  BY <1>3, <1>4, <1>5, <1>6, <1>8 DEF ExecuteInv

LEMMA Starts ==
  ASSUME ExecuteInit
  PROVE  ExecuteInv /\ InStation = {} /\ Executing = {}
  <1>1. InFlight = {} /\ InStation = {} /\ Executing = {} /\ InWindow = {}
    BY DEF ExecuteInit, InFlight, InStation, Executing, InWindow
  <1>2. ExecuteTypes
    BY ExecuteAssumption DEF ExecuteInit, ExecuteTypes, Tags, Ports, Stages, Results
  <1>3. Windowed
    BY DEF ExecuteInit, Windowed
  <1>4. HeldExecutes /\ ExecutesHeld /\ Apart
    BY <1>1 DEF ExecuteInit, HeldExecutes, ExecutesHeld, Apart, Ports, Stages, Results
  <1>5. QED  BY <1>1, <1>2, <1>3, <1>4 DEF ExecuteInv

LEMMA NextKeeps == ExecuteInv /\ [ExecuteNext]_executeVars => ExecuteInv'
  <1> SUFFICES ASSUME ExecuteInv, [ExecuteNext]_executeVars
               PROVE  ExecuteInv'
    OBVIOUS
  <1>1. ASSUME NEW lv \in BOOLEAN, Clock(lv)
        PROVE  ExecuteInv'
    BY <1>1, ClockKeeps
  <1>2. CASE Squash
    BY <1>2, SquashKeeps DEF ExecuteInv
  <1>3. CASE UNCHANGED executeVars
    <2>1. InWindow' = InWindow /\ InFlight' = InFlight /\ InStation' = InStation
      BY <1>3 DEF executeVars, InWindow, InFlight, InStation
    <2>2. Executing' = Executing
      BY <2>1 DEF Executing
    <2>3. QED  BY <1>3, <2>1, <2>2 DEF executeVars, ExecuteInv, ExecuteTypes, Windowed,
                   HeldExecutes, ExecutesHeld, Apart
  <1>4. QED  BY <1>1, <1>2, <1>3 DEF ExecuteNext

\* The inductive invariant: the station and the window agree, and the registers
\* of the units hold what executes, each once.
THEOREM ExecuteInvariant == ExecuteSpec => []ExecuteInv
  <1>1. ExecuteInit => ExecuteInv
    BY Starts
  <1>2. QED  BY <1>1, NextKeeps, PTL DEF ExecuteSpec

\* Every issued instruction that has not broadcast is in exactly one register of
\* the units, for every window, multiplier and program: the stalls of the ALUs,
\* the load/store queue and the bus lose none and repeat none.
THEOREM InOneUnitHolds == ExecuteSpec => []InOneUnit
  <1>1. ASSUME ExecuteInv
        PROVE  InOneUnit
    <2>1. ExecuteTypes /\ HeldExecutes /\ ExecutesHeld /\ Apart
      BY <1>1 DEF ExecuteInv
    <2>2. UnitRegisters = ({"is_ex"} \X Ports) \cup ({"mstage"} \X Stages) \cup ({"ex_cp"} \X Results)
      BY <2>1 DEF ExecuteTypes, UnitRegisters
    <2>3. /\ \A u \in Ports : Held(<<"is_ex", u>>) = is_ex[u] /\ <<"is_ex", u>> \in UnitRegisters
          /\ \A k \in Stages : Held(<<"mstage", k>>) = mstage[k] /\ <<"mstage", k>> \in UnitRegisters
          /\ \A u \in Results : Held(<<"ex_cp", u>>) = ex_cp[u] /\ <<"ex_cp", u>> \in UnitRegisters
      BY <2>2 DEF Held
    <2>4. ASSUME NEW r \in UnitRegisters
          PROVE  \/ \E u \in Ports : r = <<"is_ex", u>>
                 \/ \E k \in Stages : r = <<"mstage", k>>
                 \/ \E u \in Results : r = <<"ex_cp", u>>
      BY <2>2
    <2>5. ASSUME NEW r \in UnitRegisters, Held(r) # Bubble
          PROVE  Held(r) \in Executing
      BY <2>1, <2>3, <2>4, <2>5 DEF HeldExecutes
    <2>6. ASSUME NEW q \in UnitRegisters, NEW r \in UnitRegisters, Held(q) = Held(r), Held(q) # Bubble
          PROVE  q = r
      BY <2>1, <2>3, <2>4, <2>6 DEF Apart
    <2>7. ASSUME NEW t \in Executing
          PROVE  \E r \in UnitRegisters : Held(r) = t
      BY <2>1, <2>3 DEF ExecutesHeld
    <2>8. Bubble \notin Tags
      BY DEF Bubble, Tags
    <2>9. ASSUME NEW t \in Tags, t \in Executing
          PROVE  \E r \in UnitRegisters : {q \in UnitRegisters : Held(q) = t} = {r}
      <3>1. PICK r \in UnitRegisters : Held(r) = t
        BY <2>7, <2>9
      <3>2. \A q \in UnitRegisters : Held(q) = t => q = r
        BY <2>6, <2>8, <3>1
      <3>3. QED  BY <3>1, <3>2
    <2>10. ASSUME NEW t \in Tags, t \notin Executing
           PROVE  {r \in UnitRegisters : Held(r) = t} = {}
      BY <2>5, <2>8, <2>10
    <2>11. QED  BY <2>9, <2>10 DEF InOneUnit
  <1>2. QED  BY <1>1, ExecuteInvariant, PTL

-----------------------------------------------------------------------------
(* The refinement *)

\* A clock edge is a cycle of the functional units as Core sees them.
LEMMA ClockIsUnitsStep ==
  ASSUME ExecuteInv, NEW lv \in BOOLEAN, Clock(lv)
  PROVE  Units!UnitsStep
  <1> DEFINE free == gnt(lv)
             waiting == InStation
             ready == {rs[i].tag : i \in {j \in DOMAIN rs : rs[j].waits = Bubble}}
             executing == Executing
  <1>1. PICK new \in Dispatched : Window(free, Retired, new, cdb)
    BY DEF Clock
  <1> HIDE DEF free
  <1>2. free = gnt(lv)
    BY DEF free
  <1>3. ExecuteTypes /\ Windowed
    BY DEF ExecuteInv
  <1>4. /\ rs' \in Seq(Entries)
        /\ Leaving(free) \subseteq InStation
        /\ Arriving(new) \subseteq Tags
        /\ Arriving(new) \cap InFlight = {}
        /\ InStation' = (InStation \ Leaving(free)) \cup Arriving(new)
        /\ Executing' = (Executing \ cdb) \cup Leaving(free)
        /\ \A j \in DOMAIN rs \ free : \E i \in DOMAIN rs' :
             rs'[i].tag = rs[j].tag /\ (rs[j].waits = Bubble => rs'[i].waits = Bubble)
    BY <1>1, <1>2, Flow
  <1>5. InStation \subseteq InFlight /\ Executing = InFlight \ InStation
    <2>1. InFlight = InWindow \ complete
      BY DEF InFlight, InWindow
    <2>2. QED  BY <1>3, <2>1 DEF Windowed, InStation, Executing
  <1>6. InFlight \subseteq Tags
    BY ExecuteAssumption, <1>3 DEF InFlight, ExecuteTypes, Tags
  <1>7. cdb \subseteq Executing
    BY Bus
  <1>8. /\ waiting \ waiting' = Leaving(free)
        /\ waiting' \ waiting = Arriving(new)
        /\ executing \ executing' = cdb
        /\ executing' \ executing = Leaving(free)
        /\ Arriving(new) \cap executing = {}
    BY <1>4, <1>5, <1>7
  <1>9. waiting' \in SUBSET Tags /\ executing' \in SUBSET Tags
    BY <1>4, <1>5, <1>6
  <1>10. ready' \in SUBSET waiting'
    BY DEF InStation
  <1>11. Units!AtMostTwo(Leaving(free))
    <2>1. \E a, b : free \subseteq {a, b}
      BY <1>2, <1>3, Grants
    <2>2. PICK a, b : free \subseteq {a, b}
      BY <2>1
    <2>3. Leaving(free) \subseteq {rs[a].tag, rs[b].tag}
      BY <2>2 DEF Leaving
    <2>4. QED  BY <2>3 DEF Units!AtMostTwo
  <1>12. Units!AtMostTwo(Arriving(new))
    <2>1. ASSUME NEW t \in Arriving(new)
          PROVE  t = TailTag(1) \/ t = TailTag(2)
      <3> DEFINE p == Len(new)
      <3>1. p \in 0 .. 2
        BY <1>3, News
      <3>2. PICK k \in 1 .. p : t = TailTag(k)
        BY DEF Arriving, Fresh
      <3> HIDE DEF p
      <3>3. k = 1 \/ k = 2
        BY <3>1
      <3>4. QED  BY <3>2, <3>3
    <2>2. QED  BY <2>1 DEF Units!AtMostTwo
  <1>13. Units!AtMostTwo(cdb)
    BY Bus DEF Units!AtMostTwo
  <1>14. Leaving(free) \subseteq ready
    <2>1. \A i \in free : i \in DOMAIN rs /\ rs[i].waits = Bubble
      BY <1>2, <1>3, Grants DEF req
    <2>2. QED  BY <2>1 DEF Leaving
  <1>15. ready \ Leaving(free) \subseteq ready'
    <2> SUFFICES ASSUME NEW t \in ready, t \notin Leaving(free)
                 PROVE  t \in ready'
      OBVIOUS
    <2>1. PICK j \in DOMAIN rs : t = rs[j].tag /\ rs[j].waits = Bubble
      OBVIOUS
    <2>2. j \notin free
      BY <2>1 DEF Leaving
    <2>3. PICK i \in DOMAIN rs' : rs'[i].tag = rs[j].tag /\ rs'[i].waits = Bubble
      BY <1>4, <2>1, <2>2
    <2>4. QED  BY <2>1, <2>3
  <1> HIDE DEF waiting, ready, executing
  <1>16. /\ Units!AtMostTwo(waiting \ waiting')
         /\ Units!AtMostTwo(waiting' \ waiting)
         /\ Units!AtMostTwo(executing \ executing')
    BY <1>8, <1>11, <1>12, <1>13
  <1>17. /\ waiting \ waiting' \subseteq ready
         /\ waiting \ waiting' = executing' \ executing
         /\ (waiting' \ waiting) \cap executing = {}
         /\ ready \ (waiting \ waiting') \subseteq ready'
    BY <1>8, <1>14, <1>15
  <1>18. QED
    BY <1>9, <1>10, <1>16, <1>17
       DEF Units!UnitsStep, waiting, ready, executing

\* The issue stage, the functional units and the complete stage keep the promises
\* Core takes for granted: what is issued waits for nothing, is issued once, two in a
\* cycle at most, and broadcasts once, two in a cycle at most.
THEOREM SafeUnitsHolds == ExecuteSpec => SafeUnits
  <1> USE DEF SafeUnits, Units!SafeUnits
  <1>1. ExecuteInit => Units!UnitsInit
    <2> SUFFICES ASSUME ExecuteInit PROVE Units!UnitsInit
      OBVIOUS
    <2>1. InStation = {} /\ Executing = {}
      BY Starts
    <2>2. {rs[i].tag : i \in {j \in DOMAIN rs : rs[j].waits = Bubble}} \subseteq InStation
      BY DEF InStation
    <2>3. QED  BY <2>1, <2>2 DEF Units!UnitsInit
  <1>2. ExecuteInv /\ [ExecuteNext]_executeVars => [Units!UnitsNext]_(Units!unitVars)
    <2> SUFFICES ASSUME ExecuteInv, [ExecuteNext]_executeVars
                 PROVE  [Units!UnitsNext]_(Units!unitVars)
      OBVIOUS
    <2>1. ASSUME NEW lv \in BOOLEAN, Clock(lv)
          PROVE  Units!UnitsNext
      BY <2>1, ClockIsUnitsStep DEF Units!UnitsNext
    <2>2. CASE Squash
      <3>1. InStation' = {} /\ Executing' = {}
        BY <2>2, SquashKeeps DEF ExecuteInv
      <3>2. {rs[i].tag : i \in {j \in DOMAIN rs : rs[j].waits = Bubble}}' \subseteq InStation'
        BY DEF InStation
      <3>3. QED  BY <3>1, <3>2 DEF Units!UnitsNext, Units!UnitsSquash
    <2>3. CASE UNCHANGED executeVars
      <3>1. InStation' = InStation /\ InFlight' = InFlight
        BY <2>3 DEF executeVars, InStation, InFlight
      <3>2. QED  BY <2>3, <3>1 DEF executeVars, Executing, Units!unitVars
    <2>4. QED  BY <2>1, <2>2, <2>3 DEF ExecuteNext
  <1>3. QED  BY <1>1, <1>2, ExecuteInvariant, PTL DEF ExecuteSpec
===============================================================================
