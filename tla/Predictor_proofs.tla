-------------------------- MODULE Predictor_proofs --------------------------
(***************************************************************************)
(* Proofs about Predictor, for every size of its tables and of the stack,  *)
(* and every program.                                                      *)
(***************************************************************************)
EXTENDS Predictor, SequenceTheorems, TLAPS

-----------------------------------------------------------------------------
(* The stack of return addresses.                                          *)

\* ReturnsMatchCalls, with what it takes to stay true.
StackInv ==
  /\ ptr \in 0 .. RAS_SIZE - 1
  /\ mem \in [0 .. RAS_SIZE - 1 -> Int]
  /\ calls \in Seq(Int)
  /\ Len(calls) <= RAS_SIZE
  /\ ReturnsMatchCalls

LEMMA PlusIsInt == \A pc \in PCs, k \in Nat : Plus(pc, k) \in Int
  BY TargetsAssumption, SMT DEF PCs, Plus

LEMMA LinkIsPC == \A pc \in PCs : link_pc(pc) \in PCs
  BY TargetsAssumption, SMT DEF PCs, Plus, link_pc, if_pc

\* The stack is empty at first.
LEMMA StackStarts == TargetsInit => StackInv
  BY TargetsAssumption, SMT DEF TargetsInit, StackInv, ReturnsMatchCalls

\* Places in a sequence of n elements that loses its first (l = 1) or none, and
\* gets one more.
LEMMA PlacesAfterPush ==
  ASSUME NEW n \in Nat, NEW l \in {0, 1}, NEW k \in 2 .. n + 1 - l
  PROVE  /\ k - 1 \in 1 .. n
         /\ n + 1 - l + 1 - k \in 1 .. n - l
         /\ n + 1 - l + 1 - k + l = n + 1 - (k - 1)
<1>1. k \in Int /\ k >= 2 /\ k <= n + 1 - l
  BY SMT
<1>. QED  BY <1>1, SMT

\* What an element appended leaves: x last, and the k-th from the end is what was
\* one place nearer to it in s, of which kept has all, or all but the first.
LEMMA AppendFacts ==
  ASSUME NEW s \in Seq(Int), NEW x \in Int, NEW l \in {0, 1},
         NEW kept \in Seq(Int), Len(kept) = Len(s) - l,
         \A m \in 1 .. Len(kept) : kept[m] = s[m + l]
  PROVE  /\ Append(kept, x) \in Seq(Int)
         /\ Len(Append(kept, x)) = Len(s) + 1 - l
         /\ Append(kept, x)[Len(s) + 1 - l] = x
         /\ \A k \in 2 .. Len(s) + 1 - l :
              /\ k - 1 \in 1 .. Len(s)
              /\ Append(kept, x)[Len(s) + 1 - l + 1 - k] = s[Len(s) + 1 - (k - 1)]
<1>. DEFINE t == Append(kept, x)
<1>1. /\ t \in Seq(Int)
      /\ Len(t) = Len(kept) + 1
      /\ \A i \in 1 .. Len(kept) : t[i] = kept[i]
      /\ t[Len(kept) + 1] = x
  BY AppendProperties
<1>. HIDE DEF t
<1>2. Len(s) \in Nat
  BY LenProperties, Zenon
<1>3. Len(kept) + 1 = Len(s) + 1 - l
  BY <1>2, SMT
<1>4. ASSUME NEW k \in 2 .. Len(s) + 1 - l
      PROVE  /\ k - 1 \in 1 .. Len(s)
             /\ t[Len(s) + 1 - l + 1 - k] = s[Len(s) + 1 - (k - 1)]
  <2>. DEFINE m == Len(s) + 1 - l + 1 - k
  <2>1. /\ k - 1 \in 1 .. Len(s)
        /\ m \in 1 .. Len(kept)
        /\ m + l = Len(s) + 1 - (k - 1)
    BY <1>2, PlacesAfterPush, Zenon
  <2>. HIDE DEF m
  <2>2. t[m] = s[m + l]
    BY <1>1, <2>1, Zenon
  <2>. QED  BY <2>1, <2>2, Zenon DEF m
<1>. QED  BY <1>1, <1>3, <1>4, Zenon DEF t

\* A push on a stack of at most r elements, which forgets its oldest, and a pop.
Pushed(s, x, r) == Append(IF Len(s) = r THEN Tail(s) ELSE s, x)
Popped(s) == IF Len(s) > 0 THEN SubSeq(s, 1, Len(s) - 1) ELSE s

LEMMA PushFacts ==
  ASSUME NEW s \in Seq(Int), NEW x \in Int, NEW r \in Nat \ {0}, Len(s) <= r
  PROVE  /\ Pushed(s, x, r) \in Seq(Int)
         /\ Len(Pushed(s, x, r)) \in 1 .. r
         /\ Pushed(s, x, r)[Len(Pushed(s, x, r))] = x
         /\ \A k \in 2 .. Len(Pushed(s, x, r)) :
              /\ k - 1 \in 1 .. Len(s)
              /\ Pushed(s, x, r)[Len(Pushed(s, x, r)) + 1 - k] = s[Len(s) + 1 - (k - 1)]
<1>. Len(s) \in Nat
  BY LenProperties, Zenon
<1>1. CASE Len(s) = r
  <2>1. /\ s # << >>
        /\ Len(s) + 1 - 1 \in 1 .. r
    BY <1>1, EmptySeq, SMT
  <2>2. /\ Tail(s) \in Seq(Int)
        /\ Len(Tail(s)) = Len(s) - 1
        /\ \A m \in 1 .. Len(Tail(s)) : Tail(s)[m] = s[m + 1]
    BY <2>1, HeadTailProperties, Zenon
  <2>3. Pushed(s, x, r) = Append(Tail(s), x)
    BY <1>1, Zenon DEF Pushed
  <2>4. 1 \in {0, 1}
    OBVIOUS
  <2>5. /\ Append(Tail(s), x) \in Seq(Int)
        /\ Len(Append(Tail(s), x)) = Len(s) + 1 - 1
        /\ Append(Tail(s), x)[Len(s) + 1 - 1] = x
        /\ \A k \in 2 .. Len(s) + 1 - 1 :
             /\ k - 1 \in 1 .. Len(s)
             /\ Append(Tail(s), x)[Len(s) + 1 - 1 + 1 - k] = s[Len(s) + 1 - (k - 1)]
    BY <2>2, <2>4, AppendFacts
  <2>. QED  BY <2>1, <2>3, <2>5, Zenon
<1>2. CASE Len(s) # r
  <2>1. /\ Len(s) = Len(s) - 0 /\ \A m \in 1 .. Len(s) : s[m] = s[m + 0]
        /\ Len(s) + 1 - 0 \in 1 .. r
    BY <1>2, SMT
  <2>2. Pushed(s, x, r) = Append(s, x)
    BY <1>2, Zenon DEF Pushed
  <2>3. 0 \in {0, 1}
    OBVIOUS
  <2>4. /\ Append(s, x) \in Seq(Int)
        /\ Len(Append(s, x)) = Len(s) + 1 - 0
        /\ Append(s, x)[Len(s) + 1 - 0] = x
        /\ \A k \in 2 .. Len(s) + 1 - 0 :
             /\ k - 1 \in 1 .. Len(s)
             /\ Append(s, x)[Len(s) + 1 - 0 + 1 - k] = s[Len(s) + 1 - (k - 1)]
    BY <2>1, <2>3, AppendFacts
  <2>. QED  BY <2>1, <2>2, <2>4, Zenon
<1>. QED  BY <1>1, <1>2, Zenon

\* What a pop leaves: the k-th from the end is what was one place further.
LEMMA PopFacts ==
  ASSUME NEW s \in Seq(Int)
  PROVE  /\ Popped(s) \in Seq(Int)
         /\ Len(Popped(s)) <= Len(s)
         /\ \A k \in 1 .. Len(Popped(s)) :
              /\ k + 1 \in 1 .. Len(s)
              /\ Popped(s)[Len(Popped(s)) + 1 - k] = s[Len(s) + 1 - (k + 1)]
<1>. Len(s) \in Nat
  BY LenProperties, Zenon
<1>1. CASE Len(s) > 0
  <2>1. PICK n \in Nat : Len(s) = n + 1 /\ n = Len(s) - 1
    BY <1>1, SMT
  <2>2. Popped(s) = SubSeq(s, 1, n)
    BY <1>1, <2>1, Zenon DEF Popped
  <2>3. 1 \in Int /\ n \in Int /\ \A i \in 1 .. n : i \in 1 .. Len(s)
    BY <2>1, SMT
  <2>4. \A i \in 1 .. n : s[i] \in Int
    BY <2>3, LenProperties, SMT
  <2>5. /\ SubSeq(s, 1, n) \in Seq(Int)
        /\ Len(SubSeq(s, 1, n)) = IF 1 <= n THEN n - 1 + 1 ELSE 0
        /\ \A i \in 1 .. n - 1 + 1 : SubSeq(s, 1, n)[i] = s[1 + i - 1]
    BY <2>3, <2>4, SubSeqProperties
  <2>6. n = IF 1 <= n THEN n - 1 + 1 ELSE 0
    BY SMT
  <2>7. Len(SubSeq(s, 1, n)) = n
    BY <2>5, <2>6
  <2>8. ASSUME NEW k \in 1 .. n
        PROVE  /\ k + 1 \in 1 .. n + 1
               /\ n + 1 - k \in 1 .. n - 1 + 1
               /\ 1 + (n + 1 - k) - 1 = n + 1 + 1 - (k + 1)
    BY SMT
  <2>9. n <= n + 1
    BY SMT
  <2>. QED  BY <2>1, <2>2, <2>5, <2>7, <2>8, <2>9
<1>2. CASE ~(Len(s) > 0)
  <2>1. Len(s) = 0 /\ 1 .. 0 = {} /\ 0 <= 0
    BY <1>2, SMT
  <2>2. Popped(s) = s
    BY <1>2, Zenon DEF Popped
  <2>. QED  BY <2>1, <2>2, Zenon
<1>. QED  BY <1>1, <1>2, Zenon

\* A call puts its return address on top and moves every other one place down.
\* The one that leaves at the bottom is overwritten.
LEMMA CallKeeps ==
  ASSUME StackInv, NEW x \in Int,
         ptr' = ptr_plus_1,
         mem' = [mem EXCEPT ![ptr] = x],
         calls' = Append(IF Len(calls) = RAS_SIZE THEN Tail(calls) ELSE calls, x)
  PROVE  StackInv'
<1>. RAS_SIZE \in Nat \ {0}
  BY TargetsAssumption
<1>1. /\ ptr' \in 0 .. RAS_SIZE - 1
      /\ mem' \in [0 .. RAS_SIZE - 1 -> Int]
  BY SMT DEF StackInv, ptr_plus_1
<1>2. /\ calls' \in Seq(Int)
      /\ Len(calls') <= RAS_SIZE
      /\ Len(calls') >= 1
      /\ calls'[Len(calls')] = x
      /\ \A k \in 2 .. Len(calls') :
           /\ k - 1 \in 1 .. Len(calls)
           /\ calls'[Len(calls') + 1 - k] = calls[Len(calls) + 1 - (k - 1)]
  <2>1. calls \in Seq(Int) /\ Len(calls) <= RAS_SIZE
    BY DEF StackInv
  <2>2. calls' = Pushed(calls, x, RAS_SIZE)
    BY Zenon DEF Pushed
  <2>3. Len(calls') \in 1 .. RAS_SIZE => Len(calls') <= RAS_SIZE /\ Len(calls') >= 1
    BY SMT
  <2>4. /\ Pushed(calls, x, RAS_SIZE) \in Seq(Int)
        /\ Len(Pushed(calls, x, RAS_SIZE)) \in 1 .. RAS_SIZE
        /\ Pushed(calls, x, RAS_SIZE)[Len(Pushed(calls, x, RAS_SIZE))] = x
        /\ \A k \in 2 .. Len(Pushed(calls, x, RAS_SIZE)) :
             /\ k - 1 \in 1 .. Len(calls)
             /\ Pushed(calls, x, RAS_SIZE)[Len(Pushed(calls, x, RAS_SIZE)) + 1 - k]
                  = calls[Len(calls) + 1 - (k - 1)]
    BY <2>1, PushFacts
  <2>. QED  BY <2>2, <2>3, <2>4, Zenon
<1>3. ReturnsMatchCalls'
  <2>. SUFFICES ASSUME NEW k \in 1 .. Len(calls')
                PROVE  mem'[Below(k)'] = calls'[Len(calls') + 1 - k]
    BY DEF ReturnsMatchCalls
  <2>1. CASE k = 1
    <3>1. Below(k)' = ptr
      BY <2>1, SMT DEF StackInv, Below, ptr_plus_1
    <3>. QED  BY <2>1, <3>1, <1>2, SMT DEF StackInv
  <2>2. CASE k # 1
    <3>1. k - 1 \in 1 .. Len(calls) /\ k \in Nat /\ k <= RAS_SIZE /\ k >= 2
      BY <2>2, <1>2, SMT
    <3>2. Below(k)' = Below(k - 1) /\ Below(k - 1) # ptr /\ Below(k - 1) \in 0 .. RAS_SIZE - 1
      BY <3>1, SMT DEF StackInv, Below, ptr_plus_1
    <3>3. mem'[Below(k)'] = mem[Below(k - 1)]
      BY <3>2, SMT DEF StackInv
    <3>4. mem[Below(k - 1)] = calls[Len(calls) + 1 - (k - 1)]
      BY <3>1 DEF StackInv, ReturnsMatchCalls
    <3>. QED  BY <3>1, <3>3, <3>4, <1>2, SMT
  <2>. QED  BY <2>1, <2>2
<1>. QED  BY <1>1, <1>2, <1>3 DEF StackInv

\* A return takes the top away.  What lies below is what it was.
LEMMA ReturnKeeps ==
  ASSUME StackInv,
         ptr' = ptr_minus_1,
         mem' = mem,
         calls' = IF Len(calls) > 0 THEN SubSeq(calls, 1, Len(calls) - 1) ELSE calls
  PROVE  StackInv'
<1>. RAS_SIZE \in Nat \ {0}
  BY TargetsAssumption
<1>1. /\ ptr' \in 0 .. RAS_SIZE - 1
      /\ mem' \in [0 .. RAS_SIZE - 1 -> Int]
  BY SMT DEF StackInv, ptr_minus_1
<1>2. /\ calls' \in Seq(Int)
      /\ Len(calls') <= RAS_SIZE
      /\ \A k \in 1 .. Len(calls') :
           /\ k + 1 \in 1 .. Len(calls)
           /\ calls'[Len(calls') + 1 - k] = calls[Len(calls) + 1 - (k + 1)]
  <2>. /\ calls \in Seq(Int) /\ Len(calls) <= RAS_SIZE
       /\ Len(calls) \in Nat
    BY LenProperties, Zenon DEF StackInv
  <2>1. /\ calls' \in Seq(Int)
        /\ Len(calls') <= Len(calls)
        /\ \A k \in 1 .. Len(calls') :
             /\ k + 1 \in 1 .. Len(calls)
             /\ calls'[Len(calls') + 1 - k] = calls[Len(calls) + 1 - (k + 1)]
    <3>1. calls' = Popped(calls)
      BY Zenon DEF Popped
    <3>. QED  BY <3>1, PopFacts, Zenon
  <2>2. Len(calls') \in Nat
    BY <2>1, LenProperties, Zenon
  <2>3. Len(calls') <= RAS_SIZE
    BY <2>1, <2>2, SMT
  <2>. QED  BY <2>1, <2>3, Zenon
<1>3. ReturnsMatchCalls'
  <2>. SUFFICES ASSUME NEW k \in 1 .. Len(calls')
                PROVE  mem'[Below(k)'] = calls'[Len(calls') + 1 - k]
    BY DEF ReturnsMatchCalls
  <2>1. k + 1 \in 1 .. Len(calls) /\ k \in Nat /\ k >= 1 /\ k + 1 <= RAS_SIZE
    BY <1>2, SMT DEF StackInv
  <2>2. Below(k)' = Below(k + 1)
    BY <2>1, SMT DEF StackInv, Below, ptr_minus_1
  <2>3. mem[Below(k + 1)] = calls[Len(calls) + 1 - (k + 1)]
    BY <2>1 DEF StackInv, ReturnsMatchCalls
  <2>. QED  BY <2>2, <2>3, <1>2
<1>. QED  BY <1>1, <1>2, <1>3 DEF StackInv

\* A cycle of fetch is a call, a return, or neither.
LEMMA StackCycle ==
  ASSUME StackInv, NEW pc \in PCs, NEW valid \in BOOLEAN,
         RasEdge(pc, valid), CallsEdge(pc, valid)
  PROVE  StackInv'
<1>1. CASE push(pc, valid)
  <2>1. Plus(link_pc(pc), 1) \in Int
    BY PlusIsInt, LinkIsPC
  <2>2. /\ ptr' = ptr_plus_1
        /\ mem' = [mem EXCEPT ![ptr] = Plus(link_pc(pc), 1)]
        /\ calls' = Append(IF Len(calls) = RAS_SIZE THEN Tail(calls) ELSE calls,
                           Plus(link_pc(pc), 1))
    BY <1>1 DEF RasEdge, CallsEdge
  <2>. QED  BY <2>1, <2>2, CallKeeps
<1>2. CASE ~push(pc, valid) /\ pop(pc, valid)
  <2>1. /\ ptr' = ptr_minus_1
        /\ mem' = mem
        /\ calls' = IF Len(calls) > 0 THEN SubSeq(calls, 1, Len(calls) - 1) ELSE calls
    BY <1>2, Zenon DEF RasEdge, CallsEdge
  <2>. QED  BY <2>1, ReturnKeeps
<1>3. CASE ~push(pc, valid) /\ ~pop(pc, valid)
  <2>1. ptr' = ptr /\ mem' = mem /\ calls' = calls
    BY <1>3 DEF RasEdge, CallsEdge
  <2>. QED  BY <2>1 DEF StackInv, ReturnsMatchCalls, Below
<1>. QED  BY <1>1, <1>2, <1>3

-----------------------------------------------------------------------------
(* The directions.                                                         *)

Counters == {NT_STRONG, NT_WEAK, T_WEAK, T_STRONG}

\* The tables keep the watched index's true history, a counter is below the
\* top after an outcome "not taken", and at the bottom after two.
DirectionsInv ==
  /\ watched \in Indexes
  /\ ex_bp \in [ALUs -> Packets]
  /\ bht \in Histories
  /\ recent = bht
  /\ pht \in [Histories -> Counters]
  /\ refused \in [Histories -> {0, 1, 2}]
  /\ \A h \in Histories :
       /\ refused[h] # 0 => pht[h] # T_STRONG
       /\ refused[h] = 2 => pht[h] = NT_STRONG

LEMMA NoHistoryIsHistory == NoHistory \in Histories
  BY DEF NoHistory, Histories

LEMMA ShiftedIsHistory ==
  ASSUME NEW history \in Histories, NEW outcome \in BOOLEAN
  PROVE  Shifted(history, outcome) \in Histories
<1>. BHT_WIDTH \in Nat \ {0}
  BY HistoryAssumption
<1>1. history \in Seq(BOOLEAN) /\ Len(history) = BHT_WIDTH
  BY SMT DEF Histories
<1>2. Tail(history) \in Seq(BOOLEAN) /\ Len(Tail(history)) = BHT_WIDTH - 1
  BY <1>1, SMT
<1>3. Shifted(history, outcome) \in Seq(BOOLEAN) /\ Len(Shifted(history, outcome)) = BHT_WIDTH
  BY <1>2, SMT DEF Shifted
<1>. QED  BY <1>3, SMT DEF Histories

LEMMA NothingIsPacket == Nothing \in Packets
  BY HistoryAssumption DEF Nothing, Packets

LEMMA DirectionsStart == HistoryInit => DirectionsInv
<1>. SUFFICES ASSUME HistoryInit PROVE DirectionsInv
  OBVIOUS
<1>1. ex_bp \in [ALUs -> Packets]
  BY NothingIsPacket DEF HistoryInit
<1>2. bht \in Histories /\ recent = bht
  BY NoHistoryIsHistory DEF HistoryInit
<1>3. pht \in [Histories -> Counters]
  BY DEF HistoryInit, Counters
<1>4. refused \in [Histories -> {0, 1, 2}] /\ \A h \in Histories : refused[h] = 0
  BY DEF HistoryInit
<1>. QED  BY <1>1, <1>2, <1>3, <1>4 DEF DirectionsInv, HistoryInit

\* What the ALUs say next are packets.
LEMMA SaysPackets ==
  ASSUME NEW finished \in SUBSET ALUs, NEW packets \in [finished -> Packets \ {Nothing}]
  PROVE  Says(packets) \in [ALUs -> Packets]
  BY NothingIsPacket DEF Says

\* A packet with no branch says "not taken", so the first ALU's, put over the
\* second's, cannot hide an outcome "not taken".
LEMMA NotTakenCounts ==
  ASSUME DirectionsInv, Recorded # {}, ~ex_bp[TheRecorded].con_br_taken
  PROVE  n_state = Counted(pht[bht], FALSE)
<1>1. TheRecorded \in Recorded
  BY DEF TheRecorded
<1>2. \A a \in ALUs : ex_bp[a].con_br_taken \in BOOLEAN /\ (ex_bp[a].con_br_taken => Branch(a))
  BY DEF DirectionsInv, Packets, Branch
<1>3. CASE TheRecorded = 0
  <2>1. AtWatched(0)
    BY <1>1, <1>3 DEF Recorded
  <2>2. ex_bp[0].con_br_taken = FALSE
    BY <1>2, <1>3 DEF ALUs
  <2>. QED  BY <2>1, <2>2 DEF n_state
<1>4. CASE TheRecorded = 1
  <2>1. ~(Branch(0) /\ AtWatched(0))
    BY <1>1, <1>4 DEF Recorded
  <2>2. ex_bp[1].con_br_taken = FALSE
    BY <1>2, <1>4 DEF ALUs
  <2>3. CASE AtWatched(0)
    <3>1. ex_bp[0].con_br_taken = FALSE
      BY <2>1, <2>3, <1>2 DEF ALUs
    <3>. QED  BY <2>3, <3>1 DEF n_state
  <2>4. CASE ~AtWatched(0)
    BY <2>2, <2>4 DEF n_state
  <2>. QED  BY <2>3, <2>4
<1>. QED  BY <1>1, <1>3, <1>4 DEF Recorded, ALUs

\* Every edge trains the tables alike, whatever the ALUs say next.
LEMMA DirectionsTrain ==
  ASSUME DirectionsInv, ex_bp' \in [ALUs -> Packets], BhtEdge, PhtEdge, WatchEdge
  PROVE  DirectionsInv'
<1>1. CASE Recorded = {}
  <2>1. /\ bht' = bht /\ pht' = pht /\ recent' = recent
        /\ refused' = refused /\ watched' = watched
    BY <1>1 DEF BhtEdge, PhtEdge, WatchEdge
  <2>. QED  BY <2>1 DEF DirectionsInv
<1>2. CASE Recorded # {}
  <2>. DEFINE taken == ex_bp[TheRecorded].con_br_taken
  <2>1. TheRecorded \in Recorded
    BY <1>2 DEF TheRecorded
  <2>2. taken \in BOOLEAN
    BY <2>1 DEF DirectionsInv, Recorded, Packets
  <2>3. bht' = Shifted(bht, taken) /\ recent' = bht' /\ watched' = watched
    BY <1>2, Zenon DEF BhtEdge, WatchEdge, DirectionsInv
  <2>4. bht' \in Histories
    BY <2>2, <2>3, ShiftedIsHistory DEF DirectionsInv
  <2>5. /\ pht' = [pht EXCEPT ![bht] = n_state]
        /\ refused' = [refused EXCEPT ![bht] = Refusal(refused[bht], taken)]
    BY <1>2 DEF PhtEdge, WatchEdge, DirectionsInv
  <2>6. n_state \in Counters
    BY DEF n_state, Counted, Counters
  <2>7. /\ Refusal(refused[bht], taken) \in {0, 1, 2}
        /\ Refusal(refused[bht], taken) # 0 => ~taken
        /\ Refusal(refused[bht], taken) = 2 => ~taken /\ refused[bht] # 0
    BY DEF Refusal
  <2>8. pht' \in [Histories -> Counters] /\ refused' \in [Histories -> {0, 1, 2}]
    BY <2>5, <2>6, <2>7 DEF DirectionsInv
  <2>9. ASSUME NEW h \in Histories
        PROVE  /\ refused'[h] # 0 => pht'[h] # T_STRONG
               /\ refused'[h] = 2 => pht'[h] = NT_STRONG
    <3>1. CASE h # bht
      <4>1. refused'[h] = refused[h] /\ pht'[h] = pht[h]
        BY <2>5, <3>1 DEF DirectionsInv
      <4>. QED  BY <4>1 DEF DirectionsInv
    <3>2. CASE h = bht
      <4>1. refused'[h] = Refusal(refused[bht], taken) /\ pht'[h] = n_state
        BY <2>5, <3>2 DEF DirectionsInv
      <4>2. ASSUME ~taken PROVE n_state = Counted(pht[bht], FALSE)
        BY <1>2, <4>2, NotTakenCounts
      <4>3. Counted(pht[bht], FALSE) # T_STRONG
        BY DEF Counted, T_STRONG, T_WEAK, NT_STRONG
      <4>4. refused[bht] # 0 => Counted(pht[bht], FALSE) = NT_STRONG
        BY DEF DirectionsInv, Counted
      <4>. QED  BY <4>1, <4>2, <4>3, <4>4, <2>7, Zenon
    <3>. QED  BY <3>1, <3>2
  <2>10. watched' \in Indexes
    BY <2>3 DEF DirectionsInv
  <2>. QED  BY <2>3, <2>4, <2>8, <2>9, <2>10 DEF DirectionsInv, Indexes
<1>. QED  BY <1>1, <1>2

LEMMA DirectionsStep == DirectionsInv /\ [HistoryNext]_historyVars => DirectionsInv'
<1>. SUFFICES ASSUME DirectionsInv, [HistoryNext]_historyVars PROVE DirectionsInv'
  OBVIOUS
<1>1. CASE \E finished \in SUBSET ALUs :
             \E packets \in [finished -> Packets \ {Nothing}] : HistoryCycle(packets)
  <2>1. PICK finished \in SUBSET ALUs :
               \E packets \in [finished -> Packets \ {Nothing}] : HistoryCycle(packets)
    BY <1>1
  <2>2. PICK packets \in [finished -> Packets \ {Nothing}] : HistoryCycle(packets)
    BY <2>1
  <2>3. ex_bp' \in [ALUs -> Packets]
    BY <2>2, SaysPackets DEF HistoryCycle
  <2>. QED  BY <2>2, <2>3, DirectionsTrain DEF HistoryCycle
<1>2. CASE HistorySquash
  <2>1. ex_bp' \in [ALUs -> Packets]
    BY <1>2, NothingIsPacket DEF HistorySquash
  <2>. QED  BY <1>2, <2>1, DirectionsTrain DEF HistorySquash
<1>3. CASE UNCHANGED historyVars
  BY <1>3 DEF historyVars, DirectionsInv
<1>. QED  BY <1>1, <1>2, <1>3 DEF HistoryNext

-----------------------------------------------------------------------------
(* The buffer of targets.                                                  *)

\* An entry x is that of a branch at some PC p, whose upper bits are the tag; if
\* it is a direct branch, the value are the lower bits of its target.
EntryOf(x, p) ==
  /\ p % BTB_SIZE = x
  /\ btb[x].tag = p \div BTB_SIZE
  /\ Kind[p] \in {"cond", "jump"} => btb[x].val = Target[p] % VAL_SIZE

BufferInv ==
  \A x \in 0 .. BTB_SIZE - 1 : btb[x] = NoEntry \/ \E p \in PCs : EntryOf(x, p)

\* A PC is made of its index and its tag.
LEMMA IndexAndTag ==
  ASSUME NEW p \in PCs, NEW q \in PCs,
         p % BTB_SIZE = q % BTB_SIZE, p \div BTB_SIZE = q \div BTB_SIZE
  PROVE  p = q
<1>1. BTB_SIZE \in Nat \ {0} /\ p \in Nat /\ q \in Nat
  BY TargetsAssumption DEF PCs
<1>2. \A n \in Nat \ {0}, a \in Nat : a = n * (a \div n) + (a % n)
  OBVIOUS
<1>. QED  BY <1>1, <1>2

LEMMA BufferStarts == TargetsInit => BufferInv
  BY DEF TargetsInit, BufferInv

LEMMA BufferStep == BufferInv /\ [TargetsNext]_targetVars => BufferInv'
<1>. SUFFICES ASSUME BufferInv, [TargetsNext]_targetVars PROVE BufferInv'
  OBVIOUS
<1>1. CASE TargetsNext
  <2>0. PICK alus \in SUBSET {0, 1} : \E branches \in [alus -> Branches] : BtbEdge(branches)
    BY <1>1, Zenon DEF TargetsNext, TargetsCycle
  <2>1. PICK branches \in [alus -> Branches] : BtbEdge(branches)
    BY <2>0
  <2>. SUFFICES ASSUME NEW x \in 0 .. BTB_SIZE - 1
                PROVE  btb'[x] = NoEntry \/ \E p \in PCs : EntryOf(x, p)'
    BY DEF BufferInv
  <2>. DEFINE here == {a \in DOMAIN branches : branches[a].PC % BTB_SIZE = x}
              first == IF 0 \in here THEN 0 ELSE 1
              b == branches[first]
  <2>2. btb'[x] = IF here = {} THEN btb[x]
                  ELSE [tag |-> b.PC \div BTB_SIZE, val |-> b.tg_pc % VAL_SIZE]
    BY <2>1, Zenon DEF BtbEdge
  <2>3. CASE here = {}
    BY <2>2, <2>3 DEF BufferInv, EntryOf
  <2>4. CASE here # {}
    <3>0. here \subseteq {0, 1}
      BY <2>1
    <3>1. first \in here
      <4>. HIDE DEF here
      <4>. QED  BY <3>0, <2>4
    <3>2. b \in Branches /\ b.PC % BTB_SIZE = x
      BY <3>1, <2>1
    <3>. HIDE DEF b, here
    <3>3. b.PC \in PCs /\ (Kind[b.PC] \in {"cond", "jump"} => b.tg_pc = Target[b.PC])
      BY <3>2 DEF Branches
    <3>4. btb'[x].tag = b.PC \div BTB_SIZE /\ btb'[x].val = b.tg_pc % VAL_SIZE
      BY <2>2, <2>4
    <3>5. PICK p \in PCs : p = b.PC
      BY <3>3
    <3>6. EntryOf(x, p)'
      BY <3>2, <3>3, <3>4, <3>5 DEF EntryOf
    <3>. QED  BY <3>6
  <2>. QED  BY <2>3, <2>4
<1>2. CASE UNCHANGED targetVars
  BY <1>2 DEF targetVars, BufferInv, EntryOf
<1>. QED  BY <1>1, <1>2

\* A direct branch that hits finds its own target.
LEMMA OwnTarget ==
  ASSUME BufferInv, NEW pc \in PCs, NEW i \in Places, hit(pc, i),
         Kind[if_pc(pc, i)] \in {"cond", "jump"}
  PROVE  predict_pc(pc, i) = (if_pc(pc, i) \div VAL_SIZE) * VAL_SIZE
                               + (Target[if_pc(pc, i)] % VAL_SIZE)
<1>. DEFINE q == if_pc(pc, i)
            x == q % BTB_SIZE
<1>1. q \in PCs
  <2>1. NumPC \in Nat \ {0} /\ pc + i \in Int /\ q = (pc + i) % NumPC
    BY TargetsAssumption DEF if_pc, Plus, PCs, Places
  <2>. QED  BY <2>1 DEF PCs
<1>2. BTB_SIZE \in Nat \ {0} /\ q \in Nat
  BY <1>1, TargetsAssumption DEF PCs
<1>. HIDE DEF q
<1>3. x \in 0 .. BTB_SIZE - 1 /\ q \div BTB_SIZE # -1
  BY <1>2
<1>4. btb[x].tag = q \div BTB_SIZE
  BY DEF hit, Entry, q
<1>5. btb[x] # NoEntry
  BY <1>3, <1>4 DEF NoEntry
<1>6. PICK p \in PCs : EntryOf(x, p)
  BY <1>3, <1>5 DEF BufferInv
<1>7. p = q
  BY <1>1, <1>4, <1>6, IndexAndTag DEF EntryOf
<1>8. btb[x].val = Target[q] % VAL_SIZE
  BY <1>6, <1>7 DEF EntryOf, q
<1>. QED  BY <1>8 DEF predict_pc, Entry, q

-----------------------------------------------------------------------------
(* The predictor.                                                          *)

LEMMA StackStep == StackInv /\ [TargetsNext]_targetVars => StackInv'
<1>. SUFFICES ASSUME StackInv, [TargetsNext]_targetVars PROVE StackInv'
  OBVIOUS
<1>1. CASE TargetsNext
  <2>1. PICK pc \in PCs, valid \in BOOLEAN : RasEdge(pc, valid) /\ CallsEdge(pc, valid)
    BY <1>1, Zenon DEF TargetsNext, TargetsCycle
  <2>. QED  BY <2>1, StackCycle
<1>2. CASE UNCHANGED targetVars
  BY <1>2 DEF targetVars, StackInv, ReturnsMatchCalls, Below
<1>. QED  BY <1>1, <1>2

PredictorInv == DirectionsInv /\ StackInv /\ BufferInv

LEMMA PredictorInductive == PredictorSpec => []PredictorInv
<1>1. PredictorInit => PredictorInv
  BY DirectionsStart, StackStarts, BufferStarts DEF PredictorInit, PredictorInv
<1>2. PredictorInv /\ [PredictorNext]_predictorVars => PredictorInv'
  <2>. SUFFICES ASSUME PredictorInv, [PredictorNext]_predictorVars PROVE PredictorInv'
    OBVIOUS
  <2>1. [HistoryNext]_historyVars /\ [TargetsNext]_targetVars
    BY DEF PredictorNext, predictorVars
  <2>. QED  BY <2>1, DirectionsStep, StackStep, BufferStep DEF PredictorInv
<1>. QED  BY <1>1, <1>2, PTL DEF PredictorSpec

\* A return is predicted to go behind the latest call, for every size of the
\* stack, after any calls and returns.
THEOREM ReturnsMatchCallsHolds == PredictorSpec => []ReturnsMatchCalls
<1>1. PredictorInv => ReturnsMatchCalls
  BY DEF PredictorInv, StackInv
<1>. QED  BY <1>1, PredictorInductive, PTL

\* A branch that was not taken the last two times its index had the present
\* history is predicted not to be taken, for every size of the tables.
THEOREM NotTakenIsLearnedHolds == PredictorSpec => []NotTakenIsLearned
<1>1. ASSUME PredictorInv, refused[recent] = 2 PROVE ~predict_taken
  <2>1. pht[bht] = NT_STRONG
    BY <1>1, Zenon DEF PredictorInv, DirectionsInv
  <2>. QED  BY <2>1 DEF predict_taken, NT_STRONG, T_WEAK, T_STRONG
<1>2. PredictorInv => NotTakenIsLearned
  BY <1>1 DEF NotTakenIsLearned
<1>. QED  BY <1>2, PredictorInductive, PTL

\* What BP_top.sv says of each fetched instruction, of the PC behind it and of
\* where fetch goes on agree, and a direct branch that is predicted to leave goes
\* to its own target, at least in its own region, whatever other branches left
\* in the buffer of targets.
THEOREM ChoicesAgreeHolds == PredictorSpec => []ChoicesAgree
<1>1. BufferInv => ChoicesAgree
  <2>. SUFFICES ASSUME BufferInv, NEW pc \in PCs, NEW taken \in [Places -> BOOLEAN],
                       NEW last \in Places, last = IF bp_taken(pc, taken) THEN 0 ELSE 1
                PROVE  /\ bp_out(pc, taken).npc[last] = bp_out(pc, taken).pc
                       /\ last = 1 => bp_out(pc, taken).npc[0] = Plus(pc, 1)
                       /\ Leaves(pc, taken, last) /\ ~link(pc, last) =>
                            bp_out(pc, taken).npc[last] =
                              (if_pc(pc, last) \div VAL_SIZE) * VAL_SIZE
                                + (Target[if_pc(pc, last)] % VAL_SIZE)
    BY DEF ChoicesAgree, Places
  <2>1. bp_taken(pc, taken) <=> Leaves(pc, taken, 0)
    BY DEF bp_taken, Leaves
  <2>2. /\ Leaves(pc, taken, 0) =>
             /\ bp_out(pc, taken) = Choice(Goes(pc, 0), Goes(pc, 0), Plus(Goes(pc, 0), 1))
             /\ last = 0
        /\ ~Leaves(pc, taken, 0) => last = 1
    BY <2>1 DEF bp_out
  <2>3. Leaves(pc, taken, 1) /\ ~Leaves(pc, taken, 0) =>
          bp_out(pc, taken) = Choice(Goes(pc, 1), Plus(pc, 1), Goes(pc, 1))
    BY DEF bp_out
  <2>4. ~Leaves(pc, taken, 1) /\ ~Leaves(pc, taken, 0) =>
          bp_out(pc, taken) = Choice(Plus(pc, 2), Plus(pc, 1), Plus(pc, 2))
    BY DEF bp_out
  <2>5. \A g, n0, n1 : /\ Choice(g, n0, n1).pc = g
                       /\ Choice(g, n0, n1).npc[0] = n0 /\ Choice(g, n0, n1).npc[1] = n1
    BY DEF Choice, Places
  <2>6. /\ bp_out(pc, taken).npc[last] = bp_out(pc, taken).pc
        /\ last = 1 => bp_out(pc, taken).npc[0] = Plus(pc, 1)
        /\ Leaves(pc, taken, last) => bp_out(pc, taken).npc[last] = Goes(pc, last)
    <3>1. CASE Leaves(pc, taken, 0)
      BY <3>1, <2>2, <2>5
    <3>2. CASE Leaves(pc, taken, 1) /\ ~Leaves(pc, taken, 0)
      BY <3>2, <2>2, <2>3, <2>5
    <3>3. CASE ~Leaves(pc, taken, 1) /\ ~Leaves(pc, taken, 0)
      BY <3>3, <2>2, <2>4, <2>5
    <3>. QED  BY <3>1, <3>2, <3>3
  <2>7. ASSUME Leaves(pc, taken, last), ~link(pc, last)
        PROVE  Goes(pc, last) = (if_pc(pc, last) \div VAL_SIZE) * VAL_SIZE
                                  + (Target[if_pc(pc, last)] % VAL_SIZE)
    <3>1. Goes(pc, last) = predict_pc(pc, last)
      BY <2>7 DEF Goes
    <3>2. hit(pc, last) /\ Kind[if_pc(pc, last)] \in {"cond", "jump"}
      BY <2>7 DEF Leaves, jump, cond_branch
    <3>. QED  BY <3>1, <3>2, OwnTarget
  <2>. QED  BY <2>6, <2>7
<1>2. PredictorInv => BufferInv
  BY DEF PredictorInv
<1>. QED  BY <1>1, <1>2, PredictorInductive, PTL
=============================================================================
