------------------------ MODULE VkrAllocTable_proofs ------------------------
(***************************************************************************)
(* TLAPS proofs about VkrAllocTable, for every set of handles, every hash  *)
(* function and every first capacity: probing ends, the record count is    *)
(* exact, no record is lost or written twice, and a table that has grown   *)
(* finds every record it holds.                                            *)
(***************************************************************************)
EXTENDS VkrAllocTable, DataLemmas

-----------------------------------------------------------------------------
(* Tables and what is said of them.                                        *)

\* The tables with cap slots.
Tables(cap) == [0..(cap - 1) -> Buffers \cup {Empty}]

\* The handles that have a record.
Recorded(t) == {t[i] : i \in DOMAIN t} \ {Empty}

\* No handle has two records.
OneEach(t) == \A i, j \in DOMAIN t : t[i] # Empty /\ t[i] = t[j] => i = j

\* No probe for a record meets an empty slot before it.
Reachable(t) ==
  \A i \in DOMAIN t : t[i] # Empty =>
    \A j \in FreeSlots(t) : Distance(t, t[i], i) <= Distance(t, t[i], j)

\* What is kept of the table and its counter: there is always a free slot.
CountBound == count < Capacity(table)
TableInv ==
  /\ Capacity(table) \in Nat /\ table \in Tables(Capacity(table))
  /\ InitCap <= Capacity(table) /\ Capacity(table) <= InitCap + 4 * Cardinality(Buffers)
  /\ OneEach(table)
  /\ count = Cardinality(Recorded(table)) /\ CountBound
  /\ held \subseteq Recorded(table)

-----------------------------------------------------------------------------
(* The shape of a table.                                                   *)

LEMMA CapacityIs ==
  ASSUME NEW cap \in Nat, NEW t \in Tables(cap)
  PROVE  /\ DOMAIN t = 0..(cap - 1) /\ Capacity(t) = cap
         /\ IsFiniteSet(DOMAIN t)
<1>1. DOMAIN t = 0..(cap - 1)
  BY DEF Tables
<1>2. IsFiniteSet(0..(cap - 1)) /\ Cardinality(0..(cap - 1)) = cap
  BY FS_Interval
<1> QED BY <1>1, <1>2 DEF Capacity

LEMMA RecordedFinite ==
  ASSUME NEW cap \in Nat, NEW t \in Tables(cap)
  PROVE  /\ Recorded(t) \subseteq Buffers
         /\ IsFiniteSet(Recorded(t))
         /\ Cardinality(Recorded(t)) \in Nat
         /\ Cardinality(Recorded(t)) <= Cardinality(Buffers)
<1>1. Recorded(t) \subseteq Buffers
  BY DEF Recorded, Tables
<1> QED BY <1>1, TableAssumption, FS_Subset, FS_CardinalityType

\* In a table without double records, records are as many as taken slots.
LEMMA RecordedCounted ==
  ASSUME NEW cap \in Nat, NEW t \in Tables(cap), OneEach(t)
  PROVE  Cardinality(Recorded(t)) = Cardinality(DOMAIN t \ FreeSlots(t))
<1> DEFINE taken == DOMAIN t \ FreeSlots(t)
           f == [i \in taken |-> t[i]]
<1>1. IsFiniteSet(taken)
  BY CapacityIs, FS_Subset
<1>2. \A i \in taken : t[i] # Empty
  BY DEF FreeSlots
<1>3. f \in Bijection(taken, Recorded(t))
  <2>1. f \in [taken -> Recorded(t)]
    BY <1>2 DEF Recorded
  <2>2. f \in Injection(taken, Recorded(t))
    <3>1. ASSUME NEW i \in taken, NEW j \in taken, f[i] = f[j] PROVE i = j
      BY <3>1, <1>2 DEF OneEach
    <3> QED BY <2>1, <3>1 DEF Injection, IsInjective
  <2>3. \A b \in Recorded(t) : \E i \in taken : f[i] = b
    BY DEF Recorded, FreeSlots
  <2> HIDE DEF f, taken
  <2>4. f \in Surjection(taken, Recorded(t))
    BY <2>1, <2>3 DEF Surjection
  <2> QED BY <2>2, <2>4 DEF Bijection
<1>4. Cardinality(taken) = Cardinality(Recorded(t))
  BY <1>1, <1>3, FS_Bijection DEF ExistsBijection
<1> QED BY <1>4

\* A table with fewer records than slots has a free slot.
LEMMA RoomLeft ==
  ASSUME NEW cap \in Nat, NEW t \in Tables(cap), OneEach(t),
         Cardinality(Recorded(t)) < cap
  PROVE  FreeSlots(t) # {}
<1> SUFFICES ASSUME FreeSlots(t) = {} PROVE FALSE
  OBVIOUS
<1>1. Cardinality(Recorded(t)) = Cardinality(DOMAIN t)
  BY RecordedCounted
<1> QED BY <1>1, CapacityIs DEF Capacity

-----------------------------------------------------------------------------
(* Probing.                                                                *)

\* Different slots lie at different distances from a home slot.
LEMMA DistanceInjective ==
  ASSUME NEW cap \in Nat, cap > 0, NEW t \in Tables(cap), NEW b \in Buffers,
         NEW i \in DOMAIN t, NEW j \in DOMAIN t
  PROVE  /\ Distance(t, b, i) \in Nat
         /\ Distance(t, b, i) = Distance(t, b, j) => i = j
<1> DEFINE h == Hash[b] % cap
<1>1. Capacity(t) = cap /\ i \in 0..(cap - 1) /\ j \in 0..(cap - 1)
  BY CapacityIs
<1>2. h \in 0..(cap - 1)
  <2>1. Hash[b] \in Nat
    BY TableAssumption
  <2> QED BY <2>1
<1>3. Distance(t, b, i) = (i + cap - h) % cap /\ Distance(t, b, j) = (j + cap - h) % cap
  BY <1>1 DEF Distance
<1> HIDE DEF h
<1>4. /\ (i + cap - h) % cap = IF h <= i THEN i - h ELSE i + cap - h
      /\ (i + cap - h) % cap \in 0..(cap - 1)
  BY <1>1, <1>2, ProbeSteps
<1>5. (j + cap - h) % cap = IF h <= j THEN j - h ELSE j + cap - h
  BY <1>1, <1>2, ProbeSteps
<1>6. PICK d \in 0..(cap - 1), e \in Int :
        /\ Distance(t, b, i) = d /\ d = IF h <= i THEN i - h ELSE i + cap - h
        /\ Distance(t, b, j) = e /\ e = IF h <= j THEN j - h ELSE j + cap - h
  BY <1>1, <1>2, <1>3, <1>4, <1>5
<1>7. d = e => i = j
  BY <1>1, <1>2, <1>6
<1> QED BY <1>6, <1>7

\* A probe that can stop at some slot stops at exactly one, the nearest.
LEMMA FirstOfIs ==
  ASSUME NEW cap \in Nat, cap > 0, NEW t \in Tables(cap), NEW b \in Buffers,
         NEW S \in SUBSET DOMAIN t, S # {}
  PROVE  \E i \in S : /\ FirstOf(S, t, b) = {i}
                      /\ \A j \in S : Distance(t, b, i) <= Distance(t, b, j)
<1> DEFINE far == {Distance(t, b, i) : i \in S}
<1>1. far \in SUBSET Nat /\ far # {}
  BY DistanceInjective
<1>2. PICK d \in far : \A e \in far : d <= e
  BY <1>1, LeastElement
<1>3. PICK i \in S : d = Distance(t, b, i)
  BY <1>2
<1>4. \A j \in S : Distance(t, b, i) <= Distance(t, b, j)
  BY <1>2, <1>3
<1>5. FirstOf(S, t, b) = {k \in S : \A j \in S : Distance(t, b, k) <= Distance(t, b, j)}
  BY DEF FirstOf
<1>6. ASSUME NEW k \in S, \A j \in S : Distance(t, b, k) <= Distance(t, b, j)
      PROVE  k = i
  <2>1. Distance(t, b, k) <= Distance(t, b, i) /\ Distance(t, b, i) <= Distance(t, b, k)
    BY <1>4, <1>6
  <2>2. Distance(t, b, k) \in Nat /\ Distance(t, b, i) \in Nat
    BY DistanceInjective
  <2>3. Distance(t, b, k) = Distance(t, b, i)
    BY <2>1, <2>2
  <2> QED BY <2>3, DistanceInjective
<1> QED BY <1>4, <1>5, <1>6

\* Where an insertion writes, and what it leaves alone.
LEMMA PutIs ==
  ASSUME NEW cap \in Nat, cap > 0, NEW t \in Tables(cap), NEW b \in Buffers, FreeSlots(t) # {}
  PROVE  \E s \in FreeSlots(t) :
           /\ InsertSlot(t, b) = {s}
           /\ Put(t, b) = [t EXCEPT ![s] = b]
           /\ \A j \in FreeSlots(t) : Distance(t, b, s) <= Distance(t, b, j)
<1>1. FreeSlots(t) \in SUBSET DOMAIN t
  BY DEF FreeSlots
<1>2. PICK s \in FreeSlots(t) : /\ InsertSlot(t, b) = {s}
                           /\ \A j \in FreeSlots(t) : Distance(t, b, s) <= Distance(t, b, j)
  BY <1>1, FirstOfIs DEF InsertSlot
<1>3. Put(t, b) = [t EXCEPT ![s] = b]
  BY <1>2 DEF Put, Tables
<1> QED BY <1>2, <1>3

\* An insertion adds one record, doubles none and cuts none off.
LEMMA PutKeeps ==
  ASSUME NEW cap \in Nat, cap > 0, NEW t \in Tables(cap), NEW b \in Buffers,
         FreeSlots(t) # {}, OneEach(t), b \notin Recorded(t)
  PROVE  /\ Put(t, b) \in Tables(cap)
         /\ OneEach(Put(t, b))
         /\ Recorded(Put(t, b)) = Recorded(t) \cup {b}
         /\ Reachable(t) => Reachable(Put(t, b))
<1>1. PICK s \in FreeSlots(t) :
        /\ Put(t, b) = [t EXCEPT ![s] = b]
        /\ \A j \in FreeSlots(t) : Distance(t, b, s) <= Distance(t, b, j)
  BY PutIs
<1> DEFINE u == [t EXCEPT ![s] = b]
<1>2. s \in DOMAIN t /\ t[s] = Empty
  BY DEF FreeSlots
<1>3. u \in Tables(cap) /\ DOMAIN u = DOMAIN t
  BY <1>2 DEF Tables
<1>4. u[s] = b /\ \A i \in DOMAIN t : i # s => u[i] = t[i]
  BY <1>2, <1>3 DEF Tables
<1>5. b # Empty /\ \A i \in DOMAIN t : t[i] # b
  BY TableAssumption DEF Recorded
<1> HIDE DEF u
<1>6. OneEach(u)
  BY <1>3, <1>4, <1>5 DEF OneEach
<1>7. Recorded(u) = Recorded(t) \cup {b}
  BY <1>2, <1>3, <1>4, <1>5 DEF Recorded
<1>8. FreeSlots(u) \subseteq FreeSlots(t)
  BY <1>3, <1>4, <1>5 DEF FreeSlots
<1>9. \A c, i : Distance(u, c, i) = Distance(t, c, i)
  BY <1>3 DEF Distance, Capacity
<1>10. ASSUME Reachable(t) PROVE Reachable(u)
  <2> SUFFICES ASSUME NEW i \in DOMAIN u, u[i] # Empty, NEW j \in FreeSlots(u)
               PROVE  Distance(u, u[i], i) <= Distance(u, u[i], j)
    BY DEF Reachable
  <2>1. CASE i = s
    BY <2>1, <1>1, <1>4, <1>8, <1>9
  <2>2. CASE i # s
    BY <2>2, <1>3, <1>4, <1>8, <1>9, <1>10 DEF Reachable
  <2> QED BY <2>1, <2>2
<1> QED BY <1>1, <1>3, <1>6, <1>7, <1>10 DEF u

\* alloc_table_find finds only records of the handle, and every record that no
\* empty slot cuts off.
LEMMA FindIs ==
  ASSUME NEW cap \in Nat, cap > 0, NEW t \in Tables(cap), NEW b \in Buffers, OneEach(t)
  PROVE  /\ \A i \in Find(t, b) : i \in DOMAIN t /\ t[i] = b
         /\ Reachable(t) /\ b \in Recorded(t) => Find(t, b) # {}
<1> DEFINE S == {j \in DOMAIN t : t[j] \in {b, Empty}}
<1>1. \A i \in Find(t, b) : i \in DOMAIN t /\ t[i] = b
  BY DEF Find, FirstOf
<1>2. ASSUME Reachable(t), b \in Recorded(t) PROVE Find(t, b) # {}
  <2>1. b # Empty
    BY TableAssumption
  <2>2. PICK i \in DOMAIN t : t[i] = b
    BY <1>2 DEF Recorded
  <2>3. i \in S
    BY <2>2
  <2>4. PICK k \in S : /\ FirstOf(S, t, b) = {k}
                       /\ \A j \in S : Distance(t, b, k) <= Distance(t, b, j)
    BY <2>3, FirstOfIs
  <2>5. CASE t[k] = b
    BY <2>4, <2>5 DEF Find
  <2>6. CASE t[k] # b
    <3>1. k \in FreeSlots(t)
      BY <2>6 DEF FreeSlots
    <3>2. Distance(t, b, i) <= Distance(t, b, k)
      BY <1>2, <2>1, <2>2, <3>1 DEF Reachable
    <3>3. Distance(t, b, k) <= Distance(t, b, i)
      BY <2>3, <2>4
    <3>4. Distance(t, b, i) \in Nat /\ Distance(t, b, k) \in Nat
      BY <2>2, DistanceInjective
    <3>5. Distance(t, b, i) = Distance(t, b, k)
      BY <3>2, <3>3, <3>4
    <3>6. i = k
      BY <3>5, DistanceInjective
    <3> QED BY <2>2, <2>6, <3>6
  <2> QED BY <2>5, <2>6
<1> QED BY <1>1, <1>2

-----------------------------------------------------------------------------
(* Growing.                                                                *)

LEMMA NoTableIs ==
  ASSUME NEW cap \in Nat, cap > 0
  PROVE  /\ NoTable(cap) \in Tables(cap) /\ OneEach(NoTable(cap)) /\ Reachable(NoTable(cap))
         /\ Recorded(NoTable(cap)) = {}
<1> DEFINE t == NoTable(cap)
<1>1. t \in Tables(cap) /\ DOMAIN t = 0..(cap - 1) /\ \A i \in DOMAIN t : t[i] = Empty
  BY DEF NoTable, Tables
<1> HIDE DEF t
<1>2. OneEach(t) /\ Reachable(t) /\ Recorded(t) = {}
  BY <1>1 DEF OneEach, Reachable, Recorded
<1> QED BY <1>1, <1>2 DEF t

\* The records of the first n slots.
RecordedBefore(t, n) == {t[i] : i \in 0..(n - 1)} \ {Empty}

\* What holds of the larger table when the first n slots have been moved.
MovedSoFar(t, u, cap, n) ==
  /\ u \in Tables(2 * cap) /\ OneEach(u) /\ Reachable(u)
  /\ Recorded(u) = RecordedBefore(t, n)

\* Moving the record of the next slot.
LEMMA MoveOne ==
  ASSUME NEW cap \in Nat, cap > 0, NEW t \in Tables(cap), OneEach(t),
         NEW n \in 0..(cap - 1), NEW u, MovedSoFar(t, u, cap, n)
  PROVE  MovedSoFar(t, IF t[n] = Empty THEN u ELSE Put(u, t[n]), cap, n + 1)
<1>1. DOMAIN t = 0..(cap - 1) /\ 2 * cap \in Nat /\ 2 * cap > cap /\ 2 * cap > 0
  BY CapacityIs
<1>2. 0..(n + 1 - 1) = 0..(n - 1) \cup {n}
  OBVIOUS
<1>3. RecordedBefore(t, n + 1) = (RecordedBefore(t, n) \cup {t[n]}) \ {Empty}
  BY <1>2 DEF RecordedBefore
<1>4. CASE t[n] = Empty
  <2>1. RecordedBefore(t, n + 1) = RecordedBefore(t, n)
    BY <1>3, <1>4 DEF RecordedBefore
  <2> QED BY <1>4, <2>1 DEF MovedSoFar
<1>5. CASE t[n] # Empty
  <2>1. t[n] \in Buffers
    BY <1>1, <1>5 DEF Tables
  <2>2. t[n] \notin Recorded(u)
    <3>1. ASSUME NEW i \in 0..(n - 1) PROVE t[i] # t[n]
      BY <1>1, <1>5 DEF OneEach
    <3> QED BY <3>1 DEF MovedSoFar, RecordedBefore
  <2>3. Recorded(u) \subseteq Recorded(t)
    BY <1>1 DEF MovedSoFar, RecordedBefore, Recorded
  <2>4. Cardinality(Recorded(u)) <= Cardinality(Recorded(t))
    BY <2>3, RecordedFinite, FS_Subset
  <2>5. Cardinality(Recorded(t)) <= cap
    <3>1. Cardinality(Recorded(t)) = Cardinality(DOMAIN t \ FreeSlots(t))
      BY RecordedCounted
    <3>2. IsFiniteSet(DOMAIN t) /\ Cardinality(DOMAIN t) = cap
      BY CapacityIs DEF Capacity
    <3>3. Cardinality(DOMAIN t \ FreeSlots(t)) <= Cardinality(DOMAIN t)
      BY <3>2, FS_Subset
    <3> QED BY <3>1, <3>2, <3>3
  <2>6. Cardinality(Recorded(u)) < 2 * cap
    <3>1. u \in Tables(2 * cap)
      BY DEF MovedSoFar
    <3>2. Cardinality(Recorded(u)) \in Nat /\ Cardinality(Recorded(t)) \in Nat
      BY <1>1, <3>1, RecordedFinite
    <3> QED BY <1>1, <2>4, <2>5, <3>2
  <2>7. FreeSlots(u) # {}
    BY <1>1, <2>6, RoomLeft DEF MovedSoFar
  <2>8. /\ Put(u, t[n]) \in Tables(2 * cap) /\ OneEach(Put(u, t[n])) /\ Reachable(Put(u, t[n]))
        /\ Recorded(Put(u, t[n])) = Recorded(u) \cup {t[n]}
    BY <1>1, <2>1, <2>2, <2>7, PutKeeps DEF MovedSoFar
  <2>9. Recorded(Put(u, t[n])) = RecordedBefore(t, n + 1)
    BY <1>3, <1>5, <2>8 DEF MovedSoFar, RecordedBefore
  <2> QED BY <1>5, <2>8, <2>9 DEF MovedSoFar
<1> QED BY <1>4, <1>5

\* alloc_table_grow keeps every record, and puts each where a probe finds it.
LEMMA RehashedIs ==
  ASSUME NEW cap \in Nat, cap > 0, NEW t \in Tables(cap), OneEach(t)
  PROVE  /\ Rehashed(t) \in Tables(2 * cap) /\ OneEach(Rehashed(t)) /\ Reachable(Rehashed(t))
         /\ Recorded(Rehashed(t)) = Recorded(t)
<1>1. Capacity(t) = cap /\ DOMAIN t = 0..(cap - 1) /\ 2 * cap \in Nat /\ 2 * cap > 0
  BY CapacityIs
<1> DEFINE moved[n \in 0..Capacity(t)] ==
             IF n = 0 THEN NoTable(2 * Capacity(t))
             ELSE IF t[n - 1] = Empty THEN moved[n - 1] ELSE Put(moved[n - 1], t[n - 1])
           D == Tables(2 * cap)
           G == [n \in 1..cap |-> [u \in D |-> IF t[n - 1] = Empty THEN u ELSE Put(u, t[n - 1])]]
           S == {n \in 0..cap : MovedSoFar(t, moved[n], cap, n)}
<1>2. Rehashed(t) = moved[cap]
  BY <1>1 DEF Rehashed
<1>3. NoTable(2 * cap) \in D
  BY <1>1, NoTableIs
<1>4. ASSUME NEW u \in D, NEW b \in Buffers PROVE Put(u, b) \in D
  BY <1>4 DEF Put, Tables
<1>5. G \in NextValues(cap, D)
  <2>1. \A n \in 1..cap : t[n - 1] # Empty => t[n - 1] \in Buffers
    BY <1>1 DEF Tables
  <2> HIDE DEF D
  <2> QED BY <2>1, <1>4 DEF NextValues
<1>6. PICK f : Follows(f, cap, D, NoTable(2 * cap), G)
  <2> HIDE DEF D, G, moved
  <2> QED BY <1>3, <1>5, StepFunction, Zenon
<1>7. \A n \in 1..cap : f[n] = IF t[n - 1] = Empty THEN f[n - 1] ELSE Put(f[n - 1], t[n - 1])
  <2> SUFFICES ASSUME NEW n \in 1..cap
               PROVE  f[n] = IF t[n - 1] = Empty THEN f[n - 1] ELSE Put(f[n - 1], t[n - 1])
    OBVIOUS
  <2>1. f[n - 1] \in D
    BY <1>6 DEF Follows
  <2>2. G[n][f[n - 1]] = IF t[n - 1] = Empty THEN f[n - 1] ELSE Put(f[n - 1], t[n - 1])
    <3> HIDE DEF D, moved, S
    <3> QED BY <2>1
  <2> QED BY <1>6, <2>2 DEF Follows
<1>8. moved = [n \in 0..Capacity(t) |->
                IF n = 0 THEN NoTable(2 * Capacity(t))
                ELSE IF t[n - 1] = Empty THEN moved[n - 1] ELSE Put(moved[n - 1], t[n - 1])]
  <2>1. f = [n \in 0..Capacity(t) |->
                IF n = 0 THEN NoTable(2 * Capacity(t))
                ELSE IF t[n - 1] = Empty THEN f[n - 1] ELSE Put(f[n - 1], t[n - 1])]
    <3> HIDE DEF D, G
    <3> QED BY <1>1, <1>6, <1>7 DEF Follows
  <2> HIDE DEF D, G
  <2> QED BY <2>1
<1> HIDE DEF moved, G, D
<1>9. 0 \in S
  <2>1. moved[0] = NoTable(2 * cap)
    BY <1>1, <1>8
  <2>2. RecordedBefore(t, 0) = {}
    BY DEF RecordedBefore
  <2>3. MovedSoFar(t, moved[0], cap, 0)
    BY <1>1, <2>1, <2>2, NoTableIs DEF MovedSoFar
  <2> QED BY <2>3
<1>10. ASSUME NEW n \in 0..(cap - 1), n \in S PROVE n + 1 \in S
  <2>1. moved[n + 1] = IF t[n] = Empty THEN moved[n] ELSE Put(moved[n], t[n])
    BY <1>1, <1>8
  <2>2. MovedSoFar(t, moved[n + 1], cap, n + 1)
    BY <1>10, <2>1, MoveOne
  <2> QED BY <2>2
<1> HIDE DEF S
<1>11. cap \in S
  BY <1>9, <1>10, IntervalInduct
<1>12. MovedSoFar(t, moved[cap], cap, cap)
  BY <1>11 DEF S
<1>13. RecordedBefore(t, cap) = Recorded(t)
  BY <1>1 DEF RecordedBefore, Recorded
<1> QED BY <1>2, <1>12, <1>13 DEF MovedSoFar

-----------------------------------------------------------------------------
(* The invariant.                                                          *)

LEMMA TableInitInv == TableInit => TableInv
<1> SUFFICES ASSUME TableInit PROVE TableInv
  OBVIOUS
<1>1. InitCap \in Nat /\ InitCap > 0
  BY TableAssumption
<1>2. /\ table \in Tables(InitCap) /\ OneEach(table) /\ Recorded(table) = {}
      /\ count = 0 /\ held = {}
  BY <1>1, NoTableIs DEF TableInit
<1>3. Capacity(table) = InitCap
  BY <1>1, <1>2, CapacityIs
<1>4. Cardinality(Buffers) \in Nat /\ Cardinality({}) = 0
  BY TableAssumption, FS_CardinalityType, FS_EmptySet
<1> QED BY <1>1, <1>2, <1>3, <1>4 DEF TableInv, CountBound

\* vkr_malloc, with or without growth.
LEMMA MallocKeeps ==
  ASSUME TableInv, NEW b \in Buffers, Malloc(b)
  PROVE  TableInv' /\ (MustGrow => Reachable(table'))
<1> DEFINE cap == Capacity(table)
           target == IF MustGrow THEN Rehashed(table) ELSE table
           tcap == IF MustGrow THEN 2 * cap ELSE cap
<1>1. cap \in Nat /\ cap >= 3 /\ table \in Tables(cap) /\ OneEach(table)
  BY TableAssumption DEF TableInv
<1>2. tcap \in Nat /\ tcap > 0
  BY <1>1
<1>3. /\ target \in Tables(tcap) /\ OneEach(target) /\ Recorded(target) = Recorded(table)
      /\ MustGrow => Reachable(target)
  BY <1>1, RehashedIs
<1>4. b \notin Recorded(target)
  BY <1>3 DEF Malloc, Recorded
<1>5. count = Cardinality(Recorded(table)) /\ count \in Nat /\ count < cap
  BY <1>1, RecordedFinite DEF TableInv, CountBound
<1>6. FreeSlots(target) # {}
  <2>1. Cardinality(Recorded(target)) < tcap
    BY <1>1, <1>3, <1>5
  <2> HIDE DEF tcap, target
  <2> QED BY <1>2, <1>3, <2>1, RoomLeft
<1>7. table' = Put(target, b) /\ count' = count + 1 /\ held' = held \cup {b}
  BY DEF Malloc
<1>8. /\ table' \in Tables(tcap) /\ OneEach(table')
      /\ Recorded(table') = Recorded(table) \cup {b}
      /\ MustGrow => Reachable(table')
  <2> HIDE DEF tcap, target
  <2> QED BY <1>2, <1>3, <1>4, <1>6, <1>7, PutKeeps
<1>9. Capacity(table') = tcap
  <2> HIDE DEF tcap
  <2> QED BY <1>2, <1>8, CapacityIs
<1>10. count' = Cardinality(Recorded(table'))
  <2>1. b \notin Recorded(table) /\ IsFiniteSet(Recorded(table))
    BY <1>1, <1>3, <1>4, RecordedFinite
  <2>2. Cardinality(Recorded(table) \cup {b}) = Cardinality(Recorded(table)) + 1
    BY <2>1, FS_AddElement
  <2> QED BY <1>5, <1>7, <1>8, <2>2
<1>11. count' \in Nat /\ count' <= Cardinality(Buffers) /\ Cardinality(Buffers) \in Nat
  <2>1. Cardinality(Recorded(table')) \in Nat /\ Cardinality(Recorded(table')) <= Cardinality(Buffers)
    <3> HIDE DEF tcap
    <3> QED BY <1>2, <1>8, RecordedFinite
  <2> QED BY <1>10, <2>1, TableAssumption, FS_CardinalityType
<1>12. InitCap <= tcap /\ tcap <= InitCap + 4 * Cardinality(Buffers) /\ count' < tcap
  <2>1. InitCap \in Nat /\ InitCap <= cap /\ cap <= InitCap + 4 * Cardinality(Buffers)
    BY TableAssumption DEF TableInv
  <2>2. CASE MustGrow
    <3>1. tcap = 2 * cap
      BY <2>2
    <3>2. count * 10 >= cap * 6 /\ count + 1 <= Cardinality(Buffers)
      BY <1>7, <1>11, <2>2 DEF MustGrow
    <3> HIDE DEF tcap, cap
    <3> QED BY <1>1, <1>5, <1>7, <1>11, <2>1, <3>1, <3>2
  <2>3. CASE ~MustGrow
    <3>1. tcap = cap
      BY <2>3
    <3>2. count * 10 < cap * 6
      BY <1>1, <1>5, <2>3 DEF MustGrow
    <3> HIDE DEF tcap, cap
    <3> QED BY <1>1, <1>5, <1>7, <2>1, <3>1, <3>2
  <2> QED BY <2>2, <2>3
<1>13. held' \subseteq Recorded(table')
  BY <1>7, <1>8 DEF TableInv
<1> HIDE DEF tcap
<1> QED BY <1>2, <1>8, <1>9, <1>10, <1>12, <1>13 DEF TableInv, CountBound

\* vkr_free of a buffer that is found.
LEMMA FreeKeeps ==
  ASSUME TableInv, NEW b \in Buffers, FreeFound(b)
  PROVE  TableInv' /\ Capacity(table') = Capacity(table)
<1> DEFINE cap == Capacity(table)
<1>1. cap \in Nat /\ cap > 0 /\ table \in Tables(cap) /\ OneEach(table)
  BY TableAssumption DEF TableInv
<1>2. b # Empty
  BY TableAssumption
<1>3. PICK i \in Find(table, b) : i \in DOMAIN table /\ table[i] = b
  BY <1>1, FindIs DEF FreeFound
<1>4. Find(table, b) = {i}
  <2>1. \A j \in Find(table, b) : j \in DOMAIN table /\ table[j] = b
    BY <1>1, FindIs
  <2>2. \A j \in Find(table, b) : j = i
    BY <1>1, <1>2, <1>3, <2>1 DEF OneEach
  <2> QED BY <1>3, <2>2
<1>5. /\ table' = [table EXCEPT ![i] = Empty]
      /\ count' = count - 1 /\ held' = held \ {b}
  BY <1>1, <1>4 DEF FreeFound, CountDown, Tables
<1>6. /\ table' \in Tables(cap) /\ DOMAIN table' = DOMAIN table
      /\ table'[i] = Empty /\ \A j \in DOMAIN table : j # i => table'[j] = table[j]
  BY <1>1, <1>3, <1>5 DEF Tables
<1>7. Capacity(table') = cap
  BY <1>6 DEF Capacity
<1>8. OneEach(table')
  BY <1>1, <1>6 DEF OneEach
<1>9. Recorded(table') = Recorded(table) \ {b}
  BY <1>1, <1>2, <1>3, <1>6 DEF Recorded, OneEach
<1>10. b \in Recorded(table) /\ IsFiniteSet(Recorded(table)) /\ Cardinality(Recorded(table)) \in Nat
  BY <1>1, <1>2, <1>3, RecordedFinite DEF Recorded
<1>11. Cardinality(Recorded(table')) = Cardinality(Recorded(table)) - 1
  BY <1>9, <1>10, FS_RemoveElement
<1>12. count' = Cardinality(Recorded(table')) /\ count' < cap
  <2>1. count \in Nat /\ count < cap /\ count = Cardinality(Recorded(table))
    BY <1>10 DEF TableInv, CountBound
  <2> HIDE DEF cap
  <2> QED BY <1>1, <1>5, <1>11, <2>1
<1>13. held' \subseteq Recorded(table')
  BY <1>5, <1>9 DEF TableInv
<1>14. InitCap <= cap /\ cap <= InitCap + 4 * Cardinality(Buffers)
  BY DEF TableInv
<1> QED BY <1>1, <1>6, <1>7, <1>8, <1>12, <1>13, <1>14 DEF TableInv, CountBound

LEMMA TableStep == TableInv /\ [TableNext]_tableVars => TableInv'
<1> SUFFICES ASSUME TableInv, [TableNext]_tableVars PROVE TableInv'
  OBVIOUS
<1>1. ASSUME NEW b \in Buffers, Malloc(b) PROVE TableInv'
  BY <1>1, MallocKeeps
<1>2. ASSUME NEW b \in Buffers, FreeFound(b) PROVE TableInv'
  BY <1>2, FreeKeeps
<1>3. ASSUME NEW b \in Buffers, FreeMissed(b) PROVE TableInv'
  BY <1>3 DEF FreeMissed, TableInv, CountBound
<1>4. CASE RenewTable
  <2>1. InitCap \in Nat /\ InitCap > 0
    BY TableAssumption
  <2>2. /\ table' \in Tables(InitCap) /\ OneEach(table') /\ Recorded(table') = {}
        /\ count' = 0 /\ held' = {}
    BY <1>4, <2>1, NoTableIs DEF RenewTable
  <2>3. Capacity(table') = InitCap
    BY <2>1, <2>2, CapacityIs
  <2>4. Cardinality(Buffers) \in Nat /\ Cardinality({}) = 0
    BY TableAssumption, FS_CardinalityType, FS_EmptySet
  <2> QED BY <2>1, <2>2, <2>3, <2>4 DEF TableInv, CountBound
<1>5. CASE UNCHANGED tableVars
  BY <1>5 DEF tableVars, TableInv, CountBound
<1> QED BY <1>1, <1>2, <1>3, <1>4, <1>5 DEF TableNext

LEMMA TableAlways == TableSpec => []TableInv
BY TableInitInv, TableStep, PTL DEF TableSpec

-----------------------------------------------------------------------------
(* The theorems.                                                           *)

\* The variables have their types, and the table stays in proportion to the
\* handles there are.
THEOREM TableTypes == TableSpec => []TableTypeOK
<1>1. TableInv => TableTypeOK
  <2> SUFFICES ASSUME TableInv PROVE TableTypeOK
    OBVIOUS
  <2>1. InitCap \in Nat /\ Cardinality(Buffers) \in Nat
    BY TableAssumption, FS_CardinalityType
  <2>2. /\ Cardinality(Recorded(table)) \in Nat
        /\ Cardinality(Recorded(table)) <= Cardinality(Buffers)
        /\ Recorded(table) \subseteq Buffers
    BY RecordedFinite DEF TableInv
  <2> QED BY <2>1, <2>2 DEF TableInv, TableTypeOK, Tables
<1> QED BY <1>1, TableAlways, PTL

\* The probe loops of alloc_table_insert and alloc_table_rehash come to an end,
\* whatever the hash function: there always is an empty slot.
THEOREM ProbesComeToAnEnd == TableSpec => []ProbesEnd
<1>1. TableInv => ProbesEnd
  <2> SUFFICES ASSUME TableInv PROVE ProbesEnd
    OBVIOUS
  <2>1. Cardinality(Recorded(table)) < Capacity(table)
    BY DEF TableInv, CountBound
  <2> QED BY <2>1, RoomLeft DEF TableInv, ProbesEnd
<1> QED BY <1>1, TableAlways, PTL

\* alloc_count is the number of records in the table, through insertions,
\* removals, misses and growth.
THEOREM CountIsExact == TableSpec => []CountExact
<1>1. TableInv => CountExact
  BY RecordedCounted DEF TableInv, CountExact
<1> QED BY <1>1, TableAlways, PTL

\* Every buffer in use has one record, and no handle has two.
THEOREM EachRecordedOnce == TableSpec => []RecordedOnce
<1>1. TableInv => RecordedOnce
  <2> SUFFICES ASSUME TableInv, NEW b \in Buffers
               PROVE  Cardinality(Slots(b)) <= 1 /\ (b \in held => Slots(b) # {})
    BY DEF RecordedOnce
  <2>1. b # Empty
    BY TableAssumption
  <2>2. b \in held => Slots(b) # {}
    BY DEF TableInv, Recorded, Slots
  <2>3. Cardinality(Slots(b)) <= 1
    <3>1. CASE Slots(b) = {}
      BY <3>1, FS_EmptySet
    <3>2. CASE Slots(b) # {}
      <4>1. PICK i \in Slots(b) : TRUE
        BY <3>2
      <4>2. Slots(b) = {i}
        BY <2>1 DEF TableInv, OneEach, Slots
      <4>3. Cardinality({i}) = 1
        BY FS_Singleton
      <4> QED BY <4>2, <4>3
    <3> QED BY <3>1, <3>2
  <2> QED BY <2>2, <2>3
<1> QED BY <1>1, TableAlways, PTL

\* A step that grows the table leaves every record where alloc_table_find finds
\* it, also those that removals had cut off.
THEOREM GrowthRepairsAll == TableSpec => GrowthRepairs
<1> DEFINE Grows == Capacity(table') > Capacity(table) =>
                      \A b \in Buffers : Slots(b)' # {} => Find(table', b) # {}
<1>1. TableInv /\ [TableNext]_tableVars => [Grows]_tableVars
  <2> SUFFICES ASSUME TableInv, TableNext, Capacity(table') > Capacity(table),
                      NEW b \in Buffers, Slots(b)' # {}
               PROVE  Find(table', b) # {}
    BY DEF tableVars
  <2>1. TableInv' /\ InitCap \in Nat /\ InitCap > 0
    BY TableStep, TableAssumption
  <2>2. Capacity(table) \in Nat /\ InitCap <= Capacity(table)
    BY DEF TableInv
  <2>3. Reachable(table')
    <3>1. ASSUME NEW c \in Buffers, Malloc(c) PROVE Reachable(table')
      <4>1. CASE MustGrow
        BY <3>1, <4>1, MallocKeeps
      <4>2. CASE ~MustGrow
        <5>1. table' = Put(table, c)
          BY <3>1, <4>2 DEF Malloc
        <5>2. DOMAIN table' = DOMAIN table
          BY <5>1 DEF Put
        <5>3. Capacity(table') = Capacity(table)
          BY <5>2 DEF Capacity
        <5> QED BY <2>2, <5>3
      <4> QED BY <4>1, <4>2
    <3>2. ASSUME NEW c \in Buffers, FreeFound(c) PROVE Reachable(table')
      <4>1. Capacity(table') = Capacity(table)
        BY <3>2, FreeKeeps
      <4> QED BY <2>2, <4>1
    <3>3. ASSUME NEW c \in Buffers, FreeMissed(c) PROVE Reachable(table')
      <4>1. Capacity(table') = Capacity(table)
        BY <3>3 DEF FreeMissed
      <4> QED BY <2>2, <4>1
    <3>4. CASE RenewTable
      BY <2>1, <3>4, NoTableIs DEF RenewTable
    <3> QED BY <3>1, <3>2, <3>3, <3>4 DEF TableNext
  <2>4. b \in Recorded(table')
    BY TableAssumption DEF Slots, Recorded
  <2>5. Capacity(table') \in Nat /\ Capacity(table') > 0 /\ table' \in Tables(Capacity(table')) /\ OneEach(table')
    BY <2>1 DEF TableInv
  <2> QED BY <2>3, <2>4, <2>5, FindIs
<1> QED BY <1>1, TableAlways, PTL DEF TableSpec, GrowthRepairs
=============================================================================
