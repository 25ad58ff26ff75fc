----------------------------- MODULE Caches_proofs -----------------------------
(***************************************************************************)
(* TLAPS proofs about what the program keeps for a model: the paged KV     *)
(* cache (PagedKv), its replay markers (ReplayMarkers) and the streaming   *)
(* weight cache (StreamingCache), for any sizes, tensors and positions and *)
(* whatever fails.                                                         *)
(***************************************************************************)
EXTENDS PagedKv, ReplayMarkers, StreamingCache, DataLemmas, SequenceTheorems, FiniteSetTheorems, TLAPS

-----------------------------------------------------------------------------
(* The paged KV cache: which blocks are used, and by whom.                 *)

\* The inductive invariant: the bitmap marks blocks of the pool, and the counter
\* counts them.
CountInv == used \subseteq Blocks /\ UsedCountExact

LEMMA BlocksFinite == IsFiniteSet(Blocks)
BY FS_Interval, PagedAssumption DEF Blocks

\* Marking blocks that were free.
LEMMA Marked ==
  ASSUME NEW U \in SUBSET Blocks, NEW T \in SUBSET Blocks, U \cap T = {}
  PROVE  Cardinality(U \cup T) = Cardinality(U) + Cardinality(T)
<1>1. IsFiniteSet(U) /\ IsFiniteSet(T)
  BY BlocksFinite, FS_Subset
<1>2. Cardinality(U) \in Nat /\ Cardinality(T) \in Nat /\ Cardinality(U \cap T) = 0
  BY <1>1, FS_CardinalityType, FS_EmptySet
<1>3. Cardinality(U \cup T) = Cardinality(U) + Cardinality(T) - Cardinality(U \cap T)
  BY <1>1, FS_Union
<1> QED BY <1>2, <1>3, SMTT(20)

\* Unmarking blocks, some of which may be free already.
LEMMA Unmarked ==
  ASSUME NEW U \in SUBSET Blocks, NEW T
  PROVE  Cardinality(U \ T) = Cardinality(U) - Cardinality(T \cap U)
<1>1. IsFiniteSet(U)
  BY BlocksFinite, FS_Subset
<1>2. T \cap U = U \cap T
  OBVIOUS
<1>3. Cardinality(U \ T) = Cardinality(U) - Cardinality(U \cap T)
  BY <1>1, FS_Difference
<1> QED BY <1>2, <1>3

\* vaist_kv_paged_alloc_block: it keeps all it took or gives all of it back.
LEMMA AllocCounts ==
  ASSUME CountInv, NEW n \in 1..MaxAsk, AllocBlock(n)
  PROVE  CountInv'
<1> DEFINE taken == FirstFree(n)
           back == IF Cardinality(taken) < n THEN RolledBack(taken) ELSE {}
<1>1. /\ used' = (used \cup taken) \ back
      /\ usedCount' = usedCount + Cardinality(taken) - Cardinality(back)
  BY DEF AllocBlock
<1>2. taken \in SUBSET Blocks /\ used \in SUBSET Blocks /\ used \cap taken = {}
  BY DEF FirstFree, CountInv
<1>3. back = taken \/ back = {}
  BY DEF RolledBack
<1> HIDE DEF taken, back
<1>4. Cardinality(used \cup taken) = Cardinality(used) + Cardinality(taken)
  BY <1>2, Marked
<1>5. Cardinality(used) \in Nat /\ Cardinality(taken) \in Nat /\ Cardinality({}) = 0
  BY <1>2, BlocksFinite, FS_Subset, FS_CardinalityType, FS_EmptySet
<1>6. CASE back = {}
  <2>1. used' = used \cup taken
    BY <1>1, <1>6
  <2>2. usedCount' = usedCount + Cardinality(taken)
    <3>1. usedCount' = usedCount + Cardinality(taken) - 0
      BY <1>1, <1>5, <1>6
    <3> QED BY <3>1, <1>5 DEF CountInv, UsedCountExact
  <2> QED BY <2>1, <2>2, <1>2, <1>4 DEF CountInv, UsedCountExact
<1>7. CASE back = taken
  <2>1. used' = used
    BY <1>1, <1>2, <1>7
  <2>2. usedCount' = usedCount
    <3>1. usedCount' = usedCount + Cardinality(taken) - Cardinality(taken)
      BY <1>1, <1>7
    <3> QED BY <3>1, <1>5 DEF CountInv, UsedCountExact
  <2> QED BY <2>1, <2>2 DEF CountInv, UsedCountExact
<1> QED BY <1>3, <1>6, <1>7

\* vaist_kv_paged_free_block and _clear_seq count only blocks that were marked.
LEMMA FreeCounts ==
  ASSUME CountInv, NEW S, used' = used \ S,
         usedCount' = usedCount - Cardinality(FreedNow(S))
  PROVE  CountInv'
<1>1. Cardinality(used \ S) = Cardinality(used) - Cardinality(S \cap used)
  BY Unmarked DEF CountInv
<1> QED BY <1>1 DEF CountInv, UsedCountExact, FreedNow

LEMMA CountStep == CountInv /\ [PagedNext]_pagedVars => CountInv'
<1> SUFFICES ASSUME CountInv, [PagedNext]_pagedVars PROVE CountInv'
  OBVIOUS
<1>1. CASE Create
  BY <1>1 DEF Create, CountInv, UsedCountExact
<1>2. CASE Destroy
  <2>1. used' = {} /\ usedCount' = 0 /\ Cardinality({}) = 0
    BY <1>2, FS_EmptySet DEF Destroy
  <2> QED BY <2>1 DEF CountInv, UsedCountExact
<1>3. ASSUME NEW k \in DOMAIN Pieces, CreateFails(k) PROVE CountInv'
  BY <1>3 DEF CreateFails, CountInv, UsedCountExact
<1>4. ASSUME NEW n \in 1..MaxAsk, AllocBlock(n) PROVE CountInv'
  BY <1>4, AllocCounts
<1>5. ASSUME NEW b \in Blocks, FreeBlock(b) PROVE CountInv'
  <2>1. used' = used \ {b} /\ usedCount' = usedCount - Cardinality(FreedNow({b}))
    BY <1>5 DEF FreeBlock
  <2> QED BY <2>1, FreeCounts
<1>6. ASSUME NEW s \in Seqs, ClearSeq(s) PROVE CountInv'
  <2>1. /\ used' = used \ BlocksOf(seqTable, s)
        /\ usedCount' = usedCount - Cardinality(FreedNow(BlocksOf(seqTable, s)))
    BY <1>6 DEF ClearSeq
  <2> QED BY <2>1, FreeCounts
<1>7. CASE UNCHANGED <<used, usedCount>>
  BY <1>7 DEF CountInv, UsedCountExact
<1>8. CASE AssignBlocks
  BY <1>7, <1>8 DEF AssignBlocks, Assign, AssignNoArray, AssignNoTable, pagedVars
<1>9. ASSUME NEW s \in Seqs, ClearMissed(s) PROVE CountInv'
  BY <1>7, <1>9 DEF ClearMissed, pagedVars
<1>10. CASE UNCHANGED pagedVars
  BY <1>7, <1>10 DEF pagedVars
<1> QED BY <1>1, <1>2, <1>3, <1>4, <1>5, <1>6, <1>8, <1>9, <1>10 DEF PagedNext

\* total_blocks_used counts the marked blocks, for every pool, every table and
\* every way an allocation or a free can go; so it is never above max_blocks
\* and never wraps below zero.
THEOREM UsedBlocksCounted == PagedSpec => [](UsedCountExact /\ usedCount \in 0..MaxBlocks)
<1>1. PagedInit => CountInv
  BY FS_EmptySet DEF PagedInit, CountInv, UsedCountExact
<1>2. CountInv => UsedCountExact /\ usedCount \in 0..MaxBlocks
  <2> SUFFICES ASSUME CountInv PROVE usedCount \in 0..MaxBlocks
    BY DEF CountInv
  <2>1. MaxBlocks \in Nat /\ MaxBlocks > 0
    BY PagedAssumption
  <2>2. IsFiniteSet(Blocks) /\ Cardinality(Blocks) = MaxBlocks
    BY <2>1, FS_Interval DEF Blocks
  <2>3. /\ Cardinality(used) \in Nat
        /\ Cardinality(used) <= Cardinality(Blocks)
    BY <2>2, FS_Subset, FS_CardinalityType DEF CountInv
  <2> QED BY <2>1, <2>2, <2>3 DEF CountInv, UsedCountExact
<1> QED BY <1>1, <1>2, CountStep, PTL DEF PagedSpec

-----------------------------------------------------------------------------
(* The sequence table: its shape.                                          *)

Records == [seq : Seqs, blocks : Seq(Blocks) \ {<<>>}]
SeqTables(cap) == [Slots(cap) -> Records \cup {NoSeq}]
TakenIn(t) == DOMAIN t \ Vacant(t)
RecordsIn(t) == {t[i] : i \in TakenIn(t)}
Distinct(t) == \A i, j \in TakenIn(t) : t[i] = t[j] => i = j

\* No probe for the entry in slot i meets a vacant slot before it.
Unblocked(t, i) == \A j \in Vacant(t) : Steps(t, t[i].seq, i) <= Steps(t, t[i].seq, j)
AllUnblocked(t) == \A i \in TakenIn(t) : Unblocked(t, i)

LEMMA SlotsAre ==
  ASSUME NEW cap \in Nat, NEW t \in SeqTables(cap)
  PROVE  /\ DOMAIN t = 0..(cap - 1) /\ Cap(t) = cap /\ IsFiniteSet(DOMAIN t)
         /\ \A i \in DOMAIN t : t[i] \in Records \cup {NoSeq}
<1>1. DOMAIN t = 0..(cap - 1) /\ \A i \in DOMAIN t : t[i] \in Records \cup {NoSeq}
  BY DEF SeqTables, Slots
<1>2. IsFiniteSet(0..(cap - 1)) /\ Cardinality(0..(cap - 1)) = cap
  BY FS_Interval
<1> QED BY <1>1, <1>2 DEF Cap

LEMMA SlotIs ==
  ASSUME NEW cap \in Nat, NEW t \in SeqTables(cap), NEW i \in DOMAIN t
  PROVE  /\ i \in Vacant(t) <=> t[i] = NoSeq
         /\ i \in TakenIn(t) <=> t[i] \in Records
         /\ NoSeq \notin Records
<1>1. t[i] \in Records \cup {NoSeq}
  BY SlotsAre
<1>2. NoSeq.blocks = <<>> /\ \A e \in Records : e.blocks # <<>>
  BY DEF NoSeq, Records
<1> QED BY <1>1, <1>2 DEF Vacant, TakenIn

\* The entries are as many as their records, when no two are the same.
LEMMA TakenCounted ==
  ASSUME NEW cap \in Nat, NEW t \in SeqTables(cap), Distinct(t)
  PROVE  /\ IsFiniteSet(TakenIn(t)) /\ Cardinality(TakenIn(t)) \in Nat
         /\ Cardinality(TakenIn(t)) = Cardinality(RecordsIn(t))
<1> DEFINE f == [i \in TakenIn(t) |-> t[i]]
<1>1. IsFiniteSet(TakenIn(t))
  BY SlotsAre, FS_Subset DEF TakenIn
<1>2. f \in Bijection(TakenIn(t), RecordsIn(t))
  <2>1. f \in [TakenIn(t) -> RecordsIn(t)]
    BY DEF RecordsIn
  <2>2. \A i, j \in TakenIn(t) : f[i] = f[j] => i = j
    BY DEF Distinct
  <2>3. \A e \in RecordsIn(t) : \E i \in TakenIn(t) : f[i] = e
    BY DEF RecordsIn
  <2> HIDE DEF f
  <2> QED BY <2>1, <2>2, <2>3 DEF Bijection, Injection, IsInjective, Surjection
<1>3. Cardinality(TakenIn(t)) = Cardinality(RecordsIn(t))
  BY <1>1, <1>2, FS_Bijection DEF ExistsBijection
<1> QED BY <1>1, <1>3, FS_CardinalityType

LEMMA VacantLeft ==
  ASSUME NEW cap \in Nat, NEW t \in SeqTables(cap), Cardinality(TakenIn(t)) < cap
  PROVE  Vacant(t) # {}
<1> SUFFICES ASSUME Vacant(t) = {} PROVE FALSE
  OBVIOUS
<1>1. TakenIn(t) = DOMAIN t
  BY DEF TakenIn
<1> QED BY <1>1, SlotsAre DEF Cap

-----------------------------------------------------------------------------
(* The sequence table: probing.                                            *)

LEMMA StepsInjective ==
  ASSUME NEW cap \in Nat, cap > 0, NEW t \in SeqTables(cap), NEW s \in Nat,
         NEW i \in DOMAIN t, NEW j \in DOMAIN t
  PROVE  /\ Steps(t, s, i) \in Nat
         /\ Steps(t, s, i) = Steps(t, s, j) => i = j
<1> DEFINE h == s % cap
<1>1. Cap(t) = cap /\ i \in 0..(cap - 1) /\ j \in 0..(cap - 1)
  BY SlotsAre
<1>2. h \in 0..(cap - 1)
  OBVIOUS
<1>3. Steps(t, s, i) = (i + cap - h) % cap /\ Steps(t, s, j) = (j + cap - h) % cap
  BY <1>1 DEF Steps
<1> HIDE DEF h
<1>4. /\ (i + cap - h) % cap = IF h <= i THEN i - h ELSE i + cap - h
      /\ (i + cap - h) % cap \in 0..(cap - 1)
  BY <1>1, <1>2, ProbeSteps
<1>5. (j + cap - h) % cap = IF h <= j THEN j - h ELSE j + cap - h
  BY <1>1, <1>2, ProbeSteps
<1>6. PICK d \in 0..(cap - 1), e \in Int :
        /\ Steps(t, s, i) = d /\ d = IF h <= i THEN i - h ELSE i + cap - h
        /\ Steps(t, s, j) = e /\ e = IF h <= j THEN j - h ELSE j + cap - h
  BY <1>1, <1>2, <1>3, <1>4, <1>5
<1>7. d = e => i = j
  BY <1>1, <1>2, <1>6
<1> QED BY <1>6, <1>7

\* A probe that can stop at some slot of S stops at one, the nearest.
LEMMA FirstProbedIs ==
  ASSUME NEW cap \in Nat, cap > 0, NEW t \in SeqTables(cap), NEW s \in Nat,
         NEW S \in SUBSET DOMAIN t, S # {}
  PROVE  \E i \in S : /\ FirstProbed(S, t, s) = {i}
                      /\ \A j \in S : Steps(t, s, i) <= Steps(t, s, j)
<1> DEFINE far == {Steps(t, s, i) : i \in S}
<1>1. far \in SUBSET Nat /\ far \in SUBSET Int /\ far # {}
  BY StepsInjective
<1>2. PICK d \in far : \A e \in far : d <= e
  BY <1>1, LeastElement
<1>3. PICK i \in S : d = Steps(t, s, i)
  BY <1>2
<1>4. \A j \in S : Steps(t, s, i) <= Steps(t, s, j)
  BY <1>2, <1>3
<1>5. Min(far) = d
  <2> HIDE DEF far
  <2> QED BY <1>1, <1>2, MinIs
<1>6. FirstProbed(S, t, s) = {k \in S : Steps(t, s, k) = d}
  BY <1>5 DEF FirstProbed
<1>7. \A k \in S : Steps(t, s, k) = d => k = i
  BY <1>3, StepsInjective
<1> QED BY <1>3, <1>4, <1>6, <1>7

\* Where a new entry goes, and what that leaves alone.
LEMMA PlacedIs ==
  ASSUME NEW cap \in Nat, cap > 0, NEW t \in SeqTables(cap), NEW e \in Records, Vacant(t) # {}
  PROVE  \E v \in Vacant(t) :
           /\ FirstProbed(Vacant(t), t, e.seq) = {v}
           /\ Placed(t, e) = [t EXCEPT ![v] = e]
           /\ \A j \in Vacant(t) : Steps(t, e.seq, v) <= Steps(t, e.seq, j)
<1>1. Vacant(t) \in SUBSET DOMAIN t /\ e.seq \in Nat
  BY PagedAssumption DEF Vacant, Records
<1>2. PICK v \in Vacant(t) : /\ FirstProbed(Vacant(t), t, e.seq) = {v}
                            /\ \A j \in Vacant(t) : Steps(t, e.seq, v) <= Steps(t, e.seq, j)
  BY <1>1, FirstProbedIs
<1>3. Placed(t, e) = [t EXCEPT ![v] = e]
  <2>1. Placed(t, e) = [i \in DOMAIN t |-> IF i \in {v} THEN e ELSE t[i]]
    BY <1>2 DEF Placed
  <2> QED BY <1>1, <2>1 DEF SeqTables
<1> QED BY <1>2, <1>3

LEMMA PlacedKeeps ==
  ASSUME NEW cap \in Nat, cap > 0, NEW t \in SeqTables(cap), NEW e \in Records,
         Vacant(t) # {}, Distinct(t), e \notin RecordsIn(t)
  PROVE  LET u == Placed(t, e)
         IN  /\ u \in SeqTables(cap) /\ Distinct(u)
             /\ RecordsIn(u) = RecordsIn(t) \cup {e}
             /\ \E v \in Vacant(t) : /\ TakenIn(u) = TakenIn(t) \cup {v} /\ u[v] = e /\ Unblocked(u, v)
             /\ \A i \in TakenIn(t) : u[i] = t[i] /\ (Unblocked(t, i) => Unblocked(u, i))
<1>1. PICK v \in Vacant(t) :
        /\ Placed(t, e) = [t EXCEPT ![v] = e]
        /\ \A j \in Vacant(t) : Steps(t, e.seq, v) <= Steps(t, e.seq, j)
  BY PlacedIs
<1> DEFINE u == [t EXCEPT ![v] = e]
<1>2. v \in DOMAIN t
  BY DEF Vacant
<1>3. u \in SeqTables(cap) /\ DOMAIN u = DOMAIN t
  BY <1>2 DEF SeqTables
<1>4. u[v] = e /\ \A i \in DOMAIN t : i # v => u[i] = t[i]
  BY <1>2, <1>3 DEF SeqTables
<1> HIDE DEF u
<1>5. TakenIn(u) = TakenIn(t) \cup {v} /\ Vacant(u) = Vacant(t) \ {v} /\ v \notin TakenIn(t)
  <2>1. e.blocks # <<>>
    BY DEF Records
  <2> QED BY <1>2, <1>3, <1>4, <2>1 DEF TakenIn, Vacant
<1>6. Distinct(u) /\ RecordsIn(u) = RecordsIn(t) \cup {e}
  <2>1. \A i \in TakenIn(t) : u[i] = t[i] /\ t[i] # e
    BY <1>4, <1>5 DEF TakenIn, RecordsIn
  <2> QED BY <1>4, <1>5, <2>1 DEF Distinct, RecordsIn
<1>7. \A x, i : Steps(u, x, i) = Steps(t, x, i)
  BY <1>3 DEF Steps, Cap
<1>8. Unblocked(u, v)
  BY <1>1, <1>4, <1>5, <1>7 DEF Unblocked
<1>9. ASSUME NEW i \in TakenIn(t) PROVE u[i] = t[i] /\ (Unblocked(t, i) => Unblocked(u, i))
  <2>1. u[i] = t[i]
    BY <1>4, <1>5 DEF TakenIn
  <2> QED BY <1>5, <1>7, <2>1 DEF Unblocked
<1> QED BY <1>1, <1>3, <1>4, <1>5, <1>6, <1>8, <1>9, ZenonT(60) DEF u

-----------------------------------------------------------------------------
(* The sequence table: growing.                                            *)

LEMMA EmptyTableIs ==
  ASSUME NEW cap \in Nat
  PROVE  LET t == EmptyTable(cap)
         IN  t \in SeqTables(cap) /\ TakenIn(t) = {} /\ RecordsIn(t) = {} /\ Distinct(t) /\ AllUnblocked(t)
<1> DEFINE t == EmptyTable(cap)
<1>1. t \in SeqTables(cap) /\ \A i \in DOMAIN t : t[i] = NoSeq
  BY DEF EmptyTable, SeqTables
<1> HIDE DEF t
<1>2. TakenIn(t) = {}
  BY <1>1, SlotIs DEF TakenIn
<1>3. RecordsIn(t) = {} /\ Distinct(t) /\ AllUnblocked(t)
  BY <1>2 DEF RecordsIn, Distinct, AllUnblocked
<1> QED BY <1>1, <1>2, <1>3 DEF t

RecordsBefore(t, n) == {t[i] : i \in 0..(n - 1)} \ {NoSeq}
MovedOver(t, u, cap, n) ==
  /\ u \in SeqTables(2 * cap) /\ Distinct(u) /\ AllUnblocked(u)
  /\ RecordsIn(u) = RecordsBefore(t, n)

\* Moving the entry of the next slot.
LEMMA MoveEntry ==
  ASSUME NEW cap \in Nat, cap > 0, NEW t \in SeqTables(cap), Distinct(t),
         NEW n \in 0..(cap - 1), NEW u, MovedOver(t, u, cap, n)
  PROVE  MovedOver(t, IF t[n].blocks = <<>> THEN u ELSE Placed(u, t[n]), cap, n + 1)
<1>1. DOMAIN t = 0..(cap - 1) /\ 2 * cap \in Nat /\ 2 * cap > cap /\ 2 * cap > 0 /\ n \in DOMAIN t
  BY SlotsAre
<1>2. 0..(n + 1 - 1) = 0..(n - 1) \cup {n}
  OBVIOUS
<1>3. RecordsBefore(t, n + 1) = (RecordsBefore(t, n) \cup {t[n]}) \ {NoSeq}
  BY <1>2 DEF RecordsBefore
<1>4. CASE t[n].blocks = <<>>
  <2>1. t[n] = NoSeq
    BY <1>1, <1>4, SlotIs DEF Vacant
  <2>2. RecordsBefore(t, n + 1) = RecordsBefore(t, n)
    BY <1>3, <2>1 DEF RecordsBefore
  <2> QED BY <1>4, <2>2 DEF MovedOver
<1>5. CASE t[n].blocks # <<>>
  <2> DEFINE w == Placed(u, t[n])
  <2>1. n \in TakenIn(t) /\ t[n] \in Records /\ t[n] # NoSeq
    BY <1>1, <1>5, SlotIs DEF TakenIn, Vacant
  <2>2. u \in SeqTables(2 * cap) /\ Distinct(u) /\ AllUnblocked(u) /\ RecordsIn(u) = RecordsBefore(t, n)
    BY DEF MovedOver
  <2>3. t[n] \notin RecordsIn(u)
    <3>1. ASSUME NEW i \in 0..(n - 1), t[i] = t[n] PROVE FALSE
      <4>1. i \in DOMAIN t /\ i # n
        BY <1>1
      <4>2. i \in TakenIn(t)
        BY <2>1, <3>1, <4>1, SlotIs
      <4> QED BY <2>1, <3>1, <4>1, <4>2 DEF Distinct
    <3> QED BY <2>2, <3>1 DEF RecordsBefore
  <2>4. RecordsIn(u) \subseteq RecordsIn(t)
    <3>1. ASSUME NEW i \in 0..(n - 1), t[i] # NoSeq PROVE t[i] \in RecordsIn(t)
      <4>1. i \in DOMAIN t
        BY <1>1
      <4> QED BY <3>1, <4>1, SlotIs DEF RecordsIn, TakenIn
    <3> QED BY <2>2, <3>1 DEF RecordsBefore
  <2>5. Vacant(u) # {}
    <3>1. /\ IsFiniteSet(TakenIn(t)) /\ Cardinality(TakenIn(t)) \in Nat
          /\ Cardinality(TakenIn(t)) = Cardinality(RecordsIn(t))
      BY TakenCounted
    <3>2. Cardinality(TakenIn(u)) \in Nat /\ Cardinality(TakenIn(u)) = Cardinality(RecordsIn(u))
      BY <1>1, <2>2, TakenCounted
    <3>3. IsFiniteSet(RecordsIn(t))
      <4> DEFINE f == [i \in TakenIn(t) |-> t[i]]
      <4>1. f \in Surjection(TakenIn(t), RecordsIn(t))
        BY DEF Surjection, RecordsIn
      <4> HIDE DEF f
      <4> QED BY <3>1, <4>1, FS_Surjection
    <3>4. Cardinality(RecordsIn(u)) <= Cardinality(RecordsIn(t))
      BY <2>4, <3>3, FS_Subset
    <3>5. Cardinality(TakenIn(t)) <= cap
      <4>1. TakenIn(t) \subseteq DOMAIN t /\ IsFiniteSet(DOMAIN t) /\ Cardinality(DOMAIN t) = cap
        BY SlotsAre DEF TakenIn, Cap
      <4> QED BY <4>1, FS_Subset
    <3> QED BY <1>1, <2>2, <3>1, <3>2, <3>4, <3>5, VacantLeft
  <2>6. /\ w \in SeqTables(2 * cap) /\ Distinct(w)
        /\ RecordsIn(w) = RecordsIn(u) \cup {t[n]}
        /\ \E v \in Vacant(u) : /\ TakenIn(w) = TakenIn(u) \cup {v} /\ Unblocked(w, v)
        /\ \A i \in TakenIn(u) : Unblocked(u, i) => Unblocked(w, i)
    <3> HIDE DEF w
    <3> QED BY <1>1, <2>1, <2>2, <2>3, <2>5, PlacedKeeps DEF w
  <2> HIDE DEF w
  <2>7. AllUnblocked(w)
    BY <2>2, <2>6 DEF AllUnblocked
  <2>8. RecordsIn(w) = RecordsBefore(t, n + 1)
    BY <1>3, <2>1, <2>2, <2>6 DEF RecordsBefore
  <2> QED BY <1>5, <2>6, <2>7, <2>8 DEF MovedOver, w
<1> QED BY <1>4, <1>5

\* The rehash keeps every entry, and puts each where a lookup finds it.
LEMMA RegrownIs ==
  ASSUME NEW cap \in Nat, cap > 0, NEW t \in SeqTables(cap), Distinct(t)
  PROVE  LET u == Regrown(t)
         IN  /\ u \in SeqTables(2 * cap) /\ Distinct(u) /\ AllUnblocked(u)
             /\ RecordsIn(u) = RecordsIn(t)
<1>1. Cap(t) = cap /\ DOMAIN t = 0..(cap - 1) /\ 2 * cap \in Nat /\ 2 * cap > 0
  BY SlotsAre
<1> DEFINE moved[n \in 0..Cap(t)] ==
             IF n = 0 THEN EmptyTable(2 * Cap(t))
             ELSE IF t[n - 1].blocks = <<>> THEN moved[n - 1] ELSE Placed(moved[n - 1], t[n - 1])
           D == SeqTables(2 * cap)
           G == [n \in 1..cap |-> [u \in D |-> IF t[n - 1].blocks = <<>> THEN u ELSE Placed(u, t[n - 1])]]
           S == {n \in 0..cap : MovedOver(t, moved[n], cap, n)}
<1>2. Regrown(t) = moved[cap]
  BY <1>1 DEF Regrown
<1>3. EmptyTable(2 * cap) \in D
  BY <1>1, EmptyTableIs
<1>4. ASSUME NEW u \in D, NEW e \in Records PROVE Placed(u, e) \in D
  BY <1>4 DEF Placed, SeqTables
<1>5. G \in NextValues(cap, D)
  <2>1. \A n \in 1..cap : t[n - 1].blocks # <<>> => t[n - 1] \in Records
    <3> SUFFICES ASSUME NEW n \in 1..cap, t[n - 1].blocks # <<>> PROVE t[n - 1] \in Records
      OBVIOUS
    <3>1. n - 1 \in DOMAIN t
      BY <1>1
    <3> QED BY <3>1, SlotIs DEF TakenIn, Vacant
  <2> HIDE DEF D
  <2> QED BY <2>1, <1>4 DEF NextValues
<1>6. PICK f : Follows(f, cap, D, EmptyTable(2 * cap), G)
  <2> HIDE DEF D, G, moved
  <2> QED BY <1>3, <1>5, StepFunction, Zenon
<1>7. \A n \in 1..cap : f[n] = IF t[n - 1].blocks = <<>> THEN f[n - 1] ELSE Placed(f[n - 1], t[n - 1])
  <2> SUFFICES ASSUME NEW n \in 1..cap
               PROVE  f[n] = IF t[n - 1].blocks = <<>> THEN f[n - 1] ELSE Placed(f[n - 1], t[n - 1])
    OBVIOUS
  <2>1. f[n - 1] \in D
    BY <1>6 DEF Follows
  <2>2. G[n][f[n - 1]] = IF t[n - 1].blocks = <<>> THEN f[n - 1] ELSE Placed(f[n - 1], t[n - 1])
    <3> HIDE DEF D, moved, S
    <3> QED BY <2>1
  <2> QED BY <1>6, <2>2 DEF Follows
<1>8. moved = [n \in 0..Cap(t) |->
                IF n = 0 THEN EmptyTable(2 * Cap(t))
                ELSE IF t[n - 1].blocks = <<>> THEN moved[n - 1] ELSE Placed(moved[n - 1], t[n - 1])]
  <2>1. f = [n \in 0..Cap(t) |->
                IF n = 0 THEN EmptyTable(2 * Cap(t))
                ELSE IF t[n - 1].blocks = <<>> THEN f[n - 1] ELSE Placed(f[n - 1], t[n - 1])]
    <3> HIDE DEF D, G
    <3> QED BY <1>1, <1>6, <1>7 DEF Follows
  <2> HIDE DEF D, G
  <2> QED BY <2>1
<1> HIDE DEF moved, G, D
<1>9. 0 \in S
  <2>1. moved[0] = EmptyTable(2 * cap)
    BY <1>1, <1>8
  <2>2. RecordsBefore(t, 0) = {}
    BY DEF RecordsBefore
  <2>3. MovedOver(t, moved[0], cap, 0)
    BY <1>1, <2>1, <2>2, EmptyTableIs DEF MovedOver
  <2> QED BY <2>3
<1>10. ASSUME NEW n \in 0..(cap - 1), n \in S PROVE n + 1 \in S
  <2> HIDE DEF S
  <2>1. moved[n + 1] = IF t[n].blocks = <<>> THEN moved[n] ELSE Placed(moved[n], t[n])
    <3>1. PICK j \in 0..Cap(t) : j = n + 1 /\ j # 0 /\ j - 1 = n
      BY <1>1
    <3> QED BY <1>8, <3>1
  <2>2. MovedOver(t, moved[n + 1], cap, n + 1)
    <3>1. MovedOver(t, moved[n], cap, n)
      BY <1>10 DEF S
    <3> QED BY <1>1, <2>1, <3>1, MoveEntry
  <2>3. n + 1 \in 0..cap
    BY <1>1
  <2> QED BY <2>2, <2>3 DEF S
<1> HIDE DEF S
<1>11. cap \in S
  BY <1>9, <1>10, IntervalInduct
<1>12. MovedOver(t, moved[cap], cap, cap)
  BY <1>11 DEF S
<1>13. RecordsBefore(t, cap) = RecordsIn(t)
  BY <1>1, SlotIs DEF RecordsBefore, RecordsIn, TakenIn
<1> QED BY <1>2, <1>12, <1>13 DEF MovedOver

-----------------------------------------------------------------------------
(* The sequence table: who has which blocks.                               *)

AllBlocks(t) == UNION {Range(t[i].blocks) : i \in TakenIn(t)}
Apart(t) ==
  \A i \in TakenIn(t) : /\ IsInjective(t[i].blocks)
                        /\ \A j \in TakenIn(t) \ {i} : Range(t[i].blocks) \cap Range(t[j].blocks) = {}

\* The one entry of s lists exactly this, and lookups find it; an empty list is no entry.
Exact(t, s, list) ==
  \/ list = <<>> /\ \A i \in TakenIn(t) : t[i].seq # s
  \/ \E i \in TakenIn(t) : /\ t[i] = [seq |-> s, blocks |-> list] /\ Unblocked(t, i)
                           /\ \A j \in TakenIn(t) : t[j].seq = s => j = i

LEMMA ListsNotEmpty ==
  ASSUME NEW cap \in Nat, NEW t \in SeqTables(cap), NEW i \in TakenIn(t)
  PROVE  t[i] \in Records /\ t[i].blocks[1] \in Range(t[i].blocks) /\ Range(t[i].blocks) \subseteq Blocks
<1>1. t[i] \in Records
  BY SlotIs DEF TakenIn
<1>2. t[i].blocks \in Seq(Blocks) /\ t[i].blocks # <<>>
  BY <1>1 DEF Records
<1> QED BY <1>1, <1>2 DEF Range

LEMMA ApartDistinct ==
  ASSUME NEW cap \in Nat, NEW t \in SeqTables(cap), Apart(t)
  PROVE  Distinct(t)
<1> SUFFICES ASSUME NEW i \in TakenIn(t), NEW j \in TakenIn(t), t[i] = t[j], i # j PROVE FALSE
  BY DEF Distinct
<1>1. Range(t[i].blocks) \cap Range(t[j].blocks) = {}
  BY DEF Apart
<1> QED BY <1>1, ListsNotEmpty

\* No more entries than blocks.
LEMMA EntriesFit ==
  ASSUME NEW cap \in Nat, NEW t \in SeqTables(cap), Apart(t)
  PROVE  Cardinality(TakenIn(t)) <= MaxBlocks
<1> DEFINE f == [i \in TakenIn(t) |-> t[i].blocks[1]]
<1>1. f \in Injection(TakenIn(t), Blocks)
  <2>1. f \in [TakenIn(t) -> Blocks]
    BY ListsNotEmpty
  <2>2. ASSUME NEW i \in TakenIn(t), NEW j \in TakenIn(t), f[i] = f[j] PROVE i = j
    <3>1. t[i].blocks[1] \in Range(t[i].blocks) \cap Range(t[j].blocks)
      BY <2>2, ListsNotEmpty
    <3> QED BY <3>1 DEF Apart
  <2> HIDE DEF f
  <2> QED BY <2>1, <2>2 DEF Injection, IsInjective
<1>2. IsFiniteSet(Blocks) /\ Cardinality(Blocks) = MaxBlocks
  BY FS_Interval, PagedAssumption DEF Blocks
<1> HIDE DEF f
<1> QED BY <1>1, <1>2, FS_Injection

\* A table with the same records has the same blocks and as many entries.
LEMMA SameRecords ==
  ASSUME NEW cap \in Nat, NEW t \in SeqTables(cap), Apart(t),
         NEW c \in Nat, NEW u \in SeqTables(c), Distinct(u), AllUnblocked(u), RecordsIn(u) = RecordsIn(t)
  PROVE  /\ Apart(u) /\ AllBlocks(u) = AllBlocks(t)
         /\ Cardinality(TakenIn(u)) = Cardinality(TakenIn(t))
         /\ \A s, list : Exact(t, s, list) => Exact(u, s, list)
<1>1. \A i \in TakenIn(u) : \E k \in TakenIn(t) : t[k] = u[i]
  BY DEF RecordsIn
<1>2. \A k \in TakenIn(t) : \E i \in TakenIn(u) : t[k] = u[i]
  BY DEF RecordsIn
<1>3. Apart(u)
  <2> SUFFICES ASSUME NEW i \in TakenIn(u)
               PROVE  /\ IsInjective(u[i].blocks)
                      /\ \A j \in TakenIn(u) \ {i} : Range(u[i].blocks) \cap Range(u[j].blocks) = {}
    BY DEF Apart
  <2>1. PICK k \in TakenIn(t) : t[k] = u[i]
    BY <1>1
  <2>2. ASSUME NEW j \in TakenIn(u), j # i PROVE Range(u[i].blocks) \cap Range(u[j].blocks) = {}
    <3>1. PICK l \in TakenIn(t) : t[l] = u[j]
      BY <1>1
    <3>2. l # k
      BY <2>1, <2>2, <3>1 DEF Distinct
    <3> QED BY <2>1, <3>1, <3>2 DEF Apart
  <2> QED BY <2>1, <2>2 DEF Apart
<1>4. AllBlocks(u) = AllBlocks(t)
  BY <1>1, <1>2 DEF AllBlocks
<1>5. Cardinality(TakenIn(u)) = Cardinality(TakenIn(t))
  BY TakenCounted, ApartDistinct
<1>6. ASSUME NEW s, NEW list, Exact(t, s, list) PROVE Exact(u, s, list)
  <2>1. CASE list = <<>> /\ \A i \in TakenIn(t) : t[i].seq # s
    BY <2>1, <1>1 DEF Exact
  <2>2. ASSUME NEW k \in TakenIn(t), t[k] = [seq |-> s, blocks |-> list],
               \A j \in TakenIn(t) : t[j].seq = s => j = k
        PROVE Exact(u, s, list)
    <3>1. PICK i \in TakenIn(u) : t[k] = u[i]
      BY <1>2
    <3>2. ASSUME NEW j \in TakenIn(u), u[j].seq = s PROVE j = i
      <4>1. PICK l \in TakenIn(t) : t[l] = u[j]
        BY <1>1
      <4> QED BY <2>2, <3>1, <3>2, <4>1 DEF Distinct
    <3> QED BY <2>2, <3>1, <3>2 DEF Exact, AllUnblocked
  <2> QED BY <1>6, <2>1, <2>2 DEF Exact
<1> QED BY <1>3, <1>4, <1>5, <1>6

-----------------------------------------------------------------------------
(* The sequence table: looking a sequence up.                              *)

\* A probe for s stops at the first entry of s or the first vacant slot.
LEMMA LookupIs ==
  ASSUME NEW cap \in Nat, cap > 0, NEW t \in SeqTables(cap), NEW s \in Seqs, Vacant(t) # {}
  PROVE  \E k \in DOMAIN t :
           /\ LookupOrCreate(t, s) = {k}
           /\ \/ k \in TakenIn(t) /\ t[k].seq = s /\ Lookup(t, s) = {k}
              \/ k \in Vacant(t) /\ Lookup(t, s) = {}
           /\ \A j \in DOMAIN t : j \in Vacant(t) \/ t[j].seq = s => Steps(t, s, k) <= Steps(t, s, j)
<1> DEFINE S == Vacant(t) \cup {j \in DOMAIN t : t[j].seq = s}
<1>1. S \in SUBSET DOMAIN t /\ S # {} /\ s \in Nat /\ Vacant(t) \in SUBSET DOMAIN t
  BY PagedAssumption DEF Vacant
<1>2. PICK k \in S : FirstProbed(S, t, s) = {k} /\ \A j \in S : Steps(t, s, k) <= Steps(t, s, j)
  <2> HIDE DEF S
  <2> QED BY <1>1, FirstProbedIs
<1>3. Lookup(t, s) = {i \in {k} : t[i].blocks # <<>>}
  BY <1>2 DEF Lookup
<1>4. \A j \in DOMAIN t : j \in Vacant(t) \/ t[j].seq = s => Steps(t, s, k) <= Steps(t, s, j)
  BY <1>2
<1>5. CASE t[k].blocks # <<>>
  <2>1. k \in TakenIn(t) /\ t[k].seq = s
    BY <1>1, <1>2, <1>5 DEF TakenIn, Vacant
  <2>2. Lookup(t, s) = {k}
    BY <1>3, <1>5
  <2>3. LookupOrCreate(t, s) = {k}
    BY <2>2 DEF LookupOrCreate
  <2> QED BY <1>4, <2>1, <2>2, <2>3 DEF TakenIn
<1>6. CASE t[k].blocks = <<>>
  <2>1. k \in Vacant(t) /\ Lookup(t, s) = {}
    BY <1>1, <1>2, <1>3, <1>6 DEF Vacant
  <2>2. PICK v \in Vacant(t) : /\ FirstProbed(Vacant(t), t, s) = {v}
                              /\ \A j \in Vacant(t) : Steps(t, s, v) <= Steps(t, s, j)
    BY <1>1, FirstProbedIs
  <2>3. Steps(t, s, v) <= Steps(t, s, k) /\ Steps(t, s, k) <= Steps(t, s, v)
    BY <1>1, <1>4, <2>1, <2>2
  <2>4. v = k
    BY <1>1, <2>1, <2>2, <2>3, StepsInjective
  <2>5. LookupOrCreate(t, s) = {k}
    BY <2>1, <2>2, <2>4 DEF LookupOrCreate
  <2> QED BY <1>1, <1>4, <2>1, <2>5
<1> QED BY <1>5, <1>6

\* A lookup of a sequence whose entry is exact finds that entry.
LEMMA LookupExact ==
  ASSUME NEW cap \in Nat, cap > 0, NEW t \in SeqTables(cap), NEW s \in Seqs, Vacant(t) # {},
         NEW list, Exact(t, s, list)
  PROVE  \/ list = <<>> /\ Lookup(t, s) = {}
         \/ \E i \in TakenIn(t) : Lookup(t, s) = {i} /\ t[i] = [seq |-> s, blocks |-> list]
<1>1. PICK k \in DOMAIN t :
        /\ \/ k \in TakenIn(t) /\ t[k].seq = s /\ Lookup(t, s) = {k}
           \/ k \in Vacant(t) /\ Lookup(t, s) = {}
        /\ \A j \in DOMAIN t : j \in Vacant(t) \/ t[j].seq = s => Steps(t, s, k) <= Steps(t, s, j)
  BY LookupIs
<1>2. CASE list = <<>> /\ \A i \in TakenIn(t) : t[i].seq # s
  BY <1>1, <1>2
<1>3. ASSUME NEW i \in TakenIn(t), t[i] = [seq |-> s, blocks |-> list], Unblocked(t, i),
             \A j \in TakenIn(t) : t[j].seq = s => j = i
      PROVE Lookup(t, s) = {i}
  <2>1. k \notin Vacant(t)
    <3> SUFFICES ASSUME k \in Vacant(t) PROVE FALSE
      OBVIOUS
    <3>1. i \in DOMAIN t /\ i \notin Vacant(t) /\ t[i].seq = s
      BY <1>3 DEF TakenIn
    <3>2. Steps(t, s, k) <= Steps(t, s, i) /\ Steps(t, s, i) <= Steps(t, s, k)
      BY <1>1, <1>3, <3>1 DEF Unblocked
    <3>3. s \in Nat
      BY PagedAssumption
    <3>4. Steps(t, s, k) \in Nat /\ Steps(t, s, i) \in Nat
      BY <3>1, <3>3, StepsInjective
    <3>5. Steps(t, s, i) = Steps(t, s, k)
      BY <3>2, <3>4
    <3>6. i = k
      BY <3>1, <3>3, <3>5, StepsInjective
    <3> QED BY <3>1, <3>6
  <2> QED BY <1>1, <1>3, <2>1
<1> QED BY <1>2, <1>3 DEF Exact

-----------------------------------------------------------------------------
(* The sequence table: adding to an entry and removing one.                *)

LEMMA ListsJoined ==
  ASSUME NEW a \in Seq(Blocks), NEW b \in Seq(Blocks), IsInjective(a), IsInjective(b),
         Range(a) \cap Range(b) = {}
  PROVE  /\ a \o b \in Seq(Blocks) /\ IsInjective(a \o b)
         /\ Range(a \o b) = Range(a) \cup Range(b)
<1> DEFINE c == a \o b
<1>1. c \in Seq(Blocks) /\ Len(c) = Len(a) + Len(b) /\ Len(a) \in Nat /\ Len(b) \in Nat
  OBVIOUS
<1>2. /\ DOMAIN a = 1..Len(a) /\ DOMAIN b = 1..Len(b) /\ DOMAIN c = 1..Len(c)
      /\ \A i \in 1..Len(a) : c[i] = a[i]
      /\ \A i \in 1..Len(b) : c[i + Len(a)] = b[i]
  OBVIOUS
<1> HIDE DEF c
<1>3. ASSUME NEW i \in DOMAIN c, i \notin DOMAIN a PROVE i - Len(a) \in DOMAIN b /\ c[i] = b[i - Len(a)]
  <2>1. i - Len(a) \in 1..Len(b) /\ i - Len(a) + Len(a) = i
    BY <1>1, <1>2, <1>3
  <2> QED BY <1>2, <2>1
<1>4. \A i \in DOMAIN a : i \in DOMAIN c /\ c[i] = a[i]
  BY <1>1, <1>2
<1>5. \A i \in DOMAIN b : i + Len(a) \in DOMAIN c /\ c[i + Len(a)] = b[i]
  BY <1>1, <1>2
<1>6. Range(c) = Range(a) \cup Range(b)
  BY <1>3, <1>4, <1>5 DEF Range
<1>7. \A i \in DOMAIN a : c[i] \in Range(a)
  BY <1>4 DEF Range
<1>8. \A i \in DOMAIN c \ DOMAIN a : c[i] \in Range(b)
  BY <1>3 DEF Range
<1>9. IsInjective(c)
  <2> SUFFICES ASSUME NEW i \in DOMAIN c, NEW j \in DOMAIN c, c[i] = c[j] PROVE i = j
    BY DEF IsInjective
  <2>1. CASE i \in DOMAIN a /\ j \in DOMAIN a
    BY <1>4, <2>1 DEF IsInjective
  <2>2. CASE i \in DOMAIN a /\ j \notin DOMAIN a
    BY <1>7, <1>8, <2>2
  <2>3. CASE i \notin DOMAIN a /\ j \in DOMAIN a
    BY <1>7, <1>8, <2>3
  <2>4. CASE i \notin DOMAIN a /\ j \notin DOMAIN a
    <3>1. i - Len(a) = j - Len(a)
      BY <1>3, <2>4 DEF IsInjective
    <3>2. i \in Nat /\ j \in Nat
      BY <1>1, <1>2
    <3> QED BY <1>1, <3>1, <3>2
  <2> QED BY <2>1, <2>2, <2>3, <2>4
<1> QED BY <1>1, <1>6, <1>9 DEF c

\* u is t with e in slot k.
OneSlot(t, u, k, e) == u = [t EXCEPT ![k] = e]

\* Changing one slot, to an entry with blocks nobody else has or to none.
LEMMA SlotChanged ==
  ASSUME NEW cap \in Nat, cap > 0, NEW t \in SeqTables(cap), Apart(t),
         NEW k \in DOMAIN t, NEW e \in Records \cup {NoSeq}, IsInjective(e.blocks),
         \A i \in TakenIn(t) \ {k} : Range(e.blocks) \cap Range(t[i].blocks) = {},
         NEW u, OneSlot(t, u, k, e)
  PROVE  /\ u \in SeqTables(cap) /\ Apart(u) /\ DOMAIN u = DOMAIN t
         /\ u[k] = e /\ \A i \in DOMAIN t : i # k => u[i] = t[i]
         /\ e = NoSeq => TakenIn(u) = TakenIn(t) \ {k} /\ Vacant(u) = Vacant(t) \cup {k}
         /\ e # NoSeq => TakenIn(u) = TakenIn(t) \cup {k} /\ Vacant(u) = Vacant(t) \ {k}
         /\ \A s, i : Steps(u, s, i) = Steps(t, s, i)
<1>1. u \in SeqTables(cap) /\ DOMAIN u = DOMAIN t /\ u[k] = e /\ \A i \in DOMAIN t : i # k => u[i] = t[i]
  BY DEF SeqTables, OneSlot
<1>2. e.blocks = <<>> <=> e = NoSeq
  BY DEF Records, NoSeq
<1>3. /\ e = NoSeq => TakenIn(u) = TakenIn(t) \ {k} /\ Vacant(u) = Vacant(t) \cup {k}
      /\ e # NoSeq => TakenIn(u) = TakenIn(t) \cup {k} /\ Vacant(u) = Vacant(t) \ {k}
  BY <1>1, <1>2 DEF TakenIn, Vacant
<1>4. Apart(u)
  <2>1. \A i \in TakenIn(u) \ {k} : i \in TakenIn(t) /\ u[i] = t[i]
    BY <1>1, <1>3 DEF TakenIn
  <2> QED BY <1>1, <2>1 DEF Apart
<1>5. \A s, i : Steps(u, s, i) = Steps(t, s, i)
  BY <1>1 DEF Steps, Cap
<1> QED BY <1>1, <1>3, <1>4, <1>5

LEMMA StoreIs ==
  ASSUME NEW cap \in Nat, cap > 0, NEW t \in SeqTables(cap), Apart(t), Vacant(t) # {},
         NEW s \in Seqs, NEW ids \in Seq(Blocks), ids # <<>>, IsInjective(ids),
         Range(ids) \cap AllBlocks(t) = {}
  PROVE  LET u == Store(t, s, ids)
         IN  /\ u \in SeqTables(cap) /\ Apart(u)
             /\ AllBlocks(u) = AllBlocks(t) \cup Range(ids)
             /\ Cardinality(TakenIn(u)) = Cardinality(TakenIn(t)) + IsNew(t, s)
             /\ \A x \in Seqs, list \in Seq(Blocks) :
                  Exact(t, x, list) => Exact(u, x, IF x = s THEN list \o ids ELSE list)
<1>1. PICK k \in DOMAIN t :
        /\ LookupOrCreate(t, s) = {k}
        /\ \/ k \in TakenIn(t) /\ t[k].seq = s /\ Lookup(t, s) = {k}
           \/ k \in Vacant(t) /\ Lookup(t, s) = {}
        /\ \A j \in DOMAIN t : j \in Vacant(t) \/ t[j].seq = s => Steps(t, s, k) <= Steps(t, s, j)
  BY LookupIs
<1> DEFINE e == [seq |-> s, blocks |-> t[k].blocks \o ids]
           u == [t EXCEPT ![k] = e]
<1>2. Store(t, s, ids) = u
  <2>1. Store(t, s, ids) = [i \in DOMAIN t |-> IF i \in {k} THEN [seq |-> s, blocks |-> t[i].blocks \o ids] ELSE t[i]]
    BY <1>1 DEF Store
  <2> QED BY <2>1 DEF SeqTables
<1>3. /\ t[k].blocks \in Seq(Blocks) /\ IsInjective(t[k].blocks)
      /\ Range(t[k].blocks) \cap Range(ids) = {}
      /\ k \notin TakenIn(t) => t[k].blocks = <<>> /\ Range(t[k].blocks) = {}
  <2>1. CASE k \in TakenIn(t)
    <3>1. t[k] \in Records
      BY <2>1, ListsNotEmpty
    <3> QED BY <2>1, <3>1 DEF Apart, AllBlocks, Records
  <2>2. CASE k \notin TakenIn(t)
    <3>1. t[k].blocks = <<>>
      BY <2>2 DEF TakenIn, Vacant
    <3> QED BY <2>2, <3>1 DEF IsInjective, Range
  <2> QED BY <2>1, <2>2
<1>4. /\ t[k].blocks \o ids \in Seq(Blocks) /\ IsInjective(t[k].blocks \o ids)
      /\ Range(t[k].blocks \o ids) = Range(t[k].blocks) \cup Range(ids)
  BY <1>3, ListsJoined
<1>5. e \in Records /\ e # NoSeq /\ IsInjective(e.blocks) /\ Range(e.blocks) = Range(t[k].blocks) \cup Range(ids)
  <2>1. t[k].blocks \o ids # <<>>
    BY <1>3
  <2> QED BY <1>4, <2>1 DEF Records, NoSeq
<1>6. \A i \in TakenIn(t) \ {k} : Range(e.blocks) \cap Range(t[i].blocks) = {}
  <2> SUFFICES ASSUME NEW i \in TakenIn(t) \ {k} PROVE Range(e.blocks) \cap Range(t[i].blocks) = {}
    OBVIOUS
  <2>1. Range(ids) \cap Range(t[i].blocks) = {}
    BY DEF AllBlocks
  <2>2. Range(t[k].blocks) \cap Range(t[i].blocks) = {}
    BY <1>3 DEF Apart
  <2> QED BY <1>5, <2>1, <2>2
<1>e. e.seq = s /\ e.blocks = t[k].blocks \o ids
  OBVIOUS
<1>o. OneSlot(t, u, k, e)
  BY DEF OneSlot
<1> HIDE DEF e, u
<1>7. /\ u \in SeqTables(cap) /\ Apart(u)
      /\ u[k] = e /\ \A i \in DOMAIN t : i # k => u[i] = t[i]
      /\ TakenIn(u) = TakenIn(t) \cup {k} /\ Vacant(u) = Vacant(t) \ {k}
      /\ DOMAIN u = DOMAIN t
      /\ \A x, i : Steps(u, x, i) = Steps(t, x, i)
  BY <1>5, <1>6, <1>o, SlotChanged
<1>8. AllBlocks(u) = AllBlocks(t) \cup Range(ids)
  <2>1. \A i \in TakenIn(t) \ {k} : u[i] = t[i]
    BY <1>7 DEF TakenIn
  <2> QED BY <1>3, <1>5, <1>7, <2>1 DEF AllBlocks
<1>9. Cardinality(TakenIn(u)) = Cardinality(TakenIn(t)) + IsNew(t, s)
  <2>1. IsFiniteSet(TakenIn(t)) /\ Cardinality(TakenIn(t)) \in Nat
    BY ApartDistinct, TakenCounted
  <2>2. CASE k \in TakenIn(t)
    <3>1. TakenIn(u) = TakenIn(t) /\ IsNew(t, s) = 0
      BY <1>1, <1>7, <2>2 DEF IsNew, TakenIn
    <3> QED BY <2>1, <3>1
  <2>3. CASE k \notin TakenIn(t)
    <3>1. IsNew(t, s) = 1
      BY <1>1, <2>3 DEF IsNew
    <3> QED BY <1>7, <2>1, <2>3, <3>1, FS_AddElement
  <2> QED BY <2>2, <2>3
<1>10. ASSUME NEW x \in Seqs, NEW list \in Seq(Blocks), Exact(t, x, list), x # s PROVE Exact(u, x, list)
  <2>1. \A i \in TakenIn(t) : t[i].seq = x => i # k
    <3>1. k \in TakenIn(t) => t[k].seq = s
      BY <1>1 DEF TakenIn
    <3> QED BY <1>10, <3>1
  <2>2. \A i \in TakenIn(u) : u[i].seq = x => i \in TakenIn(t) /\ u[i] = t[i]
    BY <1>7, <1>10, <1>e DEF TakenIn
  <2>3. CASE list = <<>> /\ \A i \in TakenIn(t) : t[i].seq # x
    BY <2>2, <2>3 DEF Exact
  <2>4. ASSUME NEW i \in TakenIn(t), t[i] = [seq |-> x, blocks |-> list], Unblocked(t, i),
               \A j \in TakenIn(t) : t[j].seq = x => j = i
        PROVE  Exact(u, x, list)
    <3>1. i \in TakenIn(u) /\ u[i] = t[i]
      <4>1. t[i].seq = x /\ i \in DOMAIN t
        BY <2>4 DEF TakenIn
      <4> QED BY <1>7, <2>1, <4>1
    <3>2. Unblocked(u, i)
      BY <1>7, <2>4, <3>1 DEF Unblocked
    <3>3. \A j \in TakenIn(u) : u[j].seq = x => j = i
      BY <2>2, <2>4
    <3> QED BY <2>4, <3>1, <3>2, <3>3 DEF Exact
  <2>5. \/ list = <<>> /\ \A i \in TakenIn(t) : t[i].seq # x
        \/ \E i \in TakenIn(t) : /\ t[i] = [seq |-> x, blocks |-> list] /\ Unblocked(t, i)
                                 /\ \A j \in TakenIn(t) : t[j].seq = x => j = i
    BY <1>10 DEF Exact
  <2> QED BY <2>3, <2>4, <2>5
<1>11. ASSUME NEW list \in Seq(Blocks), Exact(t, s, list) PROVE Exact(u, s, list \o ids)
  <2>1. t[k].blocks = list /\ \A i \in TakenIn(t) : t[i].seq = s => i = k
    <3>1. CASE list = <<>> /\ \A i \in TakenIn(t) : t[i].seq # s
      <4>1. k \notin TakenIn(t)
        BY <1>1, <3>1 DEF TakenIn
      <4>2. t[k].blocks = list
        BY <1>3, <3>1, <4>1
      <4> QED BY <3>1, <4>2
    <3>2. ASSUME NEW i \in TakenIn(t), t[i] = [seq |-> s, blocks |-> list],
                 \A j \in TakenIn(t) : t[j].seq = s => j = i, Lookup(t, s) = {i}
          PROVE t[k].blocks = list /\ \A j \in TakenIn(t) : t[j].seq = s => j = k
      BY <1>1, <3>2
    <3>3. \/ list = <<>> /\ Lookup(t, s) = {}
          \/ \E i \in TakenIn(t) : Lookup(t, s) = {i} /\ t[i] = [seq |-> s, blocks |-> list]
      BY <1>11, LookupExact
    <3>4. list # <<>> \/ \A i \in TakenIn(t) : t[i].seq # s
      <4>1. \A i \in TakenIn(t) : t[i].blocks # <<>>
        BY DEF TakenIn, Vacant
      <4> QED BY <1>11, <4>1 DEF Exact
    <3> QED BY <1>11, <3>1, <3>2, <3>3, <3>4 DEF Exact
  <2>2. u[k] = [seq |-> s, blocks |-> list \o ids] /\ k \in TakenIn(u)
    BY <1>7, <2>1 DEF e
  <2>3. \A j \in TakenIn(u) : u[j].seq = s => j = k
    BY <1>7, <2>1 DEF TakenIn
  <2>4. Unblocked(u, k)
    BY <1>1, <1>7, <1>e, <2>2 DEF Unblocked, Vacant
  <2> QED BY <2>2, <2>3, <2>4 DEF Exact
<1> QED BY <1>2, <1>7, <1>8, <1>9, <1>10, <1>11

LEMMA ClearedIs ==
  ASSUME NEW cap \in Nat, cap > 0, NEW t \in SeqTables(cap), Apart(t), NEW k \in TakenIn(t)
  PROVE  LET u == [t EXCEPT ![k] = NoSeq]
         IN  /\ u \in SeqTables(cap) /\ Apart(u)
             /\ AllBlocks(u) = AllBlocks(t) \ Range(t[k].blocks)
             /\ Cardinality(TakenIn(u)) = Cardinality(TakenIn(t)) - 1
             /\ \A list : Exact(t, t[k].seq, list) => Exact(u, t[k].seq, <<>>)
             /\ \A x \in Seqs : \A list :
                  /\ Exact(t, x, list) /\ x # t[k].seq
                  /\ \A i \in TakenIn(t) : t[i].seq = x => Steps(t, x, i) <= Steps(t, x, k)
                  => Exact(u, x, list)
<1> DEFINE u == [t EXCEPT ![k] = NoSeq]
<1>1. /\ k \in DOMAIN t /\ NoSeq \in Records \cup {NoSeq} /\ IsInjective(NoSeq.blocks) /\ Range(NoSeq.blocks) = {}
  BY DEF TakenIn, NoSeq, IsInjective, Range
<1>2. \A i \in TakenIn(t) \ {k} : Range(NoSeq.blocks) \cap Range(t[i].blocks) = {}
  BY <1>1
<1>o. OneSlot(t, u, k, NoSeq)
  BY DEF OneSlot
<1> HIDE DEF u
<1>3. /\ u \in SeqTables(cap) /\ Apart(u)
      /\ \A i \in DOMAIN t : i # k => u[i] = t[i]
      /\ TakenIn(u) = TakenIn(t) \ {k} /\ Vacant(u) = Vacant(t) \cup {k}
      /\ \A x, i : Steps(u, x, i) = Steps(t, x, i)
  BY <1>1, <1>2, <1>o, SlotChanged
<1>4. \A i \in TakenIn(t) \ {k} : i \in TakenIn(u) /\ u[i] = t[i]
  BY <1>3 DEF TakenIn
<1>5. AllBlocks(u) = AllBlocks(t) \ Range(t[k].blocks)
  <2>1. \A i \in TakenIn(t) \ {k} : Range(t[k].blocks) \cap Range(t[i].blocks) = {}
    BY DEF Apart
  <2> QED BY <1>3, <1>4, <2>1 DEF AllBlocks
<1>6. Cardinality(TakenIn(u)) = Cardinality(TakenIn(t)) - 1
  <2>1. IsFiniteSet(TakenIn(t))
    BY ApartDistinct, TakenCounted
  <2> QED BY <1>3, <2>1, FS_RemoveElement
<1>7. ASSUME NEW list, Exact(t, t[k].seq, list) PROVE Exact(u, t[k].seq, <<>>)
  <2>1. \A i \in TakenIn(t) : t[i].seq = t[k].seq => i = k
    BY <1>7 DEF Exact
  <2> QED BY <1>3, <1>4, <2>1 DEF Exact
<1>8. ASSUME NEW x \in Seqs, NEW list, Exact(t, x, list), x # t[k].seq,
             \A i \in TakenIn(t) : t[i].seq = x => Steps(t, x, i) <= Steps(t, x, k)
      PROVE  Exact(u, x, list)
  <2>1. CASE list = <<>> /\ \A i \in TakenIn(t) : t[i].seq # x
    BY <1>3, <1>4, <2>1 DEF Exact
  <2>2. ASSUME NEW i \in TakenIn(t), t[i] = [seq |-> x, blocks |-> list], Unblocked(t, i),
               \A j \in TakenIn(t) : t[j].seq = x => j = i
        PROVE  Exact(u, x, list)
    <3>1. i # k /\ t[i].seq = x
      BY <1>8, <2>2
    <3>2. Unblocked(u, i)
      BY <1>3, <1>4, <1>8, <2>2, <3>1 DEF Unblocked
    <3> QED BY <1>3, <1>4, <2>2, <3>1, <3>2 DEF Exact
  <2> QED BY <1>8, <2>1, <2>2 DEF Exact
<1> QED BY <1>3, <1>5, <1>6, <1>7, <1>8 DEF u

-----------------------------------------------------------------------------
(* The invariant.                                                          *)

\* seq_count is never below the entries (a failed new entry stays counted), and
\* was below three quarters of the table when it last grew by one.
CountsFit ==
  /\ arrays = Cardinality(TakenIn(seqTable))
  /\ seqCount \in Nat
  /\ Cardinality(TakenIn(seqTable)) <= seqCount
  /\ seqCount <= MaxCount + Cardinality(TakenIn(seqTable))
  /\ 4 * seqCount < 3 * Cap(seqTable) + 4

OwnersFit ==
  /\ held \subseteq Blocks /\ held \cap AllBlocks(seqTable) = {}
  /\ used = held \cup AllBlocks(seqTable)

ListsExact ==
  /\ assigned \in [Seqs -> Seq(Blocks)] /\ cut \subseteq Seqs
  /\ \A s \in Seqs \ cut : Exact(seqTable, s, assigned[s])

TableFits == seqTable \in SeqTables(Cap(seqTable)) /\ Apart(seqTable)

CapFits == Cap(seqTable) \in SeqCap..(SeqCap + 3 * (MaxBlocks + MaxCount))

PagedInv ==
  /\ kvc \in {"none", "live"} /\ heap \subseteq Range(Pieces)
  /\ kvc = "none" => heap = {} /\ TakenIn(seqTable) = {}
  /\ CountInv /\ TableFits /\ CapFits /\ CountsFit /\ OwnersFit /\ ListsExact

\* What the counts of a table with room to spare allow.
LEMMA TableCounts ==
  ASSUME NEW cap \in Nat, cap > 0, NEW t \in SeqTables(cap), Apart(t)
  PROVE  /\ IsFiniteSet(TakenIn(t)) /\ Cardinality(TakenIn(t)) \in 0..MaxBlocks
         /\ \A n \in Nat : Cardinality(TakenIn(t)) <= n /\ n < cap => Vacant(t) # {}
<1>1. IsFiniteSet(TakenIn(t)) /\ Cardinality(TakenIn(t)) \in Nat
  BY TakenCounted, ApartDistinct
<1>2. Cardinality(TakenIn(t)) <= MaxBlocks
  BY EntriesFit
<1>3. ASSUME NEW n \in Nat, Cardinality(TakenIn(t)) <= n, n < cap PROVE Vacant(t) # {}
  <2>1. Cardinality(TakenIn(t)) < cap
    BY <1>1, <1>3
  <2> QED BY <2>1, VacantLeft
<1> QED BY <1>1, <1>2, <1>3, PagedAssumption

LEMMA CapIs == ASSUME CapFits PROVE Cap(seqTable) \in Nat /\ Cap(seqTable) >= 4 /\ Cap(seqTable) > 0
BY PagedAssumption DEF CapFits

LEMMA LookupsFindRoom ==
  ASSUME TableFits, CapFits, CountsFit
  PROVE  Vacant(seqTable) # {}
<1>1. Cap(seqTable) \in Nat /\ Cap(seqTable) >= 4
  BY CapIs
<1>2. seqCount \in Nat /\ seqCount < Cap(seqTable)
  BY <1>1 DEF CountsFit
<1> QED BY <1>1, <1>2, TableCounts DEF TableFits, CountsFit

\* The invariant is what the properties say.
LEMMA PagedInvSound ==
  PagedInv => PagedTypeOK /\ BlockHasOneOwner /\ UsedCountExact /\ NothingLeaks /\ LookupsEnd /\ BlockTableExact
<1> SUFFICES ASSUME PagedInv
             PROVE  PagedTypeOK /\ BlockHasOneOwner /\ UsedCountExact /\ NothingLeaks /\ LookupsEnd /\ BlockTableExact
  OBVIOUS
<1> DEFINE t == seqTable
           cap == Cap(seqTable)
<1>1. cap \in Nat /\ cap >= 4 /\ cap > 0 /\ t \in SeqTables(cap) /\ Apart(t)
  BY CapIs DEF PagedInv, TableFits
<1>2. /\ IsFiniteSet(TakenIn(t)) /\ Cardinality(TakenIn(t)) \in 0..MaxBlocks /\ Vacant(t) # {}
  BY <1>1, TableCounts, LookupsFindRoom DEF PagedInv
<1>3. \A i \in DOMAIN t : t[i].seq \in Seqs \cup {0} /\ t[i].blocks \in Seq(Blocks)
  <2>1. \A i \in DOMAIN t : t[i] \in Records \cup {NoSeq}
    BY <1>1, SlotsAre
  <2>2. \A e \in Records : e.seq \in Seqs /\ e.blocks \in Seq(Blocks)
    BY DEF Records
  <2>3. NoSeq.seq = 0 /\ NoSeq.blocks \in Seq(Blocks)
    BY DEF NoSeq
  <2> QED BY <2>1, <2>2, <2>3
<1>4. DOMAIN t = Slots(cap)
  BY <1>1, SlotsAre DEF Slots
<1>5. usedCount \in 0..MaxBlocks
  <2>1. IsFiniteSet(Blocks) /\ Cardinality(Blocks) = MaxBlocks
    BY FS_Interval, PagedAssumption DEF Blocks
  <2>2. Cardinality(used) \in Nat /\ Cardinality(used) <= MaxBlocks
    BY <2>1, FS_Subset, FS_CardinalityType DEF PagedInv, CountInv
  <2> QED BY <2>2, PagedAssumption DEF PagedInv, CountInv, UsedCountExact
<1>6. PagedTypeOK
  <2>1. used \subseteq Blocks /\ kvc \in {"none", "live"} /\ heap \subseteq Range(Pieces)
    BY DEF PagedInv, CountInv
  <2>2. seqCount \in Nat /\ arrays \in Nat /\ held \subseteq Blocks
    BY <1>2 DEF PagedInv, CountsFit, OwnersFit
  <2>3. assigned \in [Seqs -> Seq(Blocks)] /\ cut \subseteq Seqs /\ CapFits
    BY DEF PagedInv, ListsExact
  <2> QED BY <1>3, <1>4, <1>5, <2>1, <2>2, <2>3 DEF PagedTypeOK, CapFits
<1>7. BlockHasOneOwner
  BY <1>1 DEF PagedInv, OwnersFit, BlockHasOneOwner, Apart, AllBlocks, Entries, ListedIn, TakenIn
<1>8. NothingLeaks
  BY FS_EmptySet DEF PagedInv, CountsFit, NothingLeaks
<1>9. LookupsEnd
  BY <1>2 DEF PagedInv, CountsFit, LookupsEnd, Entries, TakenIn
<1>10. BlockTableExact
  <2> SUFFICES ASSUME NEW s \in Seqs \ cut PROVE BlockTable(s) = assigned[s]
    BY DEF BlockTableExact
  <2>1. Exact(t, s, assigned[s])
    BY DEF PagedInv, ListsExact
  <2>2. \/ assigned[s] = <<>> /\ Lookup(t, s) = {}
        \/ \E i \in TakenIn(t) : Lookup(t, s) = {i} /\ t[i] = [seq |-> s, blocks |-> assigned[s]]
    BY <1>1, <1>2, <2>1, LookupExact
  <2> QED BY <2>2 DEF BlockTable
<1> QED BY <1>6, <1>7, <1>8, <1>9, <1>10 DEF PagedInv, CountInv

-----------------------------------------------------------------------------
(* The invariant: every operation keeps it.                                *)

LEMMA PagedInitInv == PagedInit => PagedInv
<1> SUFFICES ASSUME PagedInit PROVE PagedInv
  OBVIOUS
<1> DEFINE t == EmptyTable(SeqCap)
<1>1. seqTable = t /\ SeqCap \in Nat /\ SeqCap >= 4 /\ MaxBlocks \in Nat /\ MaxCount \in Nat
  BY PagedAssumption DEF PagedInit
<1>2. t \in SeqTables(SeqCap) /\ TakenIn(t) = {} /\ Cap(t) = SeqCap
  BY <1>1, EmptyTableIs, SlotsAre
<1>3. TableFits /\ CapFits
  BY <1>1, <1>2 DEF TableFits, CapFits, Apart
<1>4. CountsFit
  BY <1>1, <1>2, FS_EmptySet DEF PagedInit, CountsFit
<1>5. AllBlocks(seqTable) = {}
  BY <1>1, <1>2 DEF AllBlocks
<1>6. OwnersFit
  BY <1>5 DEF PagedInit, OwnersFit
<1>7. ListsExact
  BY <1>1, <1>2 DEF PagedInit, ListsExact, NothingAssigned, Exact
<1>8. CountInv
  BY FS_EmptySet DEF PagedInit, CountInv, UsedCountExact
<1> QED BY <1>1, <1>2, <1>3, <1>4, <1>6, <1>7, <1>8 DEF PagedInit, PagedInv

\* What rests on the table alone stays when it does.
LEMMA TableKept ==
  ASSUME PagedInv, UNCHANGED <<seqTable, seqCount, arrays, assigned, cut>>
  PROVE  (TableFits /\ CapFits /\ CountsFit /\ ListsExact)'
BY DEF PagedInv, TableFits, CapFits, CountsFit, ListsExact

LEMMA DestroyKeeps == ASSUME PagedInv, Destroy, CountInv' PROVE PagedInv'
<1> DEFINE t == EmptyTable(SeqCap)
<1>1. seqTable' = t /\ SeqCap \in Nat /\ SeqCap >= 4 /\ MaxBlocks \in Nat /\ MaxCount \in Nat
  BY PagedAssumption DEF Destroy
<1>2. t \in SeqTables(SeqCap) /\ TakenIn(t) = {} /\ Cap(t) = SeqCap
  BY <1>1, EmptyTableIs, SlotsAre
<1>3. (TableFits /\ CapFits)'
  BY <1>1, <1>2 DEF TableFits, CapFits, Apart
<1>4. CountsFit'
  <2>1. Cardinality(TakenIn(seqTable)) \in 0..MaxBlocks
    BY CapIs, TableCounts DEF PagedInv, TableFits
  <2>2. arrays' = arrays - Cardinality(TakenIn(seqTable)) /\ seqCount' = 0
    BY DEF Destroy, TakenIn
  <2>3. arrays' = 0
    BY <1>1, <2>1, <2>2 DEF PagedInv, CountsFit
  <2> QED BY <1>1, <1>2, <2>2, <2>3, FS_EmptySet DEF CountsFit
<1>5. AllBlocks(seqTable') = {}
  BY <1>1, <1>2 DEF AllBlocks
<1>6. OwnersFit'
  BY <1>5 DEF Destroy, OwnersFit
<1>7. ListsExact'
  <2>1. assigned' = NothingAssigned /\ cut' = {}
    BY DEF Destroy
  <2> QED BY <1>1, <1>2, <2>1 DEF ListsExact, NothingAssigned, Exact
<1>8. kvc' = "none" /\ heap' = {}
  BY DEF Destroy, PagedInv, Range
<1> QED BY <1>1, <1>2, <1>3, <1>4, <1>6, <1>7, <1>8 DEF PagedInv

LEMMA AllocKeeps == ASSUME PagedInv, NEW n \in 1..MaxAsk, AllocBlock(n), CountInv' PROVE PagedInv'
<1> DEFINE taken == FirstFree(n)
           back == IF Cardinality(taken) < n THEN RolledBack(taken) ELSE {}
<1>1. /\ kvc' = "live" /\ heap' = heap /\ seqTable' = seqTable
      /\ used' = (used \cup taken) \ back
      /\ held' = IF Cardinality(taken) < n THEN held ELSE held \cup taken
  BY DEF AllocBlock
<1>2. (TableFits /\ CapFits /\ CountsFit /\ ListsExact)'
  BY TableKept DEF AllocBlock
<1>3. taken \subseteq Blocks /\ taken \cap used = {}
  BY DEF FirstFree
<1>4. back = IF Cardinality(taken) < n THEN taken ELSE {}
  BY DEF RolledBack
<1> HIDE DEF taken, back
<1>5. OwnersFit'
  <2>1. CASE Cardinality(taken) < n
    <3>1. used' = used /\ held' = held
      BY <1>1, <1>3, <1>4, <2>1
    <3> QED BY <1>1, <3>1 DEF PagedInv, OwnersFit
  <2>2. CASE ~(Cardinality(taken) < n)
    <3>1. used' = used \cup taken /\ held' = held \cup taken
      BY <1>1, <1>4, <2>2
    <3> QED BY <1>1, <1>3, <3>1 DEF PagedInv, OwnersFit
  <2> QED BY <2>1, <2>2
<1> QED BY <1>1, <1>2, <1>5 DEF PagedInv

LEMMA FreeKeeps == ASSUME PagedInv, NEW b \in Blocks, FreeBlock(b), CountInv' PROVE PagedInv'
<1>1. /\ kvc' = "live" /\ heap' = heap /\ seqTable' = seqTable
      /\ used' = used \ {b} /\ held' = held \ {b} /\ b \in held \cup (Blocks \ used)
  BY DEF FreeBlock
<1>2. (TableFits /\ CapFits /\ CountsFit /\ ListsExact)'
  BY TableKept DEF FreeBlock
<1>3. OwnersFit'
  BY <1>1 DEF PagedInv, OwnersFit
<1> QED BY <1>1, <1>2, <1>3 DEF PagedInv

\* Clearing a sequence: the lookups that passed its slot are in cut.
LEMMA ClearKeeps == ASSUME PagedInv, NEW s \in Seqs, ClearSeq(s), CountInv' PROVE PagedInv'
<1> DEFINE t == seqTable
           cap == Cap(seqTable)
<1>1. cap \in Nat /\ cap >= 4 /\ cap > 0 /\ t \in SeqTables(cap) /\ Apart(t)
  BY CapIs DEF PagedInv, TableFits
<1>2. Vacant(t) # {}
  BY LookupsFindRoom DEF PagedInv
<1>3. PICK k \in TakenIn(t) : Lookup(t, s) = {k} /\ t[k].seq = s
  <2>1. Lookup(t, s) # {}
    BY DEF ClearSeq
  <2> QED BY <1>1, <1>2, <2>1, LookupIs
<1> DEFINE u == [t EXCEPT ![k] = NoSeq]
<1>4. /\ kvc' = "live" /\ heap' = heap /\ held' = held
      /\ used' = used \ Range(t[k].blocks)
      /\ seqTable' = u /\ seqCount' = seqCount - 1 /\ arrays' = arrays - 1
      /\ cut' = cut \cup PastSlotOf(s)
      /\ assigned' = [x \in Seqs |-> IF x \in cut' \cup {s} THEN <<>> ELSE assigned[x]]
  <2>1. BlocksOf(t, s) = Range(t[k].blocks)
    BY <1>3 DEF BlocksOf, Range
  <2>2. seqTable' = [i \in DOMAIN t |-> IF i \in {k} THEN NoSeq ELSE t[i]]
    BY <1>3 DEF ClearSeq
  <2>3. seqTable' = u
    BY <1>1, <2>2 DEF SeqTables
  <2> QED BY <2>1, <2>3 DEF ClearSeq, SeqCountDown
<1>5. /\ u \in SeqTables(cap) /\ Apart(u)
      /\ AllBlocks(u) = AllBlocks(t) \ Range(t[k].blocks)
      /\ Cardinality(TakenIn(u)) = Cardinality(TakenIn(t)) - 1
      /\ \A list : Exact(t, s, list) => Exact(u, s, <<>>)
      /\ \A x \in Seqs : \A list :
           /\ Exact(t, x, list) /\ x # s
           /\ \A i \in TakenIn(t) : t[i].seq = x => Steps(t, x, i) <= Steps(t, x, k)
           => Exact(u, x, list)
  BY <1>1, <1>3, ClearedIs
<1>6. Cap(u) = cap
  BY <1>1, <1>5, SlotsAre
<1>7. k \in DOMAIN t /\ Cardinality(TakenIn(t)) \in 0..MaxBlocks /\ Cardinality(TakenIn(t)) >= 1
  <2>1. IsFiniteSet(TakenIn(t)) /\ Cardinality(TakenIn(t)) \in 0..MaxBlocks
    BY <1>1, TableCounts
  <2>2. Cardinality(TakenIn(t)) # 0
    BY <2>1, <1>3, FS_EmptySet
  <2> QED BY <2>1, <2>2, PagedAssumption DEF TakenIn
<1> HIDE DEF u
<1>8. (TableFits /\ CapFits)'
  BY <1>4, <1>5, <1>6 DEF PagedInv, TableFits, CapFits
<1>9. CountsFit'
  <2>1. PICK a \in Nat : a = Cardinality(TakenIn(t)) /\ a >= 1
    BY <1>7
  <2>2. arrays = a /\ seqCount \in Nat /\ a <= seqCount /\ seqCount <= MaxCount + a /\ 4 * seqCount < 3 * cap + 4
    BY <2>1 DEF PagedInv, CountsFit
  <2>3. arrays' = a - 1 /\ seqCount' = seqCount - 1 /\ Cardinality(TakenIn(u)) = a - 1
    BY <1>4, <1>5, <2>1, <2>2
  <2>4. /\ seqCount - 1 \in Nat /\ a - 1 <= seqCount - 1 /\ seqCount - 1 <= MaxCount + (a - 1)
        /\ 4 * (seqCount - 1) < 3 * cap + 4
    BY <1>1, <2>1, <2>2, PagedAssumption
  <2> QED BY <1>4, <1>6, <2>3, <2>4 DEF CountsFit
<1>10. OwnersFit'
  <2>1. Range(t[k].blocks) \subseteq AllBlocks(t)
    BY <1>3 DEF AllBlocks
  <2> QED BY <1>4, <1>5, <2>1 DEF PagedInv, OwnersFit
<1>11. ListsExact'
  <2>1. PastSlotOf(s) \subseteq Seqs /\ cut' \subseteq Seqs
    BY <1>4 DEF PastSlotOf, PagedInv, ListsExact
  <2>2. assigned' \in [Seqs -> Seq(Blocks)]
    BY <1>4 DEF PagedInv, ListsExact
  <2>3. ASSUME NEW x \in Seqs \ cut' PROVE Exact(u, x, assigned'[x])
    <3>1. Exact(t, x, assigned[x])
      BY <1>4, <2>3 DEF PagedInv, ListsExact
    <3>2. CASE x = s
      BY <1>4, <1>5, <3>1, <3>2
    <3>3. CASE x # s
      <4>1. assigned'[x] = assigned[x]
        BY <1>4, <2>3, <3>3
      <4>2. ASSUME NEW i \in TakenIn(t), t[i].seq = x PROVE Steps(t, x, i) <= Steps(t, x, k)
        <5>1. Lookup(t, x) = {i}
          <6>1. assigned[x] # <<>>
            BY <3>1, <4>2 DEF Exact, TakenIn, Vacant
          <6>2. PICK j \in TakenIn(t) : Lookup(t, x) = {j} /\ t[j] = [seq |-> x, blocks |-> assigned[x]]
            BY <1>1, <1>2, <3>1, <6>1, LookupExact
          <6>3. i = j
            BY <3>1, <4>2, <6>1, <6>2 DEF Exact
          <6> QED BY <6>2, <6>3
        <5>2. ~(Steps(t, x, k) < Steps(t, x, i))
          BY <1>3, <1>4, <2>3, <5>1 DEF PastSlotOf
        <5>3. Steps(t, x, k) \in Nat /\ Steps(t, x, i) \in Nat
          BY <1>1, <1>7, <4>2, StepsInjective, PagedAssumption DEF TakenIn
        <5> QED BY <5>2, <5>3
      <4> QED BY <1>5, <3>1, <3>3, <4>1, <4>2
    <3> QED BY <3>2, <3>3
  <2> QED BY <1>4, <2>1, <2>2, <2>3 DEF ListsExact
<1> QED BY <1>4, <1>8, <1>9, <1>10, <1>11 DEF PagedInv

\* The table after growth holds what the old one held, and has room for one more.
LEMMA TargetIs ==
  ASSUME PagedInv
  PROVE  \E cap \in Nat :
           /\ cap \in SeqCap..(SeqCap + 3 * (MaxBlocks + MaxCount)) /\ cap > 0
           /\ Target \in SeqTables(cap) /\ Cap(Target) = cap /\ Apart(Target)
           /\ AllBlocks(Target) = AllBlocks(seqTable)
           /\ Cardinality(TakenIn(Target)) = Cardinality(TakenIn(seqTable))
           /\ 4 * seqCount < 3 * cap /\ Vacant(Target) # {}
           /\ \A s, list : Exact(seqTable, s, list) => Exact(Target, s, list)
<1> DEFINE t == seqTable
           c == Cap(seqTable)
<1>1. c \in Nat /\ c >= 4 /\ c > 0 /\ t \in SeqTables(c) /\ Apart(t)
  BY CapIs DEF PagedInv, TableFits
<1>2. /\ Cardinality(TakenIn(t)) \in 0..MaxBlocks /\ seqCount \in Nat
      /\ Cardinality(TakenIn(t)) <= seqCount
      /\ seqCount <= MaxCount + Cardinality(TakenIn(t)) /\ 4 * seqCount < 3 * c + 4
      /\ c \in SeqCap..(SeqCap + 3 * (MaxBlocks + MaxCount))
      /\ MaxBlocks \in Nat /\ MaxCount \in Nat /\ SeqCap \in Nat
  BY <1>1, TableCounts, PagedAssumption DEF PagedInv, CountsFit, CapFits
<1>3. ASSUME NEW cap \in Nat, cap > 0, 4 * seqCount < 3 * cap,
             NEW u \in SeqTables(cap), Apart(u), Cardinality(TakenIn(u)) = Cardinality(TakenIn(t))
      PROVE  Vacant(u) # {} /\ Cap(u) = cap
  <2>1. seqCount < cap
    BY <1>2, <1>3
  <2> QED BY <1>2, <1>3, <2>1, TableCounts, SlotsAre
<1>4. CASE MustRegrow
  <2> DEFINE u == Regrown(t)
  <2>1. Target = u /\ seqCount * 4 >= c * 3
    BY <1>4 DEF Target, MustRegrow
  <2>2. u \in SeqTables(2 * c) /\ Distinct(u) /\ AllUnblocked(u) /\ RecordsIn(u) = RecordsIn(t)
    BY <1>1, ApartDistinct, RegrownIs
  <2> HIDE DEF u
  <2>3. /\ Apart(u) /\ AllBlocks(u) = AllBlocks(t)
        /\ Cardinality(TakenIn(u)) = Cardinality(TakenIn(t))
        /\ \A s, list : Exact(t, s, list) => Exact(u, s, list)
    <3>1. 2 * c \in Nat
      BY <1>1
    <3> QED BY <1>1, <2>2, <3>1, SameRecords
  <2>4. 2 * c \in Nat /\ 2 * c > 0 /\ 4 * seqCount < 3 * (2 * c)
    BY <1>1, <1>2
  <2>5. 2 * c \in SeqCap..(SeqCap + 3 * (MaxBlocks + MaxCount))
    <3>1. PICK a \in 0..MaxBlocks : a = Cardinality(TakenIn(t))
      BY <1>2
    <3>2. seqCount <= MaxCount + MaxBlocks
      BY <1>2, <3>1
    <3>3. c * 3 <= seqCount * 4
      BY <1>1, <1>2, <2>1
    <3>4. 2 * c <= 3 * (MaxBlocks + MaxCount)
      BY <1>1, <1>2, <3>2, <3>3
    <3> QED BY <1>1, <1>2, <3>4
  <2>6. Vacant(u) # {} /\ Cap(u) = 2 * c
    BY <1>3, <2>2, <2>3, <2>4
  <2> QED BY <2>1, <2>2, <2>3, <2>4, <2>5, <2>6
<1>5. CASE ~MustRegrow
  <2>1. Target = t
    BY <1>5 DEF Target
  <2>2. 4 * seqCount < 3 * c
    BY <1>1, <1>2, <1>5 DEF MustRegrow
  <2>3. Vacant(t) # {}
    BY <1>1, <1>3, <2>2
  <2> QED BY <1>1, <1>2, <2>1, <2>2, <2>3
<1> QED BY <1>4, <1>5

LEMMA AssignKeeps ==
  ASSUME PagedInv, kvc = "live", NEW s \in Seqs, NEW n \in 1..MaxAsk,
         NEW ids \in Injection(1..n, held), Assign(Target, s, ids), CountInv'
  PROVE  PagedInv'
<1> DEFINE t == Target
           u == Store(t, s, ids)
<1>1. PICK cap \in Nat :
        /\ cap \in SeqCap..(SeqCap + 3 * (MaxBlocks + MaxCount)) /\ cap > 0
        /\ t \in SeqTables(cap) /\ Apart(t)
        /\ AllBlocks(t) = AllBlocks(seqTable)
        /\ Cardinality(TakenIn(t)) = Cardinality(TakenIn(seqTable))
        /\ 4 * seqCount < 3 * cap /\ Vacant(t) # {}
        /\ \A x, list : Exact(seqTable, x, list) => Exact(t, x, list)
  BY TargetIs
<1> HIDE DEF t
<1>2. ids \in Seq(Blocks) /\ ids # <<>> /\ IsInjective(ids) /\ Range(ids) \subseteq held
  <2>1. ids \in [1..n -> held] /\ IsInjective(ids) /\ n \in Nat /\ n >= 1
    BY DEF Injection
  <2>2. ids \in [1..n -> Blocks]
    BY <2>1 DEF PagedInv, OwnersFit
  <2>3. ids \in Seq(Blocks)
    BY <2>1, <2>2
  <2>4. DOMAIN ids # {} /\ Range(ids) \subseteq held
    BY <2>1 DEF Range
  <2>5. ids # <<>>
    BY <2>4
  <2> QED BY <2>1, <2>3, <2>4, <2>5
<1>3. Range(ids) \cap AllBlocks(t) = {}
  BY <1>1, <1>2 DEF PagedInv, OwnersFit
<1>4. /\ u \in SeqTables(cap) /\ Apart(u)
      /\ AllBlocks(u) = AllBlocks(t) \cup Range(ids)
      /\ Cardinality(TakenIn(u)) = Cardinality(TakenIn(t)) + IsNew(t, s)
      /\ \A x \in Seqs, list \in Seq(Blocks) :
           Exact(t, x, list) => Exact(u, x, IF x = s THEN list \o ids ELSE list)
  <2> HIDE DEF u
  <2> QED BY <1>1, <1>2, <1>3, StoreIs DEF u
<1>5. /\ kvc' = kvc /\ heap' = heap /\ used' = used /\ cut' = cut
      /\ seqTable' = u /\ seqCount' = seqCount + IsNew(t, s) /\ arrays' = arrays + IsNew(t, s)
      /\ held' = held \ Range(ids)
      /\ assigned' = IF s \in cut THEN assigned ELSE [assigned EXCEPT ![s] = @ \o ids]
  BY DEF Assign, t
<1> HIDE DEF u
<1>6. Cap(u) = cap
  BY <1>1, <1>4, SlotsAre
<1>7. (TableFits /\ CapFits)'
  BY <1>1, <1>4, <1>5, <1>6 DEF TableFits, CapFits
<1>8. CountsFit'
  <2>1. PICK d \in {0, 1} : d = IsNew(t, s)
    BY DEF IsNew
  <2>2. Cardinality(TakenIn(seqTable)) \in 0..MaxBlocks
    BY CapIs, TableCounts DEF PagedInv, TableFits
  <2>3. PICK a \in Nat : a = Cardinality(TakenIn(seqTable))
    BY <2>2
  <2>4. arrays = a /\ seqCount \in Nat /\ a <= seqCount /\ seqCount <= MaxCount + a
    BY <2>3 DEF PagedInv, CountsFit
  <2>5. arrays' = a + d /\ seqCount' = seqCount + d /\ Cardinality(TakenIn(u)) = a + d
    BY <1>1, <1>4, <1>5, <2>1, <2>3, <2>4
  <2>6. /\ seqCount + d \in Nat /\ a + d <= seqCount + d /\ seqCount + d <= MaxCount + (a + d)
        /\ 4 * (seqCount + d) < 3 * cap + 4
    BY <1>1, <2>4, PagedAssumption
  <2> QED BY <1>5, <1>6, <2>5, <2>6 DEF CountsFit
<1>9. OwnersFit'
  BY <1>1, <1>2, <1>4, <1>5 DEF PagedInv, OwnersFit
<1>10. ListsExact'
  <2>1. assigned \in [Seqs -> Seq(Blocks)] /\ cut' \subseteq Seqs
    BY <1>5 DEF PagedInv, ListsExact
  <2>2. assigned' \in [Seqs -> Seq(Blocks)]
    <3>1. assigned[s] \o ids \in Seq(Blocks)
      BY <1>2, <2>1
    <3> QED BY <1>5, <2>1, <3>1
  <2>3. ASSUME NEW x \in Seqs \ cut' PROVE Exact(u, x, assigned'[x])
    <3>1. Exact(t, x, assigned[x])
      BY <1>1, <1>5, <2>3 DEF PagedInv, ListsExact
    <3>2. Exact(u, x, IF x = s THEN assigned[x] \o ids ELSE assigned[x])
      BY <1>4, <2>1, <3>1
    <3>3. assigned'[x] = IF x = s THEN assigned[x] \o ids ELSE assigned[x]
      BY <1>5, <2>1, <2>3
    <3> QED BY <3>2, <3>3
  <2> QED BY <1>5, <2>1, <2>2, <2>3 DEF ListsExact
<1> QED BY <1>5, <1>7, <1>8, <1>9, <1>10 DEF PagedInv

LEMMA AssignNoArrayKeeps ==
  ASSUME PagedInv, kvc = "live", NEW s \in Seqs, NEW n \in 1..MaxAsk,
         AssignNoArray(Target, s, n), CountInv'
  PROVE  PagedInv'
<1> DEFINE t == Target
<1>1. PICK cap \in Nat :
        /\ cap \in SeqCap..(SeqCap + 3 * (MaxBlocks + MaxCount)) /\ cap > 0
        /\ t \in SeqTables(cap) /\ Cap(t) = cap /\ Apart(t)
        /\ AllBlocks(t) = AllBlocks(seqTable)
        /\ Cardinality(TakenIn(t)) = Cardinality(TakenIn(seqTable))
        /\ 4 * seqCount < 3 * cap
        /\ \A x, list : Exact(seqTable, x, list) => Exact(t, x, list)
  BY TargetIs
<1> HIDE DEF t
<1>2. /\ UNCHANGED <<kvc, heap, used, usedCount, arrays, held, assigned, cut>>
      /\ seqTable' = t /\ seqCount' = seqCount + IsNew(t, s) /\ seqCount < MaxCount
  BY DEF AssignNoArray, t
<1>3. (TableFits /\ CapFits)'
  BY <1>1, <1>2 DEF TableFits, CapFits
<1>4. CountsFit'
  <2>1. PICK d \in {0, 1} : d = IsNew(t, s)
    BY DEF IsNew
  <2>2. Cardinality(TakenIn(seqTable)) \in 0..MaxBlocks
    BY CapIs, TableCounts DEF PagedInv, TableFits
  <2>3. PICK a \in Nat : a = Cardinality(TakenIn(seqTable))
    BY <2>2
  <2>4. arrays = a /\ seqCount \in Nat /\ a <= seqCount
    BY <2>3 DEF PagedInv, CountsFit
  <2>5. arrays' = a /\ seqCount' = seqCount + d /\ Cardinality(TakenIn(t)) = a
    BY <1>1, <1>2, <2>1, <2>3, <2>4
  <2>6. /\ seqCount + d \in Nat /\ a <= seqCount + d /\ seqCount + d <= MaxCount + a
        /\ 4 * (seqCount + d) < 3 * cap + 4
    BY <1>1, <1>2, <2>3, <2>4, PagedAssumption
  <2> QED BY <1>1, <1>2, <2>5, <2>6 DEF CountsFit
<1>5. OwnersFit'
  BY <1>1, <1>2 DEF PagedInv, OwnersFit
<1>6. ListsExact'
  BY <1>1, <1>2 DEF PagedInv, ListsExact
<1> QED BY <1>2, <1>3, <1>4, <1>5, <1>6 DEF PagedInv

LEMMA PagedStep == PagedInv /\ [PagedNext]_pagedVars => PagedInv'
<1> SUFFICES ASSUME PagedInv, [PagedNext]_pagedVars PROVE PagedInv'
  OBVIOUS
<1>0. CountInv'
  BY CountStep DEF PagedInv
<1>1. CASE Create
  <2>1. /\ kvc' = "live" /\ heap' \subseteq Range(Pieces)
        /\ UNCHANGED <<used, usedCount, seqTable, seqCount, arrays, held, assigned, cut>>
    BY <1>1 DEF Create, PagedInv, Range
  <2>2. (TableFits /\ CapFits /\ CountsFit /\ ListsExact)'
    BY <2>1, TableKept
  <2>3. OwnersFit'
    BY <2>1 DEF PagedInv, OwnersFit
  <2> QED BY <1>0, <2>1, <2>2, <2>3 DEF PagedInv
<1>2. CASE Destroy
  BY <1>0, <1>2, DestroyKeeps
<1>3. ASSUME NEW k \in DOMAIN Pieces, CreateFails(k) PROVE PagedInv'
  <2>1. /\ kvc = "none" /\ heap' = heap
        /\ UNCHANGED <<kvc, used, usedCount, seqTable, seqCount, arrays, held, assigned, cut>>
    BY <1>3 DEF CreateFails, FreedOnFailure, PagedInv
  <2>2. (TableFits /\ CapFits /\ CountsFit /\ ListsExact)'
    BY <2>1, TableKept
  <2>3. OwnersFit'
    BY <2>1 DEF PagedInv, OwnersFit
  <2> QED BY <1>0, <2>1, <2>2, <2>3 DEF PagedInv
<1>4. ASSUME NEW n \in 1..MaxAsk, AllocBlock(n) PROVE PagedInv'
  BY <1>0, <1>4, AllocKeeps
<1>5. ASSUME NEW b \in Blocks, FreeBlock(b) PROVE PagedInv'
  BY <1>0, <1>5, FreeKeeps
<1>6. ASSUME NEW s \in Seqs, ClearSeq(s) PROVE PagedInv'
  BY <1>0, <1>6, ClearKeeps
<1>7. CASE UNCHANGED pagedVars
  <2>1. UNCHANGED <<kvc, heap, used, usedCount, seqTable, seqCount, arrays, held, assigned, cut>>
    BY <1>7 DEF pagedVars
  <2>2. (TableFits /\ CapFits /\ CountsFit /\ ListsExact)'
    BY <2>1, TableKept
  <2>3. OwnersFit'
    BY <2>1 DEF PagedInv, OwnersFit
  <2> QED BY <1>0, <2>1, <2>2, <2>3 DEF PagedInv
<1>8. CASE AssignBlocks
  <2>1. kvc = "live"
    BY <1>8 DEF AssignBlocks
  <2>2. CASE AssignNoTable
    BY <1>7, <2>2 DEF AssignNoTable
  <2>3. ASSUME NEW s \in Seqs, NEW n \in 1..MaxAsk, NEW ids \in Injection(1..n, held),
               Assign(Target, s, ids)
        PROVE  PagedInv'
    BY <1>0, <2>1, <2>3, AssignKeeps
  <2>4. ASSUME NEW s \in Seqs, NEW n \in 1..MaxAsk, AssignNoArray(Target, s, n) PROVE PagedInv'
    BY <1>0, <2>1, <2>4, AssignNoArrayKeeps
  <2> QED BY <1>8, <2>2, <2>3, <2>4 DEF AssignBlocks
<1>9. ASSUME NEW s \in Seqs, ClearMissed(s) PROVE PagedInv'
  BY <1>7, <1>9 DEF ClearMissed
<1> QED BY <1>1, <1>2, <1>3, <1>4, <1>5, <1>6, <1>7, <1>8, <1>9 DEF PagedNext

\* The cache's variables have their types, for every pool, every set of sequence
\* ids and every way its operations and their failures follow each other.
THEOREM PagedTypes == PagedSpec => []PagedTypeOK
BY PagedInitInv, PagedInvSound, PagedStep, PTL DEF PagedSpec

\* A block marked in use has one owner, total_blocks_used counts the marked
\* blocks, and a cache that is gone or was never completed holds no memory:
\* vaist_kv_paged_create, _destroy, _alloc_block, _free_block, _assign_blocks and
\* _clear_seq, and the failures of their allocations.
THEOREM BlocksAccountedFor == PagedSpec => []PagedAccounts
<1>1. PagedInv => PagedAccounts
  BY PagedInvSound DEF PagedAccounts
<1> QED BY <1>1, PagedInitInv, PagedStep, PTL DEF PagedSpec

\* Every probe of paged_seq_lookup comes to an empty slot, although new entries
\* that failed stay counted and cleared ones leave no tombstone.
THEOREM EveryLookupEnds == PagedSpec => []LookupsEnd
BY PagedInitInv, PagedInvSound, PagedStep, PTL DEF PagedSpec

\* vaist_kv_paged_get_block_table gives what was assigned, in order, through
\* collisions, growth and failures, to every sequence no clear_seq has cut off.
THEOREM AssignedIsListed == PagedSpec => []BlockTableExact
BY PagedInitInv, PagedInvSound, PagedStep, PTL DEF PagedSpec

-----------------------------------------------------------------------------
(* The replay markers: the array is sorted and holds what was marked.      *)

\* A strictly increasing sequence, and where p parts the first n numbers of one.
Rising(m, n) == \A i, j \in 1..n : i < j => m[i] < m[j]
Increasing(m) == Rising(m, Len(m))
Numbers(m, n) == \A i \in 1..n : m[i] \in Nat
Elements(m, n) == {m[i] : i \in 1..n}
Parted(m, n, p, k) == \A i \in 1..n : m[i] # p /\ (m[i] < p <=> i <= k)

MarkersInv ==
  /\ markers \in Seq(Positions) /\ Increasing(markers)
  /\ marked = Range(markers)
  /\ markerCap \in MarkerCap..(MarkerCap + 2 * Cardinality(Positions))
  /\ Len(markers) <= markerCap

\* The markers in front of a new one are the first of the array.
LEMMA BeforeIs ==
  ASSUME NEW p \in Nat, NEW n \in Nat, NEW m \in [1..n -> Nat],
         Rising(m, n)
  PROVE  \E k \in 0..n : /\ Cardinality({i \in 1..n : m[i] < p}) = k
                         /\ \A i \in 1..n : m[i] < p <=> i <= k
<1> DEFINE S == {i \in 1..n : m[i] < p}
<1>1. ASSUME NEW i \in S, NEW j \in 1..n, j < i PROVE j \in S
  <2>1. m[j] < m[i] /\ m[i] < p /\ m[i] \in Nat /\ m[j] \in Nat
    BY <1>1 DEF Rising
  <2> QED BY <2>1
<1>2. PICK k \in 0..n : S = 1..k /\ Cardinality(S) = k
  <2>1. S \in SUBSET (1..n)
    OBVIOUS
  <2> HIDE DEF S
  <2> QED BY <1>1, <2>1, Segment
<1>3. ASSUME NEW i \in 1..n PROVE m[i] < p <=> i <= k
  <2>1. i \in S <=> i \in 1..k
    BY <1>2
  <2>2. i \in S <=> m[i] < p
    OBVIOUS
  <2>3. i \in 1..k <=> i <= k
    OBVIOUS
  <2> QED BY <2>1, <2>2, <2>3
<1> QED BY <1>2, <1>3

\* new is m with p inserted behind its first k elements.
InsertedAt(new, m, n, p, k) ==
  \A i \in 1..(n + 1) : new[i] = IF i <= k THEN m[i] ELSE IF i = k + 1 THEN p ELSE m[i - 1]

\* The array after an insertion, slot by slot.
LEMMA InsertIs ==
  ASSUME NEW S, NEW p \in S, NEW m \in Seq(S), NEW n \in Nat, n = Len(m), NEW k \in 0..n
  PROVE  /\ Inserted(m, p, k) \in Seq(S) /\ Len(Inserted(m, p, k)) = n + 1
         /\ InsertedAt(Inserted(m, p, k), m, n, p, k)
<1> DEFINE a == SubSeq(m, 1, k)
           b == SubSeq(m, k + 1, n)
           c == a \o <<p>>
           new == c \o b
<1>1. a \in Seq(S) /\ Len(a) = k /\ \A i \in 1..k : a[i] = m[i]
  OBVIOUS
<1>2. b \in Seq(S) /\ Len(b) = n - k /\ \A i \in 1..(n - k) : b[i] = m[k + i]
  OBVIOUS
<1> HIDE DEF a, b
<1>3. c \in Seq(S) /\ Len(c) = k + 1 /\ c[k + 1] = p /\ \A i \in 1..k : c[i] = m[i]
  BY <1>1
<1> HIDE DEF c
<1>4. new \in Seq(S) /\ Len(new) = n + 1
  BY <1>2, <1>3
<1>5. ASSUME NEW i \in 1..(n + 1)
      PROVE  new[i] = IF i <= k THEN m[i] ELSE IF i = k + 1 THEN p ELSE m[i - 1]
  <2>1. CASE i <= k + 1
    <3>1. new[i] = c[i]
      BY <1>2, <1>3, <2>1
    <3> HIDE DEF new
    <3> QED BY <1>3, <2>1, <3>1
  <2>2. CASE i > k + 1
    <3>1. i - (k + 1) \in 1..(n - k) /\ k + (i - (k + 1)) = i - 1 /\ ~(i <= k) /\ i # k + 1
      BY <2>2
    <3>2. new[i] = b[i - (k + 1)]
      BY <1>2, <1>3, <2>2
    <3> HIDE DEF new
    <3>3. b[i - (k + 1)] = m[k + (i - (k + 1))]
      BY <1>2, <3>1
    <3> QED BY <3>1, <3>2, <3>3
  <2> HIDE DEF new
  <2> QED BY <2>1, <2>2
<1>6. new = Inserted(m, p, k)
  BY DEF a, b, c, Inserted
<1> HIDE DEF new
<1>7. InsertedAt(new, m, n, p, k)
  BY <1>5 DEF InsertedAt
<1> QED BY <1>4, <1>6, <1>7

\* An insertion in its place keeps the order and adds the position.
LEMMA InsertSorted ==
  ASSUME NEW n \in Nat, NEW m, Numbers(m, n), NEW p \in Nat, NEW k \in 0..n, NEW new,
         Rising(m, n), Parted(m, n, p, k), InsertedAt(new, m, n, p, k)
  PROVE  Rising(new, n + 1) /\ Elements(new, n + 1) = Elements(m, n) \cup {p}
<1> USE DEF InsertedAt, Rising, Parted, Numbers
<1>1. \A i \in 1..n : m[i] \in Nat /\ (i <= k => m[i] < p) /\ (i > k => p < m[i])
  OBVIOUS
<1>2. ASSUME NEW i \in 1..(n + 1), NEW j \in 1..(n + 1), i < j PROVE new[i] < new[j]
  <2>1. CASE j <= k
    BY <1>2, <2>1
  <2>2. CASE j = k + 1
    BY <1>1, <1>2, <2>2
  <2>3. CASE j > k + 1
    <3>1. j - 1 \in 1..n /\ j - 1 > k /\ new[j] = m[j - 1]
      BY <2>3
    <3>2. CASE i = k + 1
      BY <1>1, <3>1, <3>2
    <3>3. CASE i <= k
      <4>1. i \in 1..n /\ i < j - 1 /\ new[i] = m[i]
        BY <2>3, <3>3
      <4> QED BY <3>1, <4>1
    <3>4. CASE i > k + 1
      <4>1. i - 1 \in 1..n /\ i - 1 < j - 1 /\ new[i] = m[i - 1]
        BY <1>2, <3>4
      <4> QED BY <3>1, <4>1
    <3> QED BY <3>2, <3>3, <3>4
  <2> QED BY <2>1, <2>2, <2>3
<1>3. ASSUME NEW i \in 1..(n + 1) PROVE new[i] \in {m[x] : x \in 1..n} \cup {p}
  <2>1. CASE i <= k
    <3>1. i \in 1..n /\ new[i] = m[i]
      BY <2>1
    <3> QED BY <3>1
  <2>2. CASE i = k + 1
    <3>1. new[i] = p
      BY <2>2
    <3> QED BY <3>1
  <2>3. CASE i > k + 1
    <3>1. i - 1 \in 1..n /\ new[i] = m[i - 1]
      BY <2>3
    <3> QED BY <3>1
  <2> QED BY <2>1, <2>2, <2>3
<1>4. ASSUME NEW i \in 1..n PROVE m[i] \in {new[x] : x \in 1..(n + 1)}
  <2>1. CASE i <= k
    <3>1. i \in 1..(n + 1) /\ new[i] = m[i]
      BY <2>1
    <3> QED BY <3>1
  <2>2. CASE i > k
    <3>1. i + 1 \in 1..(n + 1) /\ ~(i + 1 <= k) /\ i + 1 # k + 1 /\ i + 1 - 1 = i
      BY <2>2
    <3>2. new[i + 1] = m[i]
      BY <3>1
    <3> QED BY <3>1, <3>2
  <2> QED BY <2>1, <2>2
<1>5. p \in {new[x] : x \in 1..(n + 1)}
  <2>1. k + 1 \in 1..(n + 1) /\ ~(k + 1 <= k)
    OBVIOUS
  <2>2. new[k + 1] = p
    BY <2>1
  <2> QED BY <2>1, <2>2
<1> QED BY <1>2, <1>3, <1>4, <1>5 DEF Elements

\* vaist_kv_set_replay_marker on the array.
LEMMA SetIs ==
  ASSUME NEW m \in Seq(Positions), Increasing(m), NEW p \in Positions, p \notin Range(m),
         NEW new, new = Inserted(m, p, Before(m, p))
  PROVE  /\ new \in Seq(Positions) /\ Len(new) = Len(m) + 1
         /\ Increasing(new) /\ Range(new) = Range(m) \cup {p}
<1>1. PICK n \in Nat : n = Len(m)
  OBVIOUS
<1>2. DOMAIN m = 1..n /\ m \in [1..n -> Positions]
  BY <1>1
<1>3. Positions \subseteq Nat /\ p \in Nat
  BY MarkerAssumption
<1>4. m \in [1..n -> Nat]
  BY <1>2, <1>3
<1>5. Rising(m, n)
  BY <1>1 DEF Increasing
<1>6. \A i \in 1..n : m[i] # p
  BY <1>2 DEF Range
<1>7. PICK k \in 0..n : /\ Cardinality({i \in 1..n : m[i] < p}) = k
                        /\ \A i \in 1..n : m[i] < p <=> i <= k
  BY <1>3, <1>4, <1>5, BeforeIs
<1>8. new = Inserted(m, p, k)
  BY <1>2, <1>7 DEF Before
<1>9. new \in Seq(Positions) /\ Len(new) = n + 1 /\ InsertedAt(new, m, n, p, k)
  BY <1>1, <1>8, InsertIs, SMTT(30)
<1>10. DOMAIN new = 1..(n + 1) /\ new \in [1..(n + 1) -> Nat]
  <2>1. DOMAIN new = 1..(n + 1) /\ new \in [1..(n + 1) -> Positions]
    BY <1>9
  <2> QED BY <1>3, <2>1
<1>11. Parted(m, n, p, k)
  BY <1>6, <1>7 DEF Parted
<1>12. Rising(new, n + 1) /\ Elements(new, n + 1) = Elements(m, n) \cup {p}
  <2>1. Numbers(m, n)
    BY <1>4 DEF Numbers
  <2> QED BY <1>3, <1>5, <1>9, <1>11, <2>1, InsertSorted
<1>13. Increasing(new)
  BY <1>9, <1>12 DEF Increasing
<1>14. Range(new) = Range(m) \cup {p}
  BY <1>2, <1>10, <1>12 DEF Range, Elements
<1> QED BY <1>1, <1>9, <1>13, <1>14

\* No more markers than positions.
LEMMA MarkersFew ==
  ASSUME NEW m \in Seq(Positions), Increasing(m)
  PROVE  Len(m) \in Nat /\ Len(m) <= Cardinality(Positions) /\ Cardinality(Positions) \in Nat
<1>1. m \in [1..Len(m) -> Positions] /\ Len(m) \in Nat
  OBVIOUS
<1>2. \A i \in 1..Len(m) : m[i] \in Nat
  BY <1>1, MarkerAssumption
<1>3. ASSUME NEW i \in 1..Len(m), NEW j \in 1..Len(m), m[i] = m[j] PROVE i = j
  <2>1. ~(i < j) /\ ~(j < i)
    BY <1>2, <1>3 DEF Increasing, Rising
  <2> QED BY <1>1, <2>1
<1>4. m \in Injection(1..Len(m), Positions)
  BY <1>1, <1>3 DEF Injection, IsInjective
<1>5. Cardinality(1..Len(m)) <= Cardinality(Positions)
  BY <1>4, FS_Injection, MarkerAssumption
<1>6. Cardinality(1..Len(m)) = Len(m)
  <2>1. PICK n \in Nat : n = Len(m)
    BY <1>1
  <2>2. Cardinality(1..n) = n
    BY FS_Interval
  <2> QED BY <2>1, <2>2
<1> QED BY <1>1, <1>5, <1>6, FS_CardinalityType, MarkerAssumption

LEMMA MarkersStep == MarkersInv /\ [MarkersNext]_markerVars => MarkersInv'
<1> SUFFICES ASSUME MarkersInv, [MarkersNext]_markerVars PROVE MarkersInv'
  OBVIOUS
<1>1. CASE UNCHANGED markerVars
  BY <1>1 DEF markerVars, MarkersInv
<1>2. CASE SetMarkerFails
  BY <1>1, <1>2 DEF SetMarkerFails
<1>3. ASSUME NEW p \in Positions, SetMarker(p) PROVE MarkersInv'
  <2>1. /\ markers \in Seq(Positions) /\ Increasing(markers)
        /\ MarkerCap \in Nat /\ MarkerCap > 0 /\ Positions \subseteq Nat
    BY MarkerAssumption DEF MarkersInv
  <2>2. PICK n \in Nat, cap \in Nat, size \in Nat :
          /\ n = Len(markers) /\ cap = markerCap /\ size = Cardinality(Positions)
          /\ n <= size /\ n <= cap /\ MarkerCap <= cap /\ cap <= MarkerCap + 2 * size
    <3>1. PICK n \in Nat, size \in Nat : n = Len(markers) /\ size = Cardinality(Positions) /\ n <= size
      BY <2>1, MarkersFew
    <3>2. markerCap \in MarkerCap..(MarkerCap + 2 * size) /\ n <= markerCap
      BY <3>1 DEF MarkersInv
    <3>3. markerCap \in Nat /\ MarkerCap <= markerCap /\ markerCap <= MarkerCap + 2 * size
      BY <2>1, <3>2
    <3> QED BY <3>1, <3>2, <3>3
  <2>3. markerCap' = IF n >= cap THEN 2 * cap ELSE cap
    BY <1>3, <2>2 DEF SetMarker, Full
  <2>4. markerCap' \in MarkerCap..(MarkerCap + 2 * size) /\ n + 1 <= markerCap'
    BY <2>1, <2>2, <2>3
  <2>5. CASE p \in Range(markers)
    <3>1. markers' = markers /\ marked' = marked
      BY <1>3, <2>5 DEF SetMarker, MarkersInv
    <3> QED BY <2>1, <2>2, <2>4, <3>1 DEF MarkersInv
  <2>6. CASE p \notin Range(markers)
    <3>1. markers' = Inserted(markers, p, Before(markers, p))
      BY <1>3, <2>6 DEF SetMarker
    <3>2. /\ markers' \in Seq(Positions) /\ Len(markers') = Len(markers) + 1
          /\ Increasing(markers') /\ Range(markers') = Range(markers) \cup {p}
      BY <2>1, <2>6, <3>1, SetIs
    <3>3. marked' = marked \cup {p}
      BY <1>3 DEF SetMarker
    <3>4. marked' = Range(markers')
      BY <3>2, <3>3 DEF MarkersInv
    <3> QED BY <2>2, <2>4, <3>2, <3>4 DEF MarkersInv
  <2> QED BY <2>5, <2>6
<1> QED BY <1>1, <1>2, <1>3 DEF MarkersNext

-----------------------------------------------------------------------------
(* The binary search.                                                      *)

Windows == [lo : Int, hi : Int]

\* After k rounds: what is in front of the window is not after p, what is behind
\* it is, and the window is empty or has lost a slot each round.
Around(w, m, n, p, k) ==
  /\ w \in Windows /\ 0 <= w.lo /\ w.lo <= w.hi /\ w.hi <= n
  /\ \A i \in 1..n : (i <= w.lo => m[i] <= p) /\ (i > w.hi => p < m[i])
  /\ w.lo = w.hi \/ w.hi - w.lo <= n - k

\* A round of the loop keeps that.
LEMMA HalvedIs ==
  ASSUME NEW n \in Nat, NEW m, Numbers(m, n), Rising(m, n), NEW p \in Nat, NEW w,
         NEW k \in 0..(n - 1), Around(w, m, n, p, k)
  PROVE  Around(Halved(w, m, p), m, n, p, k + 1)
<1>1. PICK lo \in Int, hi \in Int : w = [lo |-> lo, hi |-> hi]
  BY DEF Around, Windows
<1>2. /\ w.lo = lo /\ w.hi = hi /\ 0 <= lo /\ lo <= hi /\ hi <= n /\ (lo = hi \/ hi - lo <= n - k)
      /\ \A i \in 1..n : (i <= lo => m[i] <= p) /\ (i > hi => p < m[i])
  BY <1>1 DEF Around
<1>3. CASE lo = hi
  <2>1. Halved(w, m, p) = w
    BY <1>2, <1>3 DEF Halved
  <2> QED BY <1>2, <1>3, <2>1 DEF Around
<1>4. CASE lo < hi
  <2>1. PICK mid \in Int : mid = lo + (hi - lo) \div 2 /\ lo <= mid /\ mid < hi
    BY <1>2, <1>4
  <2>2. Halved(w, m, p) = IF m[mid + 1] <= p THEN [lo |-> mid + 1, hi |-> hi]
                          ELSE [lo |-> lo, hi |-> mid]
    BY <1>2, <1>4, <2>1 DEF Halved, NotAfter
  <2>3. mid + 1 \in 1..n /\ \A i \in 1..n : m[i] \in Nat
    BY <1>2, <2>1 DEF Numbers
  <2>4. CASE m[mid + 1] <= p
    <3>1. \A i \in 1..n : i <= mid + 1 => m[i] <= p
      BY <2>1, <2>3, <2>4 DEF Rising
    <3> DEFINE v == [lo |-> mid + 1, hi |-> hi]
    <3>2. v \in Windows /\ v.lo = mid + 1 /\ v.hi = hi
      BY DEF Windows
    <3>3. Halved(w, m, p) = v
      BY <2>2, <2>4
    <3> HIDE DEF v
    <3> QED BY <1>2, <1>4, <2>1, <3>1, <3>2, <3>3 DEF Around
  <2>5. CASE ~(m[mid + 1] <= p)
    <3>1. \A i \in 1..n : i > mid => p < m[i]
      BY <2>1, <2>3, <2>5 DEF Rising
    <3> DEFINE v == [lo |-> lo, hi |-> mid]
    <3>2. v \in Windows /\ v.lo = lo /\ v.hi = mid
      BY DEF Windows
    <3>3. Halved(w, m, p) = v
      BY <2>2, <2>5
    <3> HIDE DEF v
    <3> QED BY <1>2, <1>4, <2>1, <3>1, <3>2, <3>3 DEF Around
  <2> QED BY <2>4, <2>5
<1> QED BY <1>2, <1>3, <1>4

\* The search ends between the markers not after p and those after it.
LEMMA GetMarkerIs ==
  ASSUME NEW n \in Nat, n = Len(markers), Numbers(markers, n), Rising(markers, n), NEW p \in Nat
  PROVE  \E k \in 0..n : /\ GetMarker(p) = IF k = 0 THEN 0 ELSE markers[k]
                         /\ \A i \in 1..n : markers[i] <= p <=> i <= k
<1> DEFINE window[i \in 0..Len(markers)] ==
             IF i = 0 THEN [lo |-> 0, hi |-> Len(markers)]
             ELSE Halved(window[i - 1], markers, p)
           start == [lo |-> 0, hi |-> n]
           G == [i \in 1..n |-> [w \in Windows |-> Halved(w, markers, p)]]
           S == {i \in 0..n : Around(window[i], markers, n, p, i)}
<1>1. GetMarker(p) = IF window[n].lo = 0 THEN 0 ELSE markers[window[n].lo]
  BY DEF GetMarker
<1>2. start \in Windows
  BY DEF Windows
<1>3. ASSUME NEW w \in Windows PROVE Halved(w, markers, p) \in Windows
  <2>1. PICK lo \in Int, hi \in Int : w = [lo |-> lo, hi |-> hi]
    BY DEF Windows
  <2>2. w.lo + (w.hi - w.lo) \div 2 \in Int
    BY <2>1
  <2> QED BY <2>1, <2>2 DEF Halved, Windows
<1>4. G \in NextValues(n, Windows)
  BY <1>3 DEF NextValues
<1>5. PICK f : Follows(f, n, Windows, start, G)
  <2> HIDE DEF G, start, window
  <2> QED BY <1>2, <1>4, StepFunction, Zenon
<1>6. \A i \in 1..n : f[i] = Halved(f[i - 1], markers, p)
  <2> SUFFICES ASSUME NEW i \in 1..n PROVE f[i] = Halved(f[i - 1], markers, p)
    OBVIOUS
  <2>1. f[i - 1] \in Windows
    BY <1>5 DEF Follows
  <2>2. G[i][f[i - 1]] = Halved(f[i - 1], markers, p)
    <3> HIDE DEF window, S
    <3> QED BY <2>1
  <2> QED BY <1>5, <2>2 DEF Follows
<1>7. window = [i \in 0..Len(markers) |->
                 IF i = 0 THEN [lo |-> 0, hi |-> Len(markers)]
                 ELSE Halved(window[i - 1], markers, p)]
  <2>1. f = [i \in 0..Len(markers) |->
                 IF i = 0 THEN [lo |-> 0, hi |-> Len(markers)]
                 ELSE Halved(f[i - 1], markers, p)]
    <3> HIDE DEF G
    <3> QED BY <1>5, <1>6 DEF Follows
  <2> HIDE DEF G
  <2> QED BY <2>1
<1> HIDE DEF window, G
<1>8. 0 \in S
  <2>1. window[0] = start
    BY <1>7
  <2>2. start.lo = 0 /\ start.hi = n
    OBVIOUS
  <2> HIDE DEF start
  <2>3. Around(window[0], markers, n, p, 0)
    BY <1>2, <2>1, <2>2 DEF Around
  <2> QED BY <2>3
<1>9. ASSUME NEW i \in 0..(n - 1), i \in S PROVE i + 1 \in S
  <2>1. window[i + 1] = Halved(window[i], markers, p)
    BY <1>7
  <2>2. Around(window[i + 1], markers, n, p, i + 1)
    BY <1>9, <2>1, HalvedIs
  <2> QED BY <2>2
<1> HIDE DEF S
<1>10. n \in S
  BY <1>8, <1>9, IntervalInduct
<1>11. Around(window[n], markers, n, p, n)
  BY <1>10 DEF S
<1>12. PICK k \in 0..n : k = window[n].lo /\ k = window[n].hi
  BY <1>11 DEF Around, Windows
<1>13. \A i \in 1..n : markers[i] <= p <=> i <= k
  BY <1>11, <1>12 DEF Around, Numbers
<1> QED BY <1>1, <1>12, <1>13

LEMMA MarkersInvInit == MarkersInit => MarkersInv
<1> SUFFICES ASSUME MarkersInit PROVE MarkersInv
  OBVIOUS
<1>1. markers \in Seq(Positions) /\ Len(markers) = 0 /\ markers = <<>>
  BY DEF MarkersInit
<1>2. Increasing(markers) /\ Range(markers) = {}
  BY <1>1 DEF Increasing, Rising, Range
<1>3. Cardinality(Positions) \in Nat
  BY MarkerAssumption, FS_CardinalityType
<1> QED BY <1>1, <1>2, <1>3, MarkerAssumption DEF MarkersInit, MarkersInv

LEMMA NearestInv == MarkersInv => NearestMarker
<1> SUFFICES ASSUME MarkersInv, NEW p \in Positions
             PROVE  GetMarker(p) = Max({0} \cup {m \in marked : m <= p})
  BY DEF NearestMarker
<1>1. PICK n \in Nat : n = Len(markers)
  BY DEF MarkersInv
<1>2. DOMAIN markers = 1..n /\ marked = {markers[i] : i \in 1..n}
  BY <1>1 DEF MarkersInv, Range
<1>3. p \in Nat /\ Numbers(markers, n) /\ Rising(markers, n)
  <2>1. \A i \in 1..n : markers[i] \in Positions
    BY <1>1 DEF MarkersInv
  <2> QED BY <1>1, <2>1, MarkerAssumption DEF MarkersInv, Increasing, Numbers
<1>4. PICK k \in 0..n : /\ GetMarker(p) = IF k = 0 THEN 0 ELSE markers[k]
                        /\ \A i \in 1..n : markers[i] <= p <=> i <= k
  BY <1>1, <1>3, GetMarkerIs
<1> DEFINE before == {0} \cup {m \in marked : m <= p}
<1>5. \A i \in 1..n : markers[i] \in Nat
  BY <1>3 DEF Numbers
<1>6. \A m \in before : m \in Int /\ (m = 0 \/ \E i \in 1..n : i <= k /\ m = markers[i])
  BY <1>2, <1>4, <1>5
<1>7. CASE k = 0
  <2>1. 0 \in before /\ \A m \in before : m <= 0
    BY <1>6, <1>7
  <2> HIDE DEF before
  <2>2. Max(before) = 0
    BY <1>6, <2>1, MaxIs
  <2> QED BY <1>4, <1>7, <2>2 DEF before
<1>8. CASE k # 0
  <2>1. k \in 1..n /\ markers[k] \in before
    BY <1>2, <1>4, <1>8
  <2>2. \A m \in before : m <= markers[k]
    <3>1. \A i \in 1..n : i <= k => markers[i] <= markers[k]
      BY <1>3, <1>5, <2>1 DEF Rising
    <3> QED BY <1>5, <1>6, <2>1, <3>1
  <2> HIDE DEF before
  <2>3. Max(before) = markers[k]
    BY <1>6, <2>1, <2>2, MaxIs
  <2> QED BY <1>4, <1>8, <2>3 DEF before
<1> QED BY <1>7, <1>8

\* The variables have their types and the markers fit the array, whose capacity
\* is never more than twice what it had to be (vaist_kv_set_replay_marker).
THEOREM MarkersTypes == MarkersSpec => []MarkersTypeOK
<1>1. MarkersInv => MarkersTypeOK
  BY DEF MarkersInv, MarkersTypeOK, Range
<1> QED BY <1>1, MarkersInvInit, MarkersStep, PTL DEF MarkersSpec

\* In whatever order positions are marked, the binary search of
\* vaist_kv_get_replay_marker finds the nearest marker at or before a position.
THEOREM NearestMarkerFound == MarkersSpec => []NearestMarker
  BY NearestInv, MarkersInvInit, MarkersStep, PTL DEF MarkersSpec

-----------------------------------------------------------------------------
(* The streaming cache: the LRU list.                                      *)

Names == Tensors \cup {NoTensor}
Links == Entry \cup {None}
CacheEntries == [name : Names, gpu : Names, staging : Names, refcount : Nat,
                 prev : Links, next : Links]
StreamCaches == [entry : [Entry -> CacheEntries], head : Links, tail : Links, resident : Int]

\* The entries of c whose links make the list q[1], ..., q[n] from head to tail.
ListIs(c, q, n) ==
  /\ n \in Nat /\ q \in [1..n -> Entry]
  /\ \A j, k \in 1..n : q[j] = q[k] => j = k
  /\ c.head = IF n = 0 THEN None ELSE q[1]
  /\ c.tail = IF n = 0 THEN None ELSE q[n]
  /\ \A k \in 1..n : /\ c.entry[q[k]].prev = IF k = 1 THEN None ELSE q[k - 1]
                     /\ c.entry[q[k]].next = IF k = n THEN None ELSE q[k + 1]
On(q, n) == {q[k] : k \in 1..n}

\* d differs from c in links only.
SameExceptLinks(c, d) ==
  /\ d.resident = c.resident
  /\ \A i \in Entry : /\ d.entry[i].name = c.entry[i].name
                      /\ d.entry[i].gpu = c.entry[i].gpu
                      /\ d.entry[i].staging = c.entry[i].staging
                      /\ d.entry[i].refcount = c.entry[i].refcount

LEMMA NoneIsNoEntry == None \notin Entry /\ MaxEntries \in Nat /\ MaxEntries > 0
BY StreamAssumption DEF None, Entry

\* _lru_remove, field by field.
LEMMA UnlinkedFields ==
  ASSUME NEW c \in StreamCaches, NEW i \in Entry
  PROVE  LET p == c.entry[i].prev
             n == c.entry[i].next
             d == Unlinked(c, i)
         IN  /\ d \in StreamCaches /\ SameExceptLinks(c, d)
             /\ d.head = (IF p = None THEN n ELSE c.head)
             /\ d.tail = (IF n = None THEN p ELSE c.tail)
             /\ \A j \in Entry :
                  /\ d.entry[j].prev = IF j = i THEN None ELSE IF j = n THEN p ELSE c.entry[j].prev
                  /\ d.entry[j].next = IF j = i THEN None ELSE IF j = p THEN n ELSE c.entry[j].next
<1> DEFINE p == c.entry[i].prev
           n == c.entry[i].next
           new == [j \in Entry |->
                     [c.entry[j] EXCEPT !.prev = IF j = i THEN None ELSE IF j = n THEN p ELSE @,
                                        !.next = IF j = i THEN None ELSE IF j = p THEN n ELSE @]]
           d == Unlinked(c, i)
<1>1. /\ c.entry \in [Entry -> CacheEntries] /\ c.head \in Links /\ c.tail \in Links
      /\ c.resident \in Int /\ p \in Links /\ n \in Links
  BY DEF StreamCaches, CacheEntries
<1>2. d = [c EXCEPT !.entry = new, !.head = IF p = None THEN n ELSE @, !.tail = TailAfter(c, i)]
  BY DEF Unlinked
<1>3. ASSUME NEW j \in Entry
      PROVE  /\ new[j] \in CacheEntries
             /\ new[j].name = c.entry[j].name /\ new[j].gpu = c.entry[j].gpu
             /\ new[j].staging = c.entry[j].staging /\ new[j].refcount = c.entry[j].refcount
             /\ new[j].prev = IF j = i THEN None ELSE IF j = n THEN p ELSE c.entry[j].prev
             /\ new[j].next = IF j = i THEN None ELSE IF j = p THEN n ELSE c.entry[j].next
  <2>1. c.entry[j] \in CacheEntries /\ None \in Links
    BY <1>1 DEF Links
  <2> HIDE DEF p, n
  <2>2. PICK v \in Links, w \in Links :
          /\ v = IF j = i THEN None ELSE IF j = n THEN p ELSE c.entry[j].prev
          /\ w = IF j = i THEN None ELSE IF j = p THEN n ELSE c.entry[j].next
    BY <1>1, <2>1 DEF CacheEntries
  <2>3. new[j] = [c.entry[j] EXCEPT !.prev = v, !.next = w]
    BY <2>2
  <2> HIDE DEF new
  <2> QED BY <2>1, <2>2, <2>3 DEF CacheEntries
<1>4. new \in [Entry -> CacheEntries]
  <2>1. \A j \in Entry : new[j] \in CacheEntries
    BY <1>3
  <2> QED BY <2>1
<1>5. TailAfter(c, i) = IF n = None THEN p ELSE c.tail
  BY DEF TailAfter
<1> HIDE DEF new, p, n
<1>6. /\ d.entry = new /\ d.head = (IF p = None THEN n ELSE c.head)
      /\ d.tail = (IF n = None THEN p ELSE c.tail) /\ d.resident = c.resident
      /\ d \in StreamCaches
  <2>1. d = [entry |-> new, head |-> IF p = None THEN n ELSE c.head,
             tail |-> IF n = None THEN p ELSE c.tail, resident |-> c.resident]
    BY <1>2, <1>5 DEF StreamCaches
  <2> HIDE DEF d
  <2> QED BY <1>1, <1>4, <2>1 DEF StreamCaches
<1> HIDE DEF d
<1>7. SameExceptLinks(c, d)
  BY <1>3, <1>6 DEF SameExceptLinks
<1>8. ASSUME NEW j \in Entry
      PROVE  /\ d.entry[j].prev = IF j = i THEN None ELSE IF j = n THEN p ELSE c.entry[j].prev
             /\ d.entry[j].next = IF j = i THEN None ELSE IF j = p THEN n ELSE c.entry[j].next
  BY <1>3, <1>6
<1> QED BY <1>6, <1>7, <1>8 DEF d, p, n

\* _lru_push_front, field by field.
LEMMA PushedFields ==
  ASSUME NEW c \in StreamCaches, NEW i \in Entry
  PROVE  LET d == PushedFront(c, i)
         IN  /\ d \in StreamCaches /\ SameExceptLinks(c, d)
             /\ d.head = i /\ d.tail = (IF c.head = None THEN i ELSE c.tail)
             /\ \A j \in Entry :
                  /\ d.entry[j].prev = IF j = c.head THEN i ELSE IF j = i THEN None
                                       ELSE c.entry[j].prev
                  /\ d.entry[j].next = IF j = i THEN c.head ELSE c.entry[j].next
<1> DEFINE new == [j \in Entry |->
                     [c.entry[j] EXCEPT !.prev = IF j = c.head THEN i ELSE IF j = i THEN None ELSE @,
                                        !.next = IF j = i THEN c.head ELSE @]]
           d == PushedFront(c, i)
<1>1. /\ c.entry \in [Entry -> CacheEntries] /\ c.head \in Links /\ c.tail \in Links
      /\ c.resident \in Int /\ i \in Links /\ None \in Links
  BY DEF StreamCaches, Links
<1>2. d = [c EXCEPT !.entry = new, !.head = i, !.tail = IF c.head = None THEN i ELSE @]
  BY DEF PushedFront
<1>3. ASSUME NEW j \in Entry
      PROVE  /\ new[j] \in CacheEntries
             /\ new[j].name = c.entry[j].name /\ new[j].gpu = c.entry[j].gpu
             /\ new[j].staging = c.entry[j].staging /\ new[j].refcount = c.entry[j].refcount
             /\ new[j].prev = IF j = c.head THEN i ELSE IF j = i THEN None ELSE c.entry[j].prev
             /\ new[j].next = IF j = i THEN c.head ELSE c.entry[j].next
  <2>1. c.entry[j] \in CacheEntries
    BY <1>1
  <2>2. PICK v \in Links, w \in Links :
          /\ v = IF j = c.head THEN i ELSE IF j = i THEN None ELSE c.entry[j].prev
          /\ w = IF j = i THEN c.head ELSE c.entry[j].next
    BY <1>1, <2>1 DEF CacheEntries
  <2>3. new[j] = [c.entry[j] EXCEPT !.prev = v, !.next = w]
    BY <2>2
  <2> HIDE DEF new
  <2> QED BY <2>1, <2>2, <2>3 DEF CacheEntries
<1>4. new \in [Entry -> CacheEntries]
  <2>1. \A j \in Entry : new[j] \in CacheEntries
    BY <1>3
  <2> QED BY <2>1
<1> HIDE DEF new
<1>5. /\ d.entry = new /\ d.head = i /\ d.tail = (IF c.head = None THEN i ELSE c.tail)
      /\ d.resident = c.resident /\ d \in StreamCaches
  <2>1. d = [entry |-> new, head |-> i, tail |-> IF c.head = None THEN i ELSE c.tail,
             resident |-> c.resident]
    BY <1>2 DEF StreamCaches
  <2> HIDE DEF d
  <2> QED BY <1>1, <1>4, <2>1 DEF StreamCaches
<1> HIDE DEF d
<1>6. SameExceptLinks(c, d)
  BY <1>3, <1>5 DEF SameExceptLinks
<1>7. ASSUME NEW j \in Entry
      PROVE  /\ d.entry[j].prev = IF j = c.head THEN i ELSE IF j = i THEN None ELSE c.entry[j].prev
             /\ d.entry[j].next = IF j = i THEN c.head ELSE c.entry[j].next
  BY <1>3, <1>5
<1> QED BY <1>5, <1>6, <1>7 DEF d

\* q without its k-th entry, and q with i in front.
Without(q, n, k) == [j \in 1..(n - 1) |-> IF j < k THEN q[j] ELSE q[j + 1]]
Fronted(q, n, i) == [j \in 1..(n + 1) |-> IF j = 1 THEN i ELSE q[j - 1]]

\* Unlinking an entry takes it out of the list.
LEMMA UnlinkedList ==
  ASSUME NEW c \in StreamCaches, NEW q, NEW n, ListIs(c, q, n), NEW k \in 1..n
  PROVE  /\ ListIs(Unlinked(c, q[k]), Without(q, n, k), n - 1)
         /\ On(Without(q, n, k), n - 1) = On(q, n) \ {q[k]}
<1> DEFINE i == q[k]
           r == Without(q, n, k)
           d == Unlinked(c, i)
<1>1. /\ n \in Nat /\ q \in [1..n -> Entry] /\ i \in Entry /\ n - 1 \in Nat
      /\ \A j, l \in 1..n : q[j] = q[l] => j = l
      /\ None \notin Entry
  BY NoneIsNoEntry DEF ListIs
<1>2. \A j \in 1..(n - 1) : /\ r[j] = IF j < k THEN q[j] ELSE q[j + 1]
                            /\ j \in 1..n /\ j + 1 \in 1..n
  BY <1>1 DEF Without
<1>3. r \in [1..(n - 1) -> Entry]
  BY <1>1 DEF Without
<1>4. \A j, l \in 1..(n - 1) : r[j] = r[l] => j = l
  BY <1>1, <1>2
<1>5. /\ c.entry[i].prev = IF k = 1 THEN None ELSE q[k - 1]
      /\ c.entry[i].next = IF k = n THEN None ELSE q[k + 1]
      /\ c.head = q[1] /\ c.tail = q[n]
  BY DEF ListIs
<1>6. /\ d.head = (IF k = 1 THEN c.entry[i].next ELSE c.head)
      /\ d.tail = (IF k = n THEN c.entry[i].prev ELSE c.tail)
  <2>1. /\ d.head = (IF c.entry[i].prev = None THEN c.entry[i].next ELSE c.head)
        /\ d.tail = (IF c.entry[i].next = None THEN c.entry[i].prev ELSE c.tail)
    BY <1>1, UnlinkedFields
  <2>2. k # 1 => k - 1 \in 1..n /\ q[k - 1] # None
    BY <1>1
  <2>3. k # n => k + 1 \in 1..n /\ q[k + 1] # None
    BY <1>1
  <2> QED BY <1>5, <2>1, <2>2, <2>3
<1>7. /\ d.head = IF n - 1 = 0 THEN None ELSE r[1]
      /\ d.tail = IF n - 1 = 0 THEN None ELSE r[n - 1]
  <2> HIDE DEF d, r
  <2>1. CASE n = 1
    BY <1>5, <1>6, <2>1
  <2>2. CASE n > 1
    <3>1. 1 \in 1..(n - 1) /\ n - 1 \in 1..(n - 1)
      BY <1>1, <2>2
    <3>2. r[1] = (IF k = 1 THEN q[2] ELSE q[1]) /\ r[n - 1] = IF k = n THEN q[n - 1] ELSE q[n]
      BY <1>1, <1>2, <3>1
    <3> QED BY <1>1, <1>5, <1>6, <2>2, <3>2
  <2> QED BY <1>1, <2>1, <2>2
<1>8. ASSUME NEW j \in 1..(n - 1)
      PROVE  /\ d.entry[r[j]].prev = IF j = 1 THEN None ELSE r[j - 1]
             /\ d.entry[r[j]].next = IF j = n - 1 THEN None ELSE r[j + 1]
  <2> DEFINE l == IF j < k THEN j ELSE j + 1
  <2>1. l \in 1..n /\ r[j] = q[l] /\ l # k /\ q[l] # i /\ q[l] \in Entry
    BY <1>1, <1>2
  <2>2. /\ c.entry[q[l]].prev = IF l = 1 THEN None ELSE q[l - 1]
        /\ c.entry[q[l]].next = IF l = n THEN None ELSE q[l + 1]
    BY <2>1 DEF ListIs
  <2>3. q[l] = c.entry[i].next <=> l = k + 1
    BY <1>1, <1>5, <2>1
  <2>4. q[l] = c.entry[i].prev <=> l = k - 1
    BY <1>1, <1>5, <2>1
  <2>5. /\ d.entry[q[l]].prev = IF l = k + 1 THEN c.entry[i].prev ELSE c.entry[q[l]].prev
        /\ d.entry[q[l]].next = IF l = k - 1 THEN c.entry[i].next ELSE c.entry[q[l]].next
    <3>1. ASSUME NEW x \in Entry, x # i
          PROVE  /\ d.entry[x].prev = IF x = c.entry[i].next THEN c.entry[i].prev ELSE c.entry[x].prev
                 /\ d.entry[x].next = IF x = c.entry[i].prev THEN c.entry[i].next ELSE c.entry[x].next
      BY <1>1, <3>1, UnlinkedFields
    <3> HIDE DEF d, i, l
    <3> QED BY <2>1, <2>3, <2>4, <3>1
  <2>6. j # 1 => j - 1 \in 1..(n - 1) /\ r[j - 1] = IF j - 1 < k THEN q[j - 1] ELSE q[j]
    BY <1>1, <1>2
  <2>7. j # n - 1 => j + 1 \in 1..(n - 1) /\ r[j + 1] = IF j + 1 < k THEN q[j + 1] ELSE q[j + 2]
    BY <1>1, <1>2
  <2> HIDE DEF d, r, i
  <2>8. d.entry[q[l]].prev = IF j = 1 THEN None ELSE r[j - 1]
    BY <1>1, <1>5, <2>1, <2>2, <2>5, <2>6
  <2>9. d.entry[q[l]].next = IF j = n - 1 THEN None ELSE r[j + 1]
    BY <1>1, <1>5, <2>1, <2>2, <2>5, <2>7
  <2> QED BY <2>1, <2>8, <2>9
<1>9. ListIs(d, r, n - 1)
  <2> HIDE DEF d, r
  <2> QED BY <1>1, <1>3, <1>4, <1>7, <1>8 DEF ListIs
<1>10. On(r, n - 1) = On(q, n) \ {i}
  <2>1. ASSUME NEW j \in 1..(n - 1) PROVE r[j] \in On(q, n) \ {i}
    BY <1>1, <1>2 DEF On
  <2>2. ASSUME NEW j \in 1..n, q[j] # i PROVE q[j] \in On(r, n - 1)
    <3>1. CASE j < k
      <4>1. j \in 1..(n - 1) /\ r[j] = q[j]
        BY <1>1, <1>2, <3>1
      <4> QED BY <4>1 DEF On
    <3>2. CASE j > k
      <4>1. j - 1 \in 1..(n - 1) /\ r[j - 1] = q[j]
        BY <1>1, <1>2, <3>2
      <4> QED BY <4>1 DEF On
    <3> QED BY <1>1, <2>2, <3>1, <3>2
  <2> QED BY <2>1, <2>2 DEF On
<1> QED BY <1>9, <1>10

\* Pushing an entry that is not in the list puts it at the head.
LEMMA PushedList ==
  ASSUME NEW c \in StreamCaches, NEW q, NEW n, ListIs(c, q, n), NEW i \in Entry, i \notin On(q, n)
  PROVE  /\ ListIs(PushedFront(c, i), Fronted(q, n, i), n + 1)
         /\ On(Fronted(q, n, i), n + 1) = On(q, n) \cup {i}
<1> DEFINE r == Fronted(q, n, i)
           d == PushedFront(c, i)
<1>1. /\ n \in Nat /\ q \in [1..n -> Entry] /\ n + 1 \in Nat
      /\ \A j, l \in 1..n : q[j] = q[l] => j = l
      /\ \A j \in 1..n : q[j] # i /\ q[j] \in Entry
      /\ None \notin Entry
  BY NoneIsNoEntry DEF ListIs, On
<1>2. \A j \in 1..(n + 1) : r[j] = (IF j = 1 THEN i ELSE q[j - 1]) /\ (j # 1 => j - 1 \in 1..n)
  BY <1>1 DEF Fronted
<1>3. r \in [1..(n + 1) -> Entry]
  BY <1>1 DEF Fronted
<1>4. \A j, l \in 1..(n + 1) : r[j] = r[l] => j = l
  BY <1>1, <1>2
<1>5. /\ c.head = IF n = 0 THEN None ELSE q[1]
      /\ c.tail = IF n = 0 THEN None ELSE q[n]
  BY DEF ListIs
<1>6. d.head = r[1] /\ d.tail = r[n + 1]
  <2>1. d.head = i /\ d.tail = IF c.head = None THEN i ELSE c.tail
    BY PushedFields
  <2>2. 1 \in 1..(n + 1) /\ n + 1 \in 1..(n + 1) /\ (n # 0 => 1 \in 1..n)
    BY <1>1
  <2> HIDE DEF d, r
  <2> QED BY <1>1, <1>2, <1>5, <2>1, <2>2
<1>7. ASSUME NEW j \in 1..(n + 1)
      PROVE  /\ d.entry[r[j]].prev = IF j = 1 THEN None ELSE r[j - 1]
             /\ d.entry[r[j]].next = IF j = n + 1 THEN None ELSE r[j + 1]
  <2>1. ASSUME NEW x \in Entry
        PROVE  /\ d.entry[x].prev = IF x = c.head THEN i ELSE IF x = i THEN None
                                    ELSE c.entry[x].prev
               /\ d.entry[x].next = IF x = i THEN c.head ELSE c.entry[x].next
    BY PushedFields
  <2>2. j # n + 1 => j + 1 \in 1..(n + 1) /\ r[j + 1] = q[j]
    BY <1>1, <1>2
  <2>3. CASE j = 1
    <3>1. r[j] = i /\ i # c.head
      BY <1>1, <1>2, <1>5, <2>3
    <3>2. d.entry[i].prev = None /\ d.entry[i].next = c.head
      BY <2>1, <3>1
    <3> HIDE DEF d, r
    <3> QED BY <1>1, <1>5, <2>2, <2>3, <3>1, <3>2
  <2>4. CASE j # 1
    <3>1. j - 1 \in 1..n /\ r[j] = q[j - 1] /\ q[j - 1] \in Entry /\ q[j - 1] # i
      BY <1>1, <1>2, <2>4
    <3>2. /\ c.entry[q[j - 1]].prev = IF j - 1 = 1 THEN None ELSE q[j - 2]
          /\ c.entry[q[j - 1]].next = IF j - 1 = n THEN None ELSE q[j]
      BY <3>1 DEF ListIs
    <3>3. q[j - 1] = c.head <=> j = 2
      BY <1>1, <1>5, <3>1
    <3>4. /\ d.entry[q[j - 1]].prev = IF j = 2 THEN i ELSE c.entry[q[j - 1]].prev
          /\ d.entry[q[j - 1]].next = c.entry[q[j - 1]].next
      BY <2>1, <3>1, <3>3
    <3>5. j - 1 \in 1..(n + 1) /\ r[j - 1] = IF j = 2 THEN i ELSE q[j - 2]
      BY <1>1, <1>2, <3>1
    <3> HIDE DEF d, r
    <3> QED BY <1>1, <2>2, <2>4, <3>1, <3>2, <3>4, <3>5
  <2> QED BY <2>3, <2>4
<1>8. ListIs(d, r, n + 1)
  <2> HIDE DEF d, r
  <2> QED BY <1>1, <1>3, <1>4, <1>6, <1>7 DEF ListIs
<1>9. On(r, n + 1) = On(q, n) \cup {i}
  <2>1. ASSUME NEW j \in 1..(n + 1) PROVE r[j] \in On(q, n) \cup {i}
    BY <1>1, <1>2 DEF On
  <2>2. ASSUME NEW j \in 1..n PROVE q[j] \in On(r, n + 1)
    <3>1. j + 1 \in 1..(n + 1) /\ r[j + 1] = q[j]
      BY <1>1, <1>2
    <3> QED BY <3>1 DEF On
  <2>3. i \in On(r, n + 1)
    <3>1. 1 \in 1..(n + 1) /\ r[1] = i
      BY <1>1, <1>2
    <3> QED BY <3>1 DEF On
  <2> QED BY <2>1, <2>2, <2>3 DEF On
<1> QED BY <1>8, <1>9

-----------------------------------------------------------------------------
(* The streaming cache: what a cache that is sound keeps.                  *)

InList(c) == \E n, q : ListIs(c, q, n) /\ On(q, n) = OnGpu(c)
HoldsNames(c) ==
  \A i \in Entry : LET e == c.entry[i]
                   IN  /\ {e.gpu, e.staging} \subseteq {NoTensor, e.name}
                       /\ e.name # NoTensor => \A j \in Entry \ {i} : c.entry[j].name # e.name
Counted(c) == c.resident >= GpuBytes(c)
Fits(c) == GpuBytes(c) <= MaxBytes \/ Cardinality(OnGpu(c)) = 1
SoundCache(c) == InList(c) /\ HoldsNames(c) /\ Counted(c)

\* The bytes of the entries in S.
BytesIn(c, S) == UNION {{i} \X (1..Bytes(c, i)) : i \in S}

LEMMA EntriesFinite == IsFiniteSet(Entry) /\ Cardinality(Entry) = MaxEntries
BY NoneIsNoEntry, FS_Interval DEF Entry

LEMMA OnGpuFinite ==
  ASSUME NEW c
  PROVE  OnGpu(c) \in SUBSET Entry /\ IsFiniteSet(OnGpu(c)) /\ Cardinality(OnGpu(c)) \in Nat
<1>1. OnGpu(c) \in SUBSET Entry
  BY DEF OnGpu
<1> QED BY <1>1, EntriesFinite, FS_Subset, FS_CardinalityType

LEMMA NameApart ==
  ASSUME NEW c, HoldsNames(c), NEW i \in Entry, NEW j \in Entry, j # i, c.entry[i].name # NoTensor
  PROVE  c.entry[j].name # c.entry[i].name
BY DEF HoldsNames

\* A tensor on the GPU has a size.
LEMMA GpuSize ==
  ASSUME NEW c \in StreamCaches, HoldsNames(c), NEW i \in OnGpu(c)
  PROVE  c.entry[i].name \in Tensors /\ Bytes(c, i) \in Nat /\ Bytes(c, i) > 0
<1>1. c.entry[i] \in CacheEntries /\ c.entry[i].gpu # NoTensor /\ i \in Entry
  BY DEF StreamCaches, OnGpu
<1>2. c.entry[i].name \in Tensors
  BY <1>1 DEF HoldsNames, CacheEntries, Names
<1> QED BY <1>2, StreamAssumption DEF Bytes

LEMMA BytesFinite ==
  ASSUME NEW c \in StreamCaches, HoldsNames(c), NEW S \in SUBSET OnGpu(c)
  PROVE  IsFiniteSet(BytesIn(c, S)) /\ Cardinality(BytesIn(c, S)) \in Nat
<1> DEFINE part == [i \in S |-> {i} \X (1..Bytes(c, i))]
           parts == {part[i] : i \in S}
<1>1. IsFiniteSet(S)
  BY OnGpuFinite, FS_Subset
<1>2. \A i \in S : IsFiniteSet(part[i])
  <2> SUFFICES ASSUME NEW i \in S PROVE IsFiniteSet({i} \X (1..Bytes(c, i)))
    OBVIOUS
  <2>1. Bytes(c, i) \in Nat
    BY GpuSize
  <2>2. IsFiniteSet({i}) /\ IsFiniteSet(1..Bytes(c, i))
    <3>1. IsFiniteSet({i})
      BY FS_Singleton
    <3>2. IsFiniteSet(1..Bytes(c, i))
      BY <2>1, FS_Interval
    <3> QED BY <3>1, <3>2
  <2> QED BY <2>2, FS_Product
<1> HIDE DEF part
<1>3. part \in Surjection(S, parts)
  <2>1. part \in [S -> parts]
    BY DEF part
  <2> QED BY <2>1 DEF Surjection
<1>4. IsFiniteSet(parts)
  BY <1>1, <1>3, FS_Surjection
<1>5. IsFiniteSet(UNION parts)
  BY <1>2, <1>4, FS_UNION
<1>6. UNION parts = BytesIn(c, S)
  BY DEF part, BytesIn
<1> QED BY <1>5, <1>6, FS_CardinalityType

\* Taking an entry off the GPU takes its bytes away.
LEMMA BytesRemoved ==
  ASSUME NEW c \in StreamCaches, HoldsNames(c), NEW d, NEW v \in OnGpu(c),
         OnGpu(d) = OnGpu(c) \ {v},
         \A i \in OnGpu(d) : d.entry[i].name = c.entry[i].name
  PROVE  /\ GpuBytes(d) = GpuBytes(c) - Bytes(c, v)
         /\ GpuBytes(d) \in Nat /\ GpuBytes(c) \in Nat
<1> DEFINE all == BytesIn(c, OnGpu(c))
           rest == BytesIn(c, OnGpu(d))
           own == {v} \X (1..Bytes(c, v))
<1>1. BytesIn(d, OnGpu(d)) = rest
  BY DEF BytesIn, Bytes
<1>2. GpuBytes(c) = Cardinality(all) /\ GpuBytes(d) = Cardinality(rest)
  BY <1>1 DEF GpuBytes, BytesIn
<1>3. all = rest \cup own
  BY DEF BytesIn
<1>4. rest \cap own = {}
  BY DEF BytesIn
<1>5. IsFiniteSet(rest) /\ Cardinality(rest) \in Nat /\ Cardinality(all) \in Nat
  BY BytesFinite
<1>6. IsFiniteSet(own) /\ Cardinality(own) = Bytes(c, v) /\ Bytes(c, v) \in Nat
  <2>1. Bytes(c, v) \in Nat
    BY GpuSize
  <2>2. IsFiniteSet({v}) /\ Cardinality({v}) = 1
    BY FS_Singleton
  <2>3. IsFiniteSet(1..Bytes(c, v)) /\ Cardinality(1..Bytes(c, v)) = Bytes(c, v)
    BY <2>1, FS_Interval
  <2>4. IsFiniteSet(own) /\ Cardinality(own) = 1 * Bytes(c, v)
    BY <2>2, <2>3, FS_Product, ZenonT(60)
  <2> QED BY <2>1, <2>4
<1> HIDE DEF all, rest, own
<1>7. Cardinality(all) = Cardinality(rest) + Cardinality(own) - 0
  <2>1. Cardinality(rest \cup own) = Cardinality(rest) + Cardinality(own) - Cardinality(rest \cap own)
    BY <1>5, <1>6, FS_Union
  <2> QED BY <1>3, <1>4, <2>1, FS_EmptySet
<1> QED BY <1>2, <1>5, <1>6, <1>7

\* The same residents under the same names have the same bytes.
LEMMA BytesKept ==
  ASSUME NEW c, NEW d, OnGpu(d) = OnGpu(c), \A i \in OnGpu(c) : d.entry[i].name = c.entry[i].name
  PROVE  GpuBytes(d) = GpuBytes(c)
BY DEF GpuBytes, Bytes

\* What one entry more or less does to the budget.
LEMMA FitsRemoved ==
  ASSUME NEW c \in StreamCaches, HoldsNames(c), Fits(c), NEW d, NEW v \in OnGpu(c),
         OnGpu(d) = OnGpu(c) \ {v},
         \A i \in OnGpu(d) : d.entry[i].name = c.entry[i].name
  PROVE  Fits(d)
<1>1. /\ GpuBytes(d) = GpuBytes(c) - Bytes(c, v)
      /\ GpuBytes(d) \in Nat /\ GpuBytes(c) \in Nat
  BY BytesRemoved
<1>2. Bytes(c, v) \in Nat /\ MaxBytes \in Nat
  BY GpuSize, StreamAssumption
<1>3. CASE GpuBytes(c) <= MaxBytes
  BY <1>1, <1>2, <1>3 DEF Fits
<1>4. CASE Cardinality(OnGpu(c)) = 1
  <2>1. Cardinality(OnGpu(d)) = 0
    <3>1. IsFiniteSet(OnGpu(c))
      BY OnGpuFinite
    <3>2. Cardinality(OnGpu(c) \ {v}) = Cardinality(OnGpu(c)) - 1
      BY <3>1, FS_RemoveElement
    <3> QED BY <1>4, <3>2
  <2>2. OnGpu(d) = {}
    BY <2>1, OnGpuFinite, FS_EmptySet
  <2>3. UNION {{i} \X (1..Bytes(d, i)) : i \in OnGpu(d)} = {}
    BY <2>2
  <2>4. GpuBytes(d) = 0
    BY <2>3, FS_EmptySet DEF GpuBytes
  <2> QED BY <1>2, <2>4 DEF Fits
<1> QED BY <1>3, <1>4 DEF Fits

LEMMA HeadAndTail ==
  ASSUME NEW c, InList(c)
  PROVE  /\ c.head = None <=> OnGpu(c) = {}
         /\ c.tail = None <=> OnGpu(c) = {}
         /\ OnGpu(c) # {} => c.tail \in OnGpu(c)
<1>1. PICK n, q : ListIs(c, q, n) /\ On(q, n) = OnGpu(c)
  BY DEF InList
<1>2. n \in Nat /\ q \in [1..n -> Entry] /\ None \notin Entry
  BY <1>1, NoneIsNoEntry DEF ListIs
<1>3. CASE n = 0
  <2>1. 1..n = {}
    BY <1>3
  <2> QED BY <1>1, <1>3, <2>1 DEF ListIs, On
<1>4. CASE n # 0
  <2>1. 1 \in 1..n /\ n \in 1..n
    BY <1>2, <1>4
  <2>2. q[1] # None /\ q[n] # None /\ q[n] \in On(q, n)
    BY <1>2, <2>1 DEF On
  <2> QED BY <1>1, <1>4, <2>2 DEF ListIs
<1> QED BY <1>3, <1>4

\* c and d have the same links; d has the names, staging buffers and reference
\* counts of c.
SameLinks(c, d) ==
  /\ d.head = c.head /\ d.tail = c.tail
  /\ \A i \in Entry : d.entry[i].prev = c.entry[i].prev /\ d.entry[i].next = c.entry[i].next
SameNames(c, d) ==
  \A i \in Entry : /\ d.entry[i].name = c.entry[i].name
                   /\ d.entry[i].staging = c.entry[i].staging
                   /\ d.entry[i].refcount = c.entry[i].refcount

LEMMA SameLinksInList ==
  ASSUME NEW c, NEW d, SameLinks(c, d), NEW q, NEW n, ListIs(c, q, n)
  PROVE  ListIs(d, q, n)
BY DEF ListIs, SameLinks

LEMMA HoldsNamesExceptLinks ==
  ASSUME NEW c, NEW d, SameExceptLinks(c, d), HoldsNames(c)
  PROVE  HoldsNames(d)
BY DEF HoldsNames, SameExceptLinks

\* The copy of entry v is gone in d: unlinking v makes a list of the others.
LEMMA RemovedIs ==
  ASSUME NEW c, InList(c), NEW v \in OnGpu(c), NEW d \in StreamCaches, SameLinks(c, d),
         d.entry[v].gpu = NoTensor,
         \A i \in Entry \ {v} : d.entry[i].gpu = c.entry[i].gpu
  PROVE  LET u == Unlinked(d, v)
         IN  /\ u \in StreamCaches /\ SameExceptLinks(d, u) /\ InList(u)
             /\ OnGpu(u) = OnGpu(c) \ {v}
<1> DEFINE u == Unlinked(d, v)
<1>1. PICK n, q : ListIs(c, q, n) /\ On(q, n) = OnGpu(c)
  BY DEF InList
<1>2. PICK k \in 1..n : v = q[k]
  BY <1>1 DEF On
<1>3. ListIs(d, q, n) /\ v \in Entry
  BY <1>1, SameLinksInList DEF OnGpu
<1>4. u \in StreamCaches /\ SameExceptLinks(d, u)
  BY <1>3, UnlinkedFields
<1>5. ListIs(u, Without(q, n, k), n - 1) /\ On(Without(q, n, k), n - 1) = OnGpu(c) \ {v}
  BY <1>1, <1>2, <1>3, UnlinkedList
<1> HIDE DEF u
<1>6. OnGpu(u) = OnGpu(c) \ {v}
  BY <1>3, <1>4 DEF OnGpu, SameExceptLinks
<1>7. InList(u)
  BY <1>5, <1>6 DEF InList
<1> QED BY <1>4, <1>6, <1>7 DEF u

\* Entry i, which was not in the list, has a copy in d: it comes in front.
LEMMA AddedIs ==
  ASSUME NEW c, InList(c), NEW i \in Entry, i \notin OnGpu(c), NEW d \in StreamCaches,
         SameLinks(c, d), d.entry[i].gpu # NoTensor,
         \A j \in Entry \ {i} : d.entry[j].gpu = c.entry[j].gpu
  PROVE  LET u == PushedFront(d, i)
         IN  /\ u \in StreamCaches /\ SameExceptLinks(d, u) /\ InList(u)
             /\ OnGpu(u) = OnGpu(c) \cup {i}
<1> DEFINE u == PushedFront(d, i)
<1>1. PICK n, q : ListIs(c, q, n) /\ On(q, n) = OnGpu(c)
  BY DEF InList
<1>2. ListIs(d, q, n)
  BY <1>1, SameLinksInList
<1>3. u \in StreamCaches /\ SameExceptLinks(d, u)
  BY PushedFields
<1>4. ListIs(u, Fronted(q, n, i), n + 1) /\ On(Fronted(q, n, i), n + 1) = OnGpu(c) \cup {i}
  BY <1>1, <1>2, PushedList
<1> HIDE DEF u
<1>5. OnGpu(u) = OnGpu(c) \cup {i}
  BY <1>3 DEF OnGpu, SameExceptLinks
<1>6. InList(u)
  BY <1>4, <1>5 DEF InList
<1> QED BY <1>3, <1>5, <1>6 DEF u

-----------------------------------------------------------------------------
(* The streaming cache: eviction to the budget.                            *)

\* d is what some evictions have left of c.
EvictedTo(c, d) ==
  /\ d \in StreamCaches /\ SoundCache(d) /\ SameNames(c, d) /\ OnGpu(d) \subseteq OnGpu(c)
  /\ Fits(c) => Fits(d)

\* A round of the loop of to_gpu.
LEMMA TailEvictedIs ==
  ASSUME NEW c \in StreamCaches, SoundCache(c), c.head # None
  PROVE  /\ EvictedTo(c, TailEvicted(c))
         /\ c.tail \in OnGpu(c) /\ OnGpu(TailEvicted(c)) = OnGpu(c) \ {c.tail}
<1> DEFINE v == c.tail
           d == [c EXCEPT !.entry[v].gpu = NoTensor, !.resident = BytesLeft(c, v)]
           u == TailEvicted(c)
<1>1. v \in OnGpu(c) /\ v \in Entry
  BY HeadAndTail DEF SoundCache, OnGpu
<1>2. Bytes(c, v) \in Nat /\ c.resident \in Int
  BY <1>1, GpuSize DEF SoundCache, StreamCaches
<1>3. u = Unlinked(d, v)
  BY DEF TailEvicted
<1>4. /\ d \in StreamCaches /\ SameLinks(c, d) /\ SameNames(c, d)
      /\ d.entry[v].gpu = NoTensor /\ d.resident = c.resident - Bytes(c, v)
      /\ \A i \in Entry \ {v} : d.entry[i].gpu = c.entry[i].gpu
  <2>1. c.resident - Bytes(c, v) \in Int
    BY <1>2
  <2> HIDE DEF v
  <2>2. d \in StreamCaches
    BY <1>1, <2>1, ZenonT(60) DEF StreamCaches, CacheEntries, Names, BytesLeft
  <2>3. SameLinks(c, d) /\ SameNames(c, d)
    BY <1>1 DEF StreamCaches, CacheEntries, SameLinks, SameNames
  <2>4. /\ d.entry[v].gpu = NoTensor /\ d.resident = c.resident - Bytes(c, v)
        /\ \A i \in Entry \ {v} : d.entry[i].gpu = c.entry[i].gpu
    BY <1>1 DEF StreamCaches, CacheEntries, BytesLeft
  <2> QED BY <2>2, <2>3, <2>4
<1> HIDE DEF d, u
<1>5. /\ u \in StreamCaches /\ SameExceptLinks(d, u) /\ InList(u)
      /\ OnGpu(u) = OnGpu(c) \ {v}
  BY <1>1, <1>3, <1>4, RemovedIs DEF SoundCache
<1>6. SameNames(c, u)
  BY <1>4, <1>5 DEF SameNames, SameExceptLinks
<1>7. HoldsNames(u)
  <2>1. HoldsNames(d)
    BY <1>4 DEF SoundCache, HoldsNames, SameNames
  <2> QED BY <1>5, <2>1, HoldsNamesExceptLinks
<1>8. \A i \in OnGpu(u) : u.entry[i].name = c.entry[i].name
  BY <1>6 DEF SameNames, OnGpu
<1>9. Counted(u)
  <2>1. /\ GpuBytes(u) = GpuBytes(c) - Bytes(c, v)
        /\ GpuBytes(u) \in Nat /\ GpuBytes(c) \in Nat
    BY <1>1, <1>5, <1>8, BytesRemoved DEF SoundCache
  <2>2. u.resident = c.resident - Bytes(c, v)
    BY <1>4, <1>5 DEF SameExceptLinks
  <2> QED BY <1>2, <2>1, <2>2 DEF Counted, SoundCache
<1>10. Fits(c) => Fits(u)
  BY <1>1, <1>5, <1>8, FitsRemoved DEF SoundCache
<1> QED BY <1>1, <1>5, <1>6, <1>7, <1>9, <1>10 DEF EvictedTo, SoundCache, u

LEMMA EvictedTrans ==
  ASSUME NEW c, NEW d, NEW e, EvictedTo(c, d), EvictedTo(d, e)
  PROVE  EvictedTo(c, e)
BY DEF EvictedTo, SameNames

\* After k rounds: what is needed is there, or k entries at least have gone.
LeftAfter(c, d, k, size) ==
  /\ EvictedTo(c, d)
  /\ ~OverBudget(d, size) \/ Cardinality(OnGpu(d)) <= MaxEntries - k

LEMMA EvictingIs ==
  ASSUME NEW c \in StreamCaches, SoundCache(c), NEW size \in Nat
  PROVE  EvictedTo(c, Evicting(c, size)) /\ ~OverBudget(Evicting(c, size), size)
<1> DEFINE round[n \in 0..MaxEntries] ==
             IF n = 0 THEN c
             ELSE IF OverBudget(round[n - 1], size) THEN TailEvicted(round[n - 1])
                  ELSE round[n - 1]
           D == {d \in StreamCaches : EvictedTo(c, d)}
           G == [n \in 1..MaxEntries |->
                   [d \in D |-> IF OverBudget(d, size) THEN TailEvicted(d) ELSE d]]
           S == {n \in 0..MaxEntries : LeftAfter(c, round[n], n, size)}
<1>1. Evicting(c, size) = round[MaxEntries] /\ MaxEntries \in Nat /\ MaxEntries > 0
  BY NoneIsNoEntry DEF Evicting
<1>2. c \in D
  BY DEF EvictedTo, SameNames
<1>3. ASSUME NEW d \in D, OverBudget(d, size) PROVE TailEvicted(d) \in D
  <2>1. d \in StreamCaches /\ SoundCache(d) /\ EvictedTo(c, d) /\ d.head # None
    BY <1>3 DEF EvictedTo, OverBudget
  <2>2. EvictedTo(d, TailEvicted(d))
    BY <2>1, TailEvictedIs
  <2>3. EvictedTo(c, TailEvicted(d))
    BY <2>1, <2>2, EvictedTrans
  <2> QED BY <2>3 DEF EvictedTo
<1>4. G \in NextValues(MaxEntries, D)
  <2> HIDE DEF D
  <2> QED BY <1>3 DEF NextValues
<1>5. PICK f : Follows(f, MaxEntries, D, c, G)
  <2> HIDE DEF D, G, round
  <2> QED BY <1>1, <1>2, <1>4, StepFunction, Zenon
<1>6. \A n \in 1..MaxEntries :
        f[n] = IF OverBudget(f[n - 1], size) THEN TailEvicted(f[n - 1]) ELSE f[n - 1]
  <2> SUFFICES ASSUME NEW n \in 1..MaxEntries
               PROVE  f[n] = IF OverBudget(f[n - 1], size) THEN TailEvicted(f[n - 1]) ELSE f[n - 1]
    OBVIOUS
  <2>1. f[n - 1] \in D
    BY <1>1, <1>5 DEF Follows
  <2>2. G[n][f[n - 1]] = IF OverBudget(f[n - 1], size) THEN TailEvicted(f[n - 1]) ELSE f[n - 1]
    <3> HIDE DEF D, round, S
    <3> QED BY <2>1
  <2> QED BY <1>5, <2>2 DEF Follows
<1>7. round = [n \in 0..MaxEntries |->
                IF n = 0 THEN c
                ELSE IF OverBudget(round[n - 1], size) THEN TailEvicted(round[n - 1])
                     ELSE round[n - 1]]
  <2>1. f = [n \in 0..MaxEntries |->
                IF n = 0 THEN c
                ELSE IF OverBudget(f[n - 1], size) THEN TailEvicted(f[n - 1]) ELSE f[n - 1]]
    <3> HIDE DEF D, G
    <3> QED BY <1>1, <1>5, <1>6 DEF Follows
  <2> HIDE DEF D, G
  <2> QED BY <2>1
<1> HIDE DEF round, G, D
<1>8. 0 \in S
  <2>1. round[0] = c
    BY <1>1, <1>7
  <2>2. EvictedTo(c, c)
    BY <1>2 DEF D
  <2>3. Cardinality(OnGpu(c)) <= MaxEntries - 0
    BY <1>1, OnGpuFinite, EntriesFinite, FS_Subset
  <2> QED BY <1>1, <2>1, <2>2, <2>3 DEF LeftAfter
<1>9. ASSUME NEW n \in 0..(MaxEntries - 1), n \in S PROVE n + 1 \in S
  <2> DEFINE d == round[n]
             e == round[n + 1]
  <2>1. e = IF OverBudget(d, size) THEN TailEvicted(d) ELSE d
    BY <1>1, <1>7
  <2>2. LeftAfter(c, d, n, size) /\ n + 1 \in 0..MaxEntries
    BY <1>1, <1>9
  <2> SUFFICES LeftAfter(c, e, n + 1, size)
    BY <2>2
  <2> HIDE DEF d, e
  <2>3. CASE ~OverBudget(d, size)
    BY <2>1, <2>2, <2>3 DEF LeftAfter
  <2>4. CASE OverBudget(d, size)
    <3>1. /\ d \in StreamCaches /\ SoundCache(d) /\ d.head # None /\ EvictedTo(c, d)
          /\ Cardinality(OnGpu(d)) <= MaxEntries - n
      BY <2>2, <2>4 DEF LeftAfter, EvictedTo, OverBudget
    <3>2. /\ EvictedTo(d, e) /\ d.tail \in OnGpu(d) /\ OnGpu(e) = OnGpu(d) \ {d.tail}
      BY <2>1, <2>4, <3>1, TailEvictedIs
    <3>3. EvictedTo(c, e)
      BY <3>1, <3>2, EvictedTrans
    <3>4. IsFiniteSet(OnGpu(d)) /\ Cardinality(OnGpu(d)) \in Nat
      BY OnGpuFinite
    <3>5. Cardinality(OnGpu(e)) = Cardinality(OnGpu(d)) - 1
      BY <3>2, <3>4, FS_RemoveElement
    <3>6. Cardinality(OnGpu(e)) <= MaxEntries - (n + 1)
      BY <1>1, <3>1, <3>4, <3>5
    <3> QED BY <3>3, <3>6 DEF LeftAfter
  <2> QED BY <2>3, <2>4
<1> HIDE DEF S
<1>10. MaxEntries \in S
  BY <1>1, <1>8, <1>9, IntervalInduct
<1>11. LeftAfter(c, round[MaxEntries], MaxEntries, size)
  BY <1>10 DEF S
<1> DEFINE d == round[MaxEntries]
<1> HIDE DEF d
<1>12. EvictedTo(c, d)
  BY <1>11 DEF LeftAfter, d
<1>13. ~OverBudget(d, size)
  <2> SUFFICES ASSUME OverBudget(d, size) PROVE FALSE
    OBVIOUS
  <2>1. Cardinality(OnGpu(d)) <= MaxEntries - MaxEntries
    BY <1>11 DEF LeftAfter, d
  <2>2. OnGpu(d) = {}
    BY <1>1, <2>1, OnGpuFinite, FS_EmptySet
  <2> QED BY <1>12, <2>2, HeadAndTail DEF OverBudget, EvictedTo, SoundCache
<1> QED BY <1>1, <1>12, <1>13 DEF d

-----------------------------------------------------------------------------
(* The streaming cache: the operations.                                    *)

CountedIn(c, r) == \A i \in OnGpu(c) : c.entry[i].refcount \in 1..r[c.entry[i].name]

\* The inductive invariant, of a cache c and the references r.
StreamOK(c, r) == c \in StreamCaches /\ SoundCache(c) /\ Fits(c) /\ CountedIn(c, r)
RefsOK(r) == r \in [Tensors -> Nat] /\ \A t \in Tensors : r[t] <= MaxRefs[t]
StreamInv == StreamOK(slots, refs) /\ RefsOK(refs)

LEMMA FirstInIs ==
  ASSUME NEW S \in SUBSET Entry
  PROVE  /\ FirstIn(S) = None <=> S = {}
         /\ S # {} => FirstIn(S) \in S
<1>1. CASE S = {}
  BY <1>1 DEF FirstIn
<1>2. CASE S # {}
  <2>1. S \in SUBSET Nat /\ S \in SUBSET Int
    BY NoneIsNoEntry DEF Entry
  <2>2. PICK m \in S : \A k \in S : m <= k
    BY <1>2, <2>1, LeastElement
  <2>3. Min(S) = m
    BY <2>1, <2>2, MinIs
  <2> QED BY <1>2, <2>2, <2>3, NoneIsNoEntry DEF FirstIn
<1> QED BY <1>1, <1>2

LEMMA NamedIs ==
  ASSUME NEW c, NEW t
  PROVE  /\ Named(c, t) = None <=> \A i \in Entry : c.entry[i].name # t
         /\ Named(c, t) # None => Named(c, t) \in Entry /\ c.entry[Named(c, t)].name = t
<1> DEFINE S == {i \in Entry : c.entry[i].name = t}
<1>1. S \in SUBSET Entry
  OBVIOUS
<1>2. Named(c, t) = FirstIn(S)
  BY DEF Named
<1> HIDE DEF S
<1>3. /\ FirstIn(S) = None <=> S = {}
      /\ S # {} => FirstIn(S) \in S
  BY <1>1, FirstInIs
<1> QED BY <1>2, <1>3 DEF S

LEMMA ResidentNamedIs ==
  ASSUME NEW c, NEW t
  PROVE  /\ ResidentNamed(c, t) = None <=> \A i \in OnGpu(c) : c.entry[i].name # t
         /\ ResidentNamed(c, t) # None =>
              ResidentNamed(c, t) \in OnGpu(c) /\ c.entry[ResidentNamed(c, t)].name = t
<1> DEFINE S == {i \in Entry : c.entry[i].name = t /\ c.entry[i].gpu # NoTensor}
<1>1. S \in SUBSET Entry
  OBVIOUS
<1>2. ResidentNamed(c, t) = FirstIn(S)
  BY DEF ResidentNamed
<1> HIDE DEF S
<1>3. /\ FirstIn(S) = None <=> S = {}
      /\ S # {} => FirstIn(S) \in S
  BY <1>1, FirstInIs
<1> QED BY <1>2, <1>3 DEF S, OnGpu

\* Evictions cost no one else its references.
LEMMA EvictedOK ==
  ASSUME NEW c, NEW r, StreamOK(c, r), NEW d, EvictedTo(c, d)
  PROVE  StreamOK(d, r)
<1>1. CountedIn(d, r)
  BY DEF StreamOK, EvictedTo, CountedIn, SameNames, OnGpu
<1> QED BY <1>1 DEF StreamOK, EvictedTo

\* d is c with entry i named t and with that staging buffer.
Restaged(c, d, i, t, buffer) ==
  /\ d \in StreamCaches /\ SameLinks(c, d) /\ d.resident = c.resident
  /\ \A j \in Entry : d.entry[j].gpu = c.entry[j].gpu /\ d.entry[j].refcount = c.entry[j].refcount
  /\ \A j \in Entry \ {i} : d.entry[j] = c.entry[j]
  /\ d.entry[i].name = t /\ d.entry[i].staging = buffer

LEMMA StagedIs ==
  ASSUME NEW c \in StreamCaches, NEW i \in Entry, NEW t \in Names, NEW buffer \in Names
  PROVE  /\ Restaged(c, [c EXCEPT !.entry[i] = [@ EXCEPT !.staging = buffer, !.name = t]], i, t, buffer)
         /\ Restaged(c, [c EXCEPT !.entry[i].staging = buffer], i, c.entry[i].name, buffer)
<1>1. ASSUME NEW d, d = [c EXCEPT !.entry[i] = [@ EXCEPT !.staging = buffer, !.name = t]]
      PROVE  Restaged(c, d, i, t, buffer)
  <2>1. d \in StreamCaches
    BY <1>1 DEF StreamCaches, CacheEntries
  <2>2. /\ SameLinks(c, d) /\ d.resident = c.resident
        /\ \A j \in Entry : d.entry[j].gpu = c.entry[j].gpu /\ d.entry[j].refcount = c.entry[j].refcount
        /\ \A j \in Entry \ {i} : d.entry[j] = c.entry[j]
        /\ d.entry[i].name = t /\ d.entry[i].staging = buffer
    BY <1>1 DEF StreamCaches, CacheEntries, SameLinks
  <2> QED BY <2>1, <2>2 DEF Restaged
<1>2. ASSUME NEW d, d = [c EXCEPT !.entry[i].staging = buffer]
      PROVE  Restaged(c, d, i, c.entry[i].name, buffer)
  <2>1. d \in StreamCaches
    BY <1>2 DEF StreamCaches, CacheEntries
  <2>2. /\ SameLinks(c, d) /\ d.resident = c.resident
        /\ \A j \in Entry : d.entry[j].gpu = c.entry[j].gpu /\ d.entry[j].refcount = c.entry[j].refcount
        /\ \A j \in Entry \ {i} : d.entry[j] = c.entry[j]
        /\ d.entry[i].name = c.entry[i].name /\ d.entry[i].staging = buffer
    BY <1>2 DEF StreamCaches, CacheEntries, SameLinks
  <2> QED BY <2>1, <2>2 DEF Restaged
<1> QED BY <1>1, <1>2

\* Staging a tensor under its name.
LEMMA StagedOK ==
  ASSUME NEW c, NEW r, StreamOK(c, r), NEW i \in Entry, NEW t \in Names, NEW buffer \in {t, NoTensor},
         \/ c.entry[i].name = t
         \/ c.entry[i].name = NoTensor /\ \A j \in Entry : c.entry[j].name # t,
         NEW d, Restaged(c, d, i, t, buffer)
  PROVE  StreamOK(d, r)
<1>1. c \in StreamCaches /\ InList(c) /\ HoldsNames(c) /\ Counted(c) /\ Fits(c) /\ CountedIn(c, r)
  BY DEF StreamOK, SoundCache
<1>2. d \in StreamCaches
  BY DEF Restaged
<1>3. /\ SameLinks(c, d) /\ d.resident = c.resident
      /\ \A j \in Entry : d.entry[j].gpu = c.entry[j].gpu /\ d.entry[j].refcount = c.entry[j].refcount
      /\ \A j \in Entry \ {i} : d.entry[j] = c.entry[j]
      /\ d.entry[i].name = t /\ d.entry[i].staging = buffer
  BY DEF Restaged
<1>4. OnGpu(d) = OnGpu(c)
  BY <1>3 DEF OnGpu
<1>5. HoldsNames(d)
  <2>1. {c.entry[i].gpu} \subseteq {NoTensor, t}
    BY <1>1 DEF HoldsNames
  <2>2. t # NoTensor => \A j \in Entry \ {i} : c.entry[j].name # t
    BY <1>1 DEF HoldsNames
  <2> QED BY <1>1, <1>3, <2>1, <2>2 DEF HoldsNames
<1>6. \A j \in OnGpu(c) : d.entry[j].name = c.entry[j].name
  BY <1>1, <1>3 DEF OnGpu, HoldsNames
<1>7. InList(d)
  <2>1. PICK n, q : ListIs(c, q, n) /\ On(q, n) = OnGpu(c)
    BY <1>1 DEF InList
  <2>2. ListIs(d, q, n)
    BY <1>3, <2>1, SameLinksInList
  <2> QED BY <1>4, <2>1, <2>2 DEF InList
<1>8. GpuBytes(d) = GpuBytes(c)
  BY <1>4, <1>6, BytesKept
<1>9. Counted(d) /\ Fits(d)
  BY <1>1, <1>3, <1>4, <1>8 DEF Counted, Fits
<1>10. CountedIn(d, r)
  <2>1. ASSUME NEW j \in OnGpu(d) PROVE d.entry[j].refcount \in 1..r[d.entry[j].name]
    <3>1. j \in Entry /\ j \in OnGpu(c)
      BY <1>4 DEF OnGpu
    <3> QED BY <1>1, <1>3, <1>6, <3>1 DEF CountedIn
  <2> QED BY <2>1 DEF CountedIn
<1> QED BY <1>2, <1>5, <1>7, <1>9, <1>10 DEF StreamOK, SoundCache

\* The slot prefetch uses is free, or holds the tensor already.
LEMMA SlotReadyIs ==
  ASSUME StreamInv, NEW t \in Tensors, PrefetchSlot(t) # None
  PROVE  LET c == SlotReady(t)
             i == PrefetchSlot(t)
         IN  /\ StreamOK(c, refs) /\ i \in Entry
             /\ \/ c.entry[i].name = t
                \/ c.entry[i].name = NoTensor /\ \A j \in Entry : c.entry[j].name # t
<1>1. /\ slots \in StreamCaches /\ InList(slots) /\ HoldsNames(slots) /\ Counted(slots)
      /\ Fits(slots) /\ CountedIn(slots, refs) /\ t # NoTensor
  BY StreamAssumption DEF StreamInv, StreamOK, SoundCache
<1>2. CASE Named(slots, t) # None
  <2>1. SlotReady(t) = slots /\ PrefetchSlot(t) = Named(slots, t)
    BY <1>2 DEF SlotReady, PrefetchSlot
  <2> QED BY <1>2, <2>1, NamedIs DEF StreamInv
<1>3. CASE Named(slots, t) = None /\ Named(slots, NoTensor) # None
  <2>1. SlotReady(t) = slots /\ PrefetchSlot(t) = Named(slots, NoTensor)
    BY <1>3 DEF SlotReady, PrefetchSlot
  <2> QED BY <1>3, <2>1, NamedIs DEF StreamInv
<1>4. CASE Named(slots, t) = None /\ Named(slots, NoTensor) = None
  <2> DEFINE v == slots.tail
             d == Cleared(slots, v)
             u == Unlinked(d, v)
  <2>1. SlotReady(t) = u /\ PrefetchSlot(t) = v
    BY <1>4 DEF SlotReady, PrefetchSlot
  <2>2. v \in OnGpu(slots) /\ v \in Entry
    BY <1>1, <2>1, HeadAndTail DEF OnGpu
  <2> HIDE DEF v
  <2>3. d \in StreamCaches
    BY <1>1, <2>2, ZenonT(60) DEF Cleared, StreamCaches, CacheEntries, Names
  <2>4. /\ SameLinks(slots, d) /\ d.resident = slots.resident
        /\ d.entry[v].gpu = NoTensor /\ d.entry[v].name = NoTensor /\ d.entry[v].staging = NoTensor
        /\ \A j \in Entry \ {v} : d.entry[j] = slots.entry[j]
    BY <1>1, <2>2 DEF Cleared, StreamCaches, CacheEntries, SameLinks
  <2> HIDE DEF d
  <2>5. /\ u \in StreamCaches /\ SameExceptLinks(d, u) /\ InList(u)
        /\ OnGpu(u) = OnGpu(slots) \ {v}
    BY <1>1, <2>2, <2>3, <2>4, RemovedIs
  <2> HIDE DEF u
  <2>6. HoldsNames(u)
    <3>1. HoldsNames(d)
      BY <1>1, <2>4 DEF HoldsNames
    <3> QED BY <2>5, <3>1, HoldsNamesExceptLinks
  <2>7. \A j \in Entry \ {v} : /\ u.entry[j].name = slots.entry[j].name
                              /\ u.entry[j].refcount = slots.entry[j].refcount
    BY <2>4, <2>5 DEF SameExceptLinks
  <2>8. u.entry[v].name = NoTensor /\ u.resident = slots.resident
    BY <2>2, <2>4, <2>5 DEF SameExceptLinks
  <2>9. \A j \in OnGpu(u) : j \in Entry \ {v} /\ j \in OnGpu(slots)
    BY <2>5 DEF OnGpu
  <2>10. Fits(u)
    BY <1>1, <2>2, <2>5, <2>7, <2>9, FitsRemoved
  <2>11. Counted(u)
    <3>1. /\ GpuBytes(u) = GpuBytes(slots) - Bytes(slots, v)
          /\ GpuBytes(u) \in Nat /\ GpuBytes(slots) \in Nat
      BY <1>1, <2>2, <2>5, <2>7, <2>9, BytesRemoved
    <3>2. Bytes(slots, v) \in Nat /\ slots.resident \in Int
      BY <1>1, <2>2, GpuSize DEF StreamCaches
    <3> QED BY <1>1, <2>8, <3>1, <3>2 DEF Counted
  <2>12. CountedIn(u, refs)
    BY <1>1, <2>7, <2>9 DEF CountedIn
  <2>13. \A j \in Entry : u.entry[j].name # t
    BY <1>1, <1>4, <2>7, <2>8, NamedIs
  <2> QED BY <2>1, <2>2, <2>5, <2>6, <2>8, <2>10, <2>11, <2>12, <2>13 DEF StreamOK, SoundCache
<1> QED BY <1>2, <1>3, <1>4

\* vaist_gguf_tensor_prefetch.
LEMMA PrefetchOK == ASSUME StreamInv, NEW t \in Tensors, Prefetch(t) PROVE StreamInv'
<1> DEFINE c == SlotReady(t)
           i == PrefetchSlot(t)
<1>1. /\ i # None /\ refs' = refs
      /\ slots' = [c EXCEPT !.entry[i] = [@ EXCEPT !.staging = t, !.name = t]]
  BY DEF Prefetch
<1>2. /\ StreamOK(c, refs) /\ i \in Entry
      /\ \/ c.entry[i].name = t
         \/ c.entry[i].name = NoTensor /\ \A j \in Entry : c.entry[j].name # t
  BY <1>1, SlotReadyIs
<1> HIDE DEF c, i
<1>3. c \in StreamCaches /\ t \in Names
  BY <1>2 DEF StreamOK, Names
<1>4. Restaged(c, slots', i, t, t)
  BY <1>1, <1>2, <1>3, StagedIs
<1>5. StreamOK(slots', refs)
  BY <1>2, <1>3, <1>4, StagedOK
<1> QED BY <1>1, <1>5 DEF StreamInv

LEMMA PrefetchNoMemoryOK == ASSUME StreamInv, NEW t \in Tensors, PrefetchNoMemory(t) PROVE StreamInv'
<1> DEFINE c == SlotReady(t)
           i == PrefetchSlot(t)
<1>1. i # None /\ refs' = refs /\ slots' = [c EXCEPT !.entry[i].staging = NoTensor]
  BY DEF PrefetchNoMemory
<1>2. StreamOK(c, refs) /\ i \in Entry
  BY <1>1, SlotReadyIs
<1> HIDE DEF c, i
<1>3. c \in StreamCaches /\ NoTensor \in Names /\ c.entry[i].name \in Names
  BY <1>2 DEF StreamOK, Names, StreamCaches, CacheEntries
<1>4. Restaged(c, slots', i, c.entry[i].name, NoTensor)
  BY <1>1, <1>2, <1>3, StagedIs
<1>5. StreamOK(slots', refs)
  BY <1>2, <1>3, <1>4, StagedOK
<1> QED BY <1>1, <1>5 DEF StreamInv

\* vaist_gguf_streaming_tensor_read.
LEMMA ReadTensorOK == ASSUME StreamInv, NEW t \in Tensors, ReadTensor(t) PROVE StreamInv'
<1> DEFINE i == Named(slots, t)
<1>1. /\ i \in Entry /\ refs' = refs /\ slots' = [slots EXCEPT !.entry[i].staging = t]
      /\ slots.entry[i].name = t
  BY NamedIs DEF ReadTensor
<1>2. StreamOK(slots, refs) /\ slots \in StreamCaches /\ t \in Names
  BY DEF StreamInv, StreamOK, Names
<1> HIDE DEF i
<1>3. Restaged(slots, slots', i, t, t)
  BY <1>1, <1>2, StagedIs
<1>4. StreamOK(slots', refs)
  BY <1>1, <1>2, <1>3, StagedOK
<1> QED BY <1>1, <1>4 DEF StreamInv

\* A caller has one reference more to t.
LEMMA RefTaken ==
  ASSUME RefsOK(refs), NEW t \in Tensors, refs[t] < MaxRefs[t], refs' = [refs EXCEPT ![t] = @ + 1]
  PROVE  /\ RefsOK(refs') /\ refs'[t] = refs[t] + 1
         /\ \A x \in Tensors \ {t} : refs'[x] = refs[x]
<1>1. MaxRefs[t] \in Nat /\ refs[t] \in Nat
  BY StreamAssumption DEF RefsOK
<1> QED BY <1>1 DEF RefsOK

\* vaist_gguf_tensor_to_gpu of a resident tensor.
LEMMA UseResidentOK == ASSUME StreamInv, NEW t \in Tensors, UseResident(t) PROVE StreamInv'
<1> DEFINE i == ResidentNamed(slots, t)
           u == Unlinked(slots, i)
           w == PushedFront(u, i)
           d == [w EXCEPT !.entry[i].refcount = @ + 1]
<1>1. /\ i \in OnGpu(slots) /\ i \in Entry /\ slots.entry[i].name = t
      /\ slots' = d /\ refs[t] < MaxRefs[t] /\ refs' = [refs EXCEPT ![t] = @ + 1]
  BY ResidentNamedIs DEF UseResident, OnGpu
<1>2. /\ slots \in StreamCaches /\ InList(slots) /\ HoldsNames(slots) /\ Counted(slots)
      /\ Fits(slots) /\ CountedIn(slots, refs) /\ RefsOK(refs)
  BY DEF StreamInv, StreamOK, SoundCache
<1> HIDE DEF i
<1>3. PICK n, q : ListIs(slots, q, n) /\ On(q, n) = OnGpu(slots)
  BY <1>2 DEF InList
<1>4. PICK k \in 1..n : i = q[k]
  BY <1>1, <1>3 DEF On
<1>5. u \in StreamCaches /\ SameExceptLinks(slots, u)
  BY <1>1, <1>2, UnlinkedFields
<1>6. ListIs(u, Without(q, n, k), n - 1) /\ On(Without(q, n, k), n - 1) = OnGpu(slots) \ {i}
  BY <1>2, <1>3, <1>4, UnlinkedList
<1> HIDE DEF u
<1>7. w \in StreamCaches /\ SameExceptLinks(u, w)
  BY <1>1, <1>5, PushedFields
<1>8. PICK m, r : ListIs(w, r, m) /\ On(r, m) = OnGpu(slots)
  <2>1. i \notin On(Without(q, n, k), n - 1)
    BY <1>6
  <2>2. \E r : ListIs(w, r, n - 1 + 1) /\ On(r, n - 1 + 1) = (OnGpu(slots) \ {i}) \cup {i}
    BY <1>1, <1>5, <1>6, <2>1, PushedList
  <2> QED BY <1>1, <2>2
<1> HIDE DEF w
<1>9. \A j \in Entry : w.entry[j] \in CacheEntries
  BY <1>7 DEF StreamCaches
<1>10. d \in StreamCaches
  BY <1>1, <1>7, <1>9 DEF StreamCaches, CacheEntries
<1>11. /\ SameLinks(w, d) /\ d.resident = w.resident
       /\ \A j \in Entry : /\ d.entry[j].name = w.entry[j].name /\ d.entry[j].gpu = w.entry[j].gpu
                           /\ d.entry[j].staging = w.entry[j].staging
                           /\ d.entry[j].refcount = IF j = i THEN w.entry[j].refcount + 1
                                                   ELSE w.entry[j].refcount
  BY <1>1, <1>7, <1>9 DEF StreamCaches, CacheEntries, SameLinks
<1> HIDE DEF d
<1>12. /\ d.resident = slots.resident
       /\ \A j \in Entry : /\ d.entry[j].name = slots.entry[j].name
                           /\ d.entry[j].gpu = slots.entry[j].gpu
                           /\ d.entry[j].staging = slots.entry[j].staging
                           /\ d.entry[j].refcount = IF j = i THEN slots.entry[j].refcount + 1
                                                   ELSE slots.entry[j].refcount
  BY <1>5, <1>7, <1>11 DEF SameExceptLinks
<1>13. OnGpu(d) = OnGpu(slots)
  BY <1>12 DEF OnGpu
<1>14. InList(d)
  <2>1. ListIs(d, r, m)
    BY <1>8, <1>11, SameLinksInList
  <2> QED BY <1>8, <1>13, <2>1 DEF InList
<1>15. HoldsNames(d)
  BY <1>2, <1>12 DEF HoldsNames
<1>16. Counted(d) /\ Fits(d)
  <2>1. \A j \in OnGpu(slots) : d.entry[j].name = slots.entry[j].name
    BY <1>12 DEF OnGpu
  <2>2. GpuBytes(d) = GpuBytes(slots)
    BY <1>13, <2>1, BytesKept
  <2> QED BY <1>2, <1>12, <1>13, <2>2 DEF Counted, Fits
<1>17. RefsOK(refs') /\ refs'[t] = refs[t] + 1 /\ \A x \in Tensors \ {t} : refs'[x] = refs[x]
  BY <1>1, <1>2, RefTaken
<1>18. CountedIn(d, refs')
  <2> SUFFICES ASSUME NEW j \in OnGpu(slots) PROVE d.entry[j].refcount \in 1..refs'[d.entry[j].name]
    BY <1>13 DEF CountedIn
  <2>1. /\ j \in Entry /\ slots.entry[j].name \in Tensors
        /\ slots.entry[j].refcount \in 1..refs[slots.entry[j].name]
        /\ refs[slots.entry[j].name] \in Nat
    BY <1>2, GpuSize DEF CountedIn, OnGpu, RefsOK
  <2>2. CASE j = i
    BY <1>1, <1>12, <1>17, <2>1, <2>2
  <2>3. CASE j # i
    <3>1. slots.entry[j].name # t
      BY <1>1, <1>2, <2>1, <2>3, StreamAssumption, NameApart
    <3> QED BY <1>12, <1>17, <2>1, <2>3, <3>1
  <2> QED BY <2>2, <2>3
<1> QED BY <1>1, <1>10, <1>14, <1>15, <1>16, <1>17, <1>18 DEF StreamInv, StreamOK, SoundCache

\* vaist_gguf_tensor_to_gpu of a staged tensor: room is made first.
LEMMA PromoteOK == ASSUME StreamInv, NEW t \in Tensors, Promote(t) PROVE StreamInv'
<1> DEFINE i == Named(slots, t)
           c == Evicting(slots, Size[t])
           d == [c EXCEPT !.entry[i] = [@ EXCEPT !.gpu = c.entry[i].staging, !.refcount = 1],
                          !.resident = @ + Size[t]]
           u == PushedFront(d, i)
<1>1. /\ i \in Entry /\ slots.entry[i].name = t
      /\ \A j \in OnGpu(slots) : slots.entry[j].name # t
      /\ slots.entry[i].staging # NoTensor
      /\ slots' = u /\ refs[t] < MaxRefs[t] /\ refs' = [refs EXCEPT ![t] = @ + 1]
  BY NamedIs, ResidentNamedIs DEF Promote
<1>2. /\ StreamOK(slots, refs) /\ slots \in StreamCaches /\ SoundCache(slots) /\ RefsOK(refs)
      /\ Size[t] \in Nat
  BY StreamAssumption DEF StreamInv, StreamOK
<1>3. EvictedTo(slots, c) /\ ~OverBudget(c, Size[t])
  BY <1>2, EvictingIs
<1> HIDE DEF i, c
<1>4. /\ c \in StreamCaches /\ InList(c) /\ HoldsNames(c) /\ Counted(c) /\ CountedIn(c, refs)
      /\ c.resident \in Int
  <2>1. StreamOK(c, refs)
    BY <1>2, <1>3, EvictedOK
  <2> QED BY <2>1 DEF StreamOK, SoundCache, StreamCaches
<1>5. /\ c.entry[i].name = t /\ c.entry[i].staging = t /\ t # NoTensor
      /\ i \notin OnGpu(c)
  <2>1. c.entry[i].name = t /\ c.entry[i].staging = slots.entry[i].staging
    BY <1>1, <1>3 DEF EvictedTo, SameNames
  <2>2. slots.entry[i].staging = t
    BY <1>1, <1>2 DEF SoundCache, HoldsNames
  <2>3. i \notin OnGpu(c)
    BY <1>1, <1>3 DEF EvictedTo
  <2> QED BY <2>1, <2>2, <2>3, StreamAssumption
<1>6. d \in StreamCaches
  <2>1. PICK more \in Int : more = c.resident + Size[t]
    BY <1>2, <1>4
  <2>2. d = [c EXCEPT !.entry[i] = [@ EXCEPT !.gpu = c.entry[i].staging, !.refcount = 1],
                          !.resident = more]
    BY <1>4, <2>1 DEF StreamCaches
  <2>3. c.entry[i].staging \in Names
    BY <1>5 DEF Names
  <2> HIDE DEF d
  <2> QED BY <1>1, <1>4, <2>2, <2>3, ZenonT(60) DEF StreamCaches, CacheEntries
<1>7. /\ SameLinks(c, d) /\ d.resident = c.resident + Size[t]
      /\ d.entry[i].gpu = t /\ d.entry[i].refcount = 1
      /\ d.entry[i].name = t /\ d.entry[i].staging = t
      /\ \A j \in Entry \ {i} : d.entry[j] = c.entry[j]
  <2>1. c.entry \in [Entry -> CacheEntries]
    BY <1>4 DEF StreamCaches
  <2> QED BY <1>1, <1>4, <1>5, <2>1 DEF StreamCaches, CacheEntries, SameLinks
<1> HIDE DEF d
<1>8. /\ u \in StreamCaches /\ SameExceptLinks(d, u) /\ InList(u)
      /\ OnGpu(u) = OnGpu(c) \cup {i}
  BY <1>1, <1>4, <1>5, <1>6, <1>7, AddedIs
<1> HIDE DEF u
<1>9. /\ u.resident = c.resident + Size[t]
      /\ u.entry[i].name = t /\ u.entry[i].refcount = 1
      /\ \A j \in Entry : u.entry[j].name = c.entry[j].name
      /\ \A j \in Entry \ {i} : u.entry[j].refcount = c.entry[j].refcount
  BY <1>1, <1>5, <1>7, <1>8 DEF SameExceptLinks
<1>10. HoldsNames(u)
  <2>1. HoldsNames(d)
    BY <1>4, <1>5, <1>7 DEF HoldsNames
  <2> QED BY <1>8, <2>1, HoldsNamesExceptLinks
<1>11. /\ GpuBytes(c) = GpuBytes(u) - Size[t]
       /\ GpuBytes(u) \in Nat /\ GpuBytes(c) \in Nat
  <2>1. OnGpu(c) = OnGpu(u) \ {i} /\ i \in OnGpu(u)
    BY <1>5, <1>8
  <2>2. \A j \in OnGpu(c) : c.entry[j].name = u.entry[j].name
    BY <1>9 DEF OnGpu
  <2>3. Bytes(u, i) = Size[t]
    BY <1>9 DEF Bytes
  <2> QED BY <1>8, <1>10, <2>1, <2>2, <2>3, BytesRemoved
<1>12. Counted(u)
  BY <1>2, <1>4, <1>9, <1>11 DEF Counted
<1>13. Fits(u)
  <2>1. CASE c.resident + Size[t] <= MaxBytes
    BY <1>2, <1>4, <1>11, <2>1, StreamAssumption DEF Fits, Counted
  <2>2. CASE ~(c.resident + Size[t] <= MaxBytes)
    <3>1. c.head = None
      BY <1>2, <1>3, <1>4, <2>2, StreamAssumption DEF OverBudget
    <3>2. OnGpu(u) = {i}
      BY <1>4, <1>8, <3>1, HeadAndTail
    <3>3. Cardinality({i}) = 1
      BY FS_Singleton
    <3> QED BY <3>2, <3>3 DEF Fits
  <2> QED BY <2>1, <2>2
<1>14. RefsOK(refs') /\ refs'[t] = refs[t] + 1 /\ \A x \in Tensors \ {t} : refs'[x] = refs[x]
  BY <1>1, <1>2, RefTaken
<1>15. CountedIn(u, refs')
  <2> SUFFICES ASSUME NEW j \in OnGpu(u) PROVE u.entry[j].refcount \in 1..refs'[u.entry[j].name]
    BY DEF CountedIn
  <2>1. CASE j = i
    <3>1. refs[t] \in Nat
      BY <1>2 DEF RefsOK
    <3> QED BY <1>9, <1>14, <2>1, <3>1
  <2>2. CASE j # i
    <3>1. /\ j \in OnGpu(c) /\ j \in Entry /\ c.entry[j].name \in Tensors
          /\ c.entry[j].refcount \in 1..refs[c.entry[j].name]
      BY <1>4, <1>8, <2>2, GpuSize DEF CountedIn, OnGpu
    <3>2. c.entry[j].name # t
      BY <1>1, <1>4, <1>5, <2>2, <3>1 DEF HoldsNames
    <3> QED BY <1>9, <1>14, <2>2, <3>1, <3>2
  <2> QED BY <2>1, <2>2
<1> QED BY <1>1, <1>8, <1>10, <1>12, <1>13, <1>14, <1>15 DEF StreamInv, StreamOK, SoundCache

LEMMA PromoteNoMemoryOK == ASSUME StreamInv, NEW t \in Tensors, PromoteNoMemory(t) PROVE StreamInv'
<1>1. slots' = Evicting(slots, Size[t]) /\ refs' = refs
  BY DEF PromoteNoMemory
<1>2. StreamOK(slots, refs) /\ slots \in StreamCaches /\ SoundCache(slots) /\ Size[t] \in Nat
  BY StreamAssumption DEF StreamInv, StreamOK
<1>3. EvictedTo(slots, slots')
  BY <1>1, <1>2, EvictingIs
<1>4. StreamOK(slots', refs)
  BY <1>2, <1>3, EvictedOK
<1> QED BY <1>1, <1>4 DEF StreamInv

\* A caller has one reference less to t.
LEMMA RefGiven ==
  ASSUME RefsOK(refs), NEW t \in Tensors, refs[t] > 0, refs' = [refs EXCEPT ![t] = @ - 1]
  PROVE  /\ RefsOK(refs') /\ refs'[t] = refs[t] - 1
         /\ \A x \in Tensors \ {t} : refs'[x] = refs[x]
<1>1. MaxRefs[t] \in Nat /\ refs[t] \in Nat
  BY StreamAssumption DEF RefsOK
<1> QED BY <1>1 DEF RefsOK

\* vaist_gguf_tensor_evict_gpu.
LEMMA EvictGpuOK == ASSUME StreamInv, NEW t \in Tensors, EvictGpu(t) PROVE StreamInv'
<1> DEFINE i == ResidentNamed(slots, t)
           c == [slots EXCEPT !.entry[i].refcount = @ - 1]
           d == [c EXCEPT !.entry[i].gpu = NoTensor, !.resident = @ - Size[t]]
           u == Unlinked(d, i)
<1>1. /\ i \in OnGpu(slots) /\ i \in Entry /\ slots.entry[i].name = t
      /\ slots' = (IF OthersLeft(slots, i) THEN c ELSE u)
      /\ refs[t] > 0 /\ refs' = [refs EXCEPT ![t] = @ - 1]
  BY ResidentNamedIs DEF EvictGpu, OnGpu
<1>2. /\ slots \in StreamCaches /\ InList(slots) /\ HoldsNames(slots) /\ Counted(slots)
      /\ Fits(slots) /\ CountedIn(slots, refs) /\ RefsOK(refs) /\ Size[t] \in Nat
      /\ slots.entry \in [Entry -> CacheEntries]
  BY StreamAssumption DEF StreamInv, StreamOK, SoundCache, StreamCaches
<1> HIDE DEF i
<1>3. slots.entry[i].refcount \in 1..refs[t] /\ refs[t] \in Nat
  BY <1>1, <1>2 DEF CountedIn, RefsOK
<1>4. RefsOK(refs') /\ refs'[t] = refs[t] - 1 /\ \A x \in Tensors \ {t} : refs'[x] = refs[x]
  BY <1>1, <1>2, RefGiven
<1>5. PICK fewer \in Nat : fewer = slots.entry[i].refcount - 1
  BY <1>3
<1>6. c = [slots EXCEPT !.entry[i].refcount = fewer]
  BY <1>1, <1>2, <1>5
<1> HIDE DEF c
<1>7. c \in StreamCaches
  BY <1>1, <1>2, <1>6 DEF StreamCaches, CacheEntries
<1>8. /\ SameLinks(slots, c) /\ c.resident = slots.resident
      /\ \A j \in Entry : /\ c.entry[j].name = slots.entry[j].name /\ c.entry[j].gpu = slots.entry[j].gpu
                          /\ c.entry[j].staging = slots.entry[j].staging
                          /\ c.entry[j].refcount = IF j = i THEN fewer ELSE slots.entry[j].refcount
  BY <1>1, <1>2, <1>6 DEF StreamCaches, CacheEntries, SameLinks
<1>9. ASSUME NEW j \in OnGpu(slots), j # i
      PROVE  slots.entry[j].refcount \in 1..refs'[slots.entry[j].name]
  <2>1. /\ j \in Entry /\ slots.entry[j].name \in Tensors
        /\ slots.entry[j].refcount \in 1..refs[slots.entry[j].name]
    BY <1>2, GpuSize DEF CountedIn, OnGpu
  <2>2. slots.entry[j].name # t
    BY <1>1, <1>2, <1>9, <2>1, StreamAssumption, NameApart
  <2> QED BY <1>4, <2>1, <2>2
<1>10. HoldsNames(c) /\ OnGpu(c) = OnGpu(slots)
  BY <1>2, <1>8 DEF HoldsNames, OnGpu
<1>11. CASE OthersLeft(slots, i)
  <2>1. slots' = c
    BY <1>1, <1>11
  <2>2. InList(c)
    <3>1. PICK n, q : ListIs(slots, q, n) /\ On(q, n) = OnGpu(slots)
      BY <1>2 DEF InList
    <3>2. ListIs(c, q, n)
      BY <1>8, <3>1, SameLinksInList
    <3> QED BY <1>10, <3>1, <3>2 DEF InList
  <2>3. Counted(c) /\ Fits(c)
    <3>1. \A j \in OnGpu(slots) : c.entry[j].name = slots.entry[j].name
      BY <1>8 DEF OnGpu
    <3>2. GpuBytes(c) = GpuBytes(slots)
      BY <1>10, <3>1, BytesKept
    <3> QED BY <1>2, <1>8, <1>10, <3>2 DEF Counted, Fits
  <2>4. CountedIn(c, refs')
    <3> SUFFICES ASSUME NEW j \in OnGpu(slots) PROVE c.entry[j].refcount \in 1..refs'[c.entry[j].name]
      BY <1>10 DEF CountedIn
    <3>1. j \in Entry
      BY DEF OnGpu
    <3>2. CASE j = i
      BY <1>1, <1>3, <1>4, <1>5, <1>8, <1>11, <3>2 DEF OthersLeft
    <3>3. CASE j # i
      BY <1>8, <1>9, <3>1, <3>3
    <3> QED BY <3>2, <3>3
  <2> QED BY <1>4, <1>7, <1>10, <2>1, <2>2, <2>3, <2>4 DEF StreamInv, StreamOK, SoundCache
<1>12. CASE ~OthersLeft(slots, i)
  <2>1. slots' = u
    BY <1>1, <1>12
  <2>2. PICK left \in Int : left = slots.resident - Size[t]
    BY <1>2 DEF StreamCaches
  <2>3. d = [c EXCEPT !.entry[i].gpu = NoTensor, !.resident = left]
    BY <1>7, <1>8, <2>2 DEF StreamCaches
  <2> HIDE DEF d
  <2>4. d \in StreamCaches
    BY <1>1, <1>7, <2>3, ZenonT(60) DEF StreamCaches, CacheEntries, Names
  <2>5. /\ SameLinks(c, d) /\ SameNames(c, d) /\ d.resident = left
        /\ d.entry[i].gpu = NoTensor
        /\ \A j \in Entry \ {i} : d.entry[j].gpu = c.entry[j].gpu
    BY <1>1, <1>7, <2>3 DEF StreamCaches, CacheEntries, SameLinks, SameNames
  <2>6. SameLinks(slots, d) /\ \A j \in Entry \ {i} : d.entry[j].gpu = slots.entry[j].gpu
    BY <1>8, <2>5 DEF SameLinks
  <2>7. /\ u \in StreamCaches /\ SameExceptLinks(d, u) /\ InList(u)
        /\ OnGpu(u) = OnGpu(slots) \ {i}
    BY <1>1, <1>2, <2>4, <2>5, <2>6, RemovedIs
  <2> HIDE DEF u
  <2>8. /\ u.resident = left
        /\ \A j \in Entry : u.entry[j].name = slots.entry[j].name
        /\ \A j \in Entry \ {i} : u.entry[j].refcount = slots.entry[j].refcount
    BY <1>8, <2>5, <2>7 DEF SameExceptLinks, SameNames
  <2>9. HoldsNames(u)
    <3>1. HoldsNames(d)
      BY <1>1, <1>10, <2>5 DEF HoldsNames, SameNames
    <3> QED BY <2>7, <3>1, HoldsNamesExceptLinks
  <2>10. \A j \in OnGpu(u) : u.entry[j].name = slots.entry[j].name
    BY <2>8 DEF OnGpu
  <2>11. Fits(u)
    BY <1>1, <1>2, <2>7, <2>10, FitsRemoved
  <2>12. Counted(u)
    <3>1. /\ GpuBytes(u) = GpuBytes(slots) - Bytes(slots, i)
          /\ GpuBytes(u) \in Nat /\ GpuBytes(slots) \in Nat
      BY <1>1, <1>2, <2>7, <2>10, BytesRemoved
    <3>2. Bytes(slots, i) = Size[t] /\ slots.resident \in Int
      BY <1>1, <1>2 DEF Bytes, StreamCaches
    <3> QED BY <1>2, <2>2, <2>8, <3>1, <3>2 DEF Counted
  <2>13. CountedIn(u, refs')
    <3> SUFFICES ASSUME NEW j \in OnGpu(slots), j # i
                 PROVE  u.entry[j].refcount \in 1..refs'[u.entry[j].name]
      BY <2>7 DEF CountedIn
    <3>1. j \in Entry
      BY DEF OnGpu
    <3> QED BY <1>9, <2>8, <3>1
  <2> QED BY <1>4, <2>1, <2>7, <2>9, <2>11, <2>12, <2>13 DEF StreamInv, StreamOK, SoundCache
<1> QED BY <1>11, <1>12

LEMMA EvictGoneOK == ASSUME StreamInv, NEW t \in Tensors, EvictGone(t) PROVE StreamInv'
<1>1. /\ refs[t] > 0 /\ refs' = [refs EXCEPT ![t] = @ - 1] /\ slots' = slots
      /\ \A j \in OnGpu(slots) : slots.entry[j].name # t
  BY ResidentNamedIs DEF EvictGone
<1>2. RefsOK(refs') /\ \A x \in Tensors \ {t} : refs'[x] = refs[x]
  BY <1>1, RefGiven DEF StreamInv
<1>3. CountedIn(slots, refs')
  BY <1>1, <1>2, GpuSize DEF StreamInv, StreamOK, SoundCache, CountedIn
<1> QED BY <1>1, <1>2, <1>3 DEF StreamInv, StreamOK

LEMMA EmptyCacheOK == ASSUME NEW r PROVE StreamOK(EmptyCache, r)
<1> DEFINE c == EmptyCache
<1>1. /\ \A i \in Entry : c.entry[i] = FreeEntry
      /\ c.head = None /\ c.tail = None /\ c.resident = 0
  BY DEF EmptyCache
<1>2. c \in StreamCaches
  BY DEF EmptyCache, FreeEntry, StreamCaches, CacheEntries, Links, Names
<1> HIDE DEF c
<1>3. OnGpu(c) = {}
  BY <1>1 DEF OnGpu, FreeEntry
<1>4. InList(c)
  <2> DEFINE q == [k \in 1..0 |-> 1]
  <2>1. q \in [1..0 -> Entry] /\ 1..0 = {} /\ On(q, 0) = {}
    BY DEF On
  <2> HIDE DEF q
  <2>2. ListIs(c, q, 0)
    BY <1>1, <2>1 DEF ListIs
  <2> QED BY <1>3, <2>1, <2>2 DEF InList
<1>5. HoldsNames(c)
  BY <1>1 DEF HoldsNames, FreeEntry
<1>6. GpuBytes(c) = 0
  <2>1. UNION {{i} \X (1..Bytes(c, i)) : i \in OnGpu(c)} = {}
    BY <1>3
  <2> QED BY <2>1, FS_EmptySet DEF GpuBytes
<1>7. Counted(c) /\ Fits(c)
  BY <1>1, <1>6, StreamAssumption DEF Counted, Fits
<1> QED BY <1>2, <1>3, <1>4, <1>5, <1>7 DEF StreamOK, SoundCache, CountedIn, c

LEMMA StreamStep == StreamInv /\ [StreamNext]_streamVars => StreamInv'
<1> SUFFICES ASSUME StreamInv, [StreamNext]_streamVars PROVE StreamInv'
  OBVIOUS
<1>1. CASE UNCHANGED streamVars
  BY <1>1 DEF streamVars, StreamInv
<1>2. CASE RenewCache
  <2>1. slots' = EmptyCache /\ refs' = refs
    BY <1>2 DEF RenewCache
  <2> QED BY <2>1, EmptyCacheOK DEF StreamInv
<1>3. ASSUME NEW t \in Tensors, PrefetchNoSlot(t) PROVE StreamInv'
  BY <1>1, <1>3 DEF PrefetchNoSlot
<1> QED BY <1>1, <1>2, <1>3, PrefetchOK, PrefetchNoMemoryOK, UseResidentOK, PromoteOK,
           PromoteNoMemoryOK, EvictGpuOK, EvictGoneOK, ReadTensorOK DEF StreamNext

-----------------------------------------------------------------------------
(* The streaming cache: what follows.                                      *)

LEMMA ListFits ==
  ASSUME NEW c, NEW q, NEW n, ListIs(c, q, n)
  PROVE  n \in 0..MaxEntries
<1>1. n \in Nat /\ q \in Injection(1..n, Entry)
  BY DEF ListIs, Injection, IsInjective
<1>2. Cardinality(1..n) <= Cardinality(Entry)
  BY <1>1, EntriesFinite, FS_Injection
<1>3. Cardinality(1..n) = n
  BY <1>1, FS_Interval
<1> QED BY <1>1, <1>2, <1>3, EntriesFinite, NoneIsNoEntry

\* Where following next from the head arrives.
LEMMA LruFromList == StreamInv => LruIsResident
<1> SUFFICES ASSUME StreamInv PROVE LruIsResident
  OBVIOUS
<1> DEFINE e == slots.entry
           ahead[n \in 0..MaxEntries] ==
             IF n = 0 THEN slots.head
             ELSE IF ahead[n - 1] = None THEN None ELSE e[ahead[n - 1]].next
<1>1. PICK m, q : ListIs(slots, q, m) /\ On(q, m) = Resident
  BY DEF StreamInv, StreamOK, SoundCache, InList, Resident
<1>2. m \in 0..MaxEntries /\ MaxEntries \in Nat /\ None \notin Entry
  BY <1>1, ListFits, NoneIsNoEntry
<1>3. /\ q \in [1..m -> Entry]
      /\ \A j, k \in 1..m : q[j] = q[k] => j = k
      /\ slots.head = IF m = 0 THEN None ELSE q[1]
      /\ slots.tail = IF m = 0 THEN None ELSE q[m]
      /\ \A k \in 1..m : /\ e[q[k]].prev = IF k = 1 THEN None ELSE q[k - 1]
                         /\ e[q[k]].next = IF k = m THEN None ELSE q[k + 1]
  BY <1>1 DEF ListIs
<1> DEFINE path == [n \in 0..MaxEntries |-> IF n < m THEN q[n + 1] ELSE None]
<1> HIDE DEF e
<1>4. path = [n \in 0..MaxEntries |->
                IF n = 0 THEN slots.head
                ELSE IF path[n - 1] = None THEN None ELSE e[path[n - 1]].next]
  <2>1. ASSUME NEW n \in 0..MaxEntries
        PROVE  path[n] = IF n = 0 THEN slots.head
                         ELSE IF path[n - 1] = None THEN None ELSE e[path[n - 1]].next
    <3>1. CASE n = 0
      BY <1>2, <1>3, <3>1
    <3>2. CASE n # 0 /\ n - 1 < m
      <4>1. /\ n - 1 \in 0..MaxEntries /\ n \in 1..m /\ path[n - 1] = q[n] /\ q[n] # None
        BY <1>2, <1>3, <3>2
      <4>2. path[n] = IF n = m THEN None ELSE q[n + 1]
        BY <1>2, <4>1
      <4> QED BY <1>3, <3>2, <4>1, <4>2
    <3>3. CASE n # 0 /\ ~(n - 1 < m)
      <4>1. n - 1 \in 0..MaxEntries /\ path[n - 1] = None /\ path[n] = None
        BY <1>2, <3>3
      <4> QED BY <3>3, <4>1
    <3> QED BY <3>1, <3>2, <3>3
  <2>2. \A n \in 0..MaxEntries :
          path[n] = IF n = 0 THEN slots.head
                    ELSE IF path[n - 1] = None THEN None ELSE e[path[n - 1]].next
    BY <2>1
  <2>3. path = [n \in 0..MaxEntries |-> path[n]]
    OBVIOUS
  <2> HIDE DEF path
  <2> QED BY <2>2, <2>3
<1>5. ahead = [n \in 0..MaxEntries |->
                IF n = 0 THEN slots.head
                ELSE IF ahead[n - 1] = None THEN None ELSE e[ahead[n - 1]].next]
  <2> HIDE DEF path
  <2> QED BY <1>4
<1> HIDE DEF ahead
<1> DEFINE S == {n \in 0..MaxEntries : ahead[n] = path[n]}
<1>6. 0..MaxEntries \subseteq S
  <2>1. 0 \in S
    <3>1. ahead[0] = slots.head
      BY <1>2, <1>5
    <3>2. path[0] = slots.head
      BY <1>2, <1>3
    <3> HIDE DEF path
    <3> QED BY <1>2, <3>1, <3>2
  <2>2. ASSUME NEW n \in 0..(MaxEntries - 1), n \in S PROVE n + 1 \in S
    <3>1. PICK k \in 0..MaxEntries : k = n + 1 /\ k # 0 /\ k - 1 = n
      BY <1>2
    <3>2. ahead[n] = path[n]
      BY <2>2
    <3> HIDE DEF path, S
    <3>3. ahead[k] = IF ahead[k - 1] = None THEN None ELSE e[ahead[k - 1]].next
      BY <1>5, <3>1
    <3>4. path[k] = IF path[k - 1] = None THEN None ELSE e[path[k - 1]].next
      BY <1>4, <3>1
    <3>5. ahead[k] = path[k]
      BY <3>1, <3>2, <3>3, <3>4
    <3> QED BY <3>1, <3>5 DEF S
  <2> HIDE DEF S
  <2> QED BY <1>2, <2>1, <2>2, IntervalInduct
<1>7. \A n \in 0..MaxEntries : ahead[n] = IF n < m THEN q[n + 1] ELSE None
  BY <1>6
<1> HIDE DEF S, path
<1>8. {ahead[n] : n \in 0..MaxEntries} \ {None} = Resident
  <2>1. ASSUME NEW n \in 0..MaxEntries, ahead[n] # None PROVE ahead[n] \in On(q, m)
    <3>1. n + 1 \in 1..m /\ ahead[n] = q[n + 1]
      BY <1>2, <1>7, <2>1
    <3> QED BY <3>1 DEF On
  <2>2. ASSUME NEW k \in 1..m PROVE q[k] \in {ahead[n] : n \in 0..MaxEntries} /\ q[k] # None
    <3>1. k - 1 \in 0..MaxEntries /\ ahead[k - 1] = q[k] /\ q[k] # None
      BY <1>2, <1>3, <1>7
    <3> QED BY <3>1
  <2> QED BY <1>1, <2>1, <2>2 DEF On
<1>9. ahead[MaxEntries] = None
  BY <1>2, <1>7
<1>10. ASSUME NEW i \in Resident
       PROVE  /\ e[i].next # None => e[e[i].next].prev = i
              /\ e[i].next = None <=> slots.tail = i
              /\ e[i].prev = None <=> slots.head = i
  <2>1. PICK k \in 1..m : i = q[k]
    BY <1>1 DEF On
  <2>2. /\ m # 0 /\ 1 \in 1..m /\ m \in 1..m
        /\ slots.head = q[1] /\ slots.tail = q[m]
        /\ (k # m => k + 1 \in 1..m) /\ (k # 1 => k - 1 \in 1..m)
    BY <1>2, <1>3, <2>1
  <2>3. e[i].next # None => e[e[i].next].prev = i
    BY <1>2, <1>3, <2>1, <2>2
  <2>4. e[i].next = None <=> slots.tail = i
    BY <1>2, <1>3, <2>1, <2>2
  <2>5. e[i].prev = None <=> slots.head = i
    BY <1>2, <1>3, <2>1, <2>2
  <2> QED BY <2>3, <2>4, <2>5
<1>11. Resident = {} => slots.tail = None
  BY HeadAndTail DEF StreamInv, StreamOK, SoundCache, Resident
<1> QED BY <1>8, <1>9, <1>10, <1>11 DEF LruIsResident, ahead, e

LEMMA StreamFacts ==
  StreamInv => StreamTypeOK /\ BudgetKept /\ SlotHoldsItsTensor /\ CountedByHolders
<1> SUFFICES ASSUME StreamInv PROVE StreamTypeOK /\ BudgetKept /\ SlotHoldsItsTensor /\ CountedByHolders
  OBVIOUS
<1>1. /\ slots \in StreamCaches /\ InList(slots) /\ HoldsNames(slots) /\ Counted(slots)
      /\ Fits(slots) /\ CountedIn(slots, refs) /\ RefsOK(refs)
  BY DEF StreamInv, StreamOK, SoundCache
<1>2. slots.resident \in Nat
  <2>1. GpuBytes(slots) = Cardinality(BytesIn(slots, OnGpu(slots)))
    BY DEF GpuBytes, BytesIn
  <2>2. GpuBytes(slots) \in Nat /\ slots.resident \in Int
    BY <1>1, <2>1, BytesFinite DEF StreamCaches
  <2> QED BY <1>1, <2>2 DEF Counted
<1>3. slots \in [entry : [Entry -> CacheEntries], head : Links, tail : Links, resident : Nat]
  BY <1>1, <1>2 DEF StreamCaches
<1>4. \A t \in Tensors : refs[t] \in 0..MaxRefs[t]
  BY <1>1, StreamAssumption DEF RefsOK
<1>5. StreamTypeOK
  BY <1>3, <1>4 DEF StreamTypeOK, CacheEntries, Links, Names
<1>6. BudgetKept
  BY <1>1 DEF BudgetKept, WithinBudget, CounterNeverLow, Counted, Fits, Resident
<1>7. SlotHoldsItsTensor
  BY <1>1 DEF SlotHoldsItsTensor, HoldsNames
<1>8. CountedByHolders
  BY <1>1 DEF CountedByHolders, CountedIn, Resident
<1> QED BY <1>5, <1>6, <1>7, <1>8

LEMMA StreamInvInit == StreamInit => StreamInv
<1> SUFFICES ASSUME StreamInit PROVE StreamInv
  OBVIOUS
<1>1. slots = EmptyCache /\ RefsOK(refs)
  BY StreamAssumption DEF StreamInit, RefsOK
<1> QED BY <1>1, EmptyCacheOK DEF StreamInv

\* The variables of the streaming cache have their types: every link is a slot
\* or none, and resident_bytes never runs below zero.
THEOREM StreamTypes == StreamSpec => []StreamTypeOK
  BY StreamInvInit, StreamStep, StreamFacts, PTL DEF StreamSpec

\* _lru_remove and _lru_push_front keep the list a path through exactly the
\* resident entries, however tensors are used, evicted and overwritten.
THEOREM ListIsResident == StreamSpec => []LruIsResident
  BY StreamInvInit, StreamStep, LruFromList, PTL DEF StreamSpec

\* to_gpu keeps what is on the GPU within the budget, or to one tensor, and
\* resident_bytes never counts less than is there.
THEOREM BudgetIsKept == StreamSpec => []BudgetKept
  BY StreamInvInit, StreamStep, StreamFacts, PTL DEF StreamSpec

\* A slot's buffers contain the tensor it is named for, and no other slot does.
THEOREM SlotsHoldTheirTensors == StreamSpec => []SlotHoldsItsTensor
  BY StreamInvInit, StreamStep, StreamFacts, PTL DEF StreamSpec

\* A resident tensor's reference count is positive and covered by its callers.
THEOREM HoldersAreCounted == StreamSpec => []CountedByHolders
  BY StreamInvInit, StreamStep, StreamFacts, PTL DEF StreamSpec
=============================================================================
