--------------------------- MODULE VkrPool_proofs ---------------------------
(***************************************************************************)
(* TLAPS proofs about VkrPool: whatever the sizes, alignments, blocks and  *)
(* failures, live buffers never overlap and the free list stays sound.     *)
(***************************************************************************)
EXTENDS VkrPool, TLAPS

\* What the regions of the argument below have in common: they are not empty.
IsRegion(r) == r.off \in Nat /\ r.sz \in Nat /\ r.sz > 0

\* align_up never moves an offset down.
LEMMA AlignUpBound ==
  ASSUME NEW v \in Nat, NEW a \in Nat
  PROVE  AlignUp(v, a) \in Nat /\ AlignUp(v, a) >= v
<1>1. CASE a = 0
  BY <1>1 DEF AlignUp
<1>2. CASE a # 0
  <2> DEFINE m == v % a
  <2>1. m \in Nat /\ m < a
    BY <1>2
  <2>2. (a - m) % a \in Nat
    <3> HIDE DEF m
    <3>1. a - m \in Nat
      BY <2>1
    <3> QED BY <3>1, <1>2
  <2> HIDE DEF m
  <2>3. v + ((a - m) % a) \in Nat /\ v + ((a - m) % a) >= v
    BY <2>2
  <2> QED BY <1>2, <2>3 DEF AlignUp, m
<1> QED BY <1>1, <1>2

-----------------------------------------------------------------------------
(* One block.  Everything but region i:                                    *)

SoundBut(b, i) ==
  /\ b.cursor <= b.size
  /\ \A j \in 1..b.count : j # i => End(b.free[j]) <= b.cursor
  /\ \A j, k \in 1..b.count : j # i /\ k # i /\ j # k => Disjoint(b.free[j], b.free[k])

ClearBut(b, i, r) ==
  /\ End(r) <= b.cursor
  /\ \A j \in 1..b.count : j # i => Disjoint(r, b.free[j])

\* free_region_remove: a block that is sound but for region i is sound without
\* it, and so is what is clear of the others.
LEMMA RemoveSound ==
  ASSUME NEW b, BlockType(b), NEW i \in 1..b.count, SoundBut(b, i)
  PROVE  LET c == FreeRegionRemove(b, i) IN
         /\ BlockType(c) /\ BlockSound(c)
         /\ c.size = b.size /\ c.cursor = b.cursor
         /\ \A r : ClearBut(b, i, r) => Clear(c, r)
<1> DEFINE c == FreeRegionRemove(b, i)
<1>0. b.count \in Nat /\ b.count - 1 \in Nat
  BY DEF BlockType
<1>1. /\ c.size = b.size /\ c.cursor = b.cursor /\ c.cap = b.cap /\ c.count = b.count - 1
      /\ c.free = [k \in 1..(b.count - 1) |-> IF k = i THEN b.free[b.count] ELSE b.free[k]]
      /\ c \in [size : Nat, cursor : Nat, count : Nat, cap : Nat, free : {c.free}]
  BY <1>0 DEF FreeRegionRemove, BlockType
<1>2. b.count \in Nat /\ b.count > 0 /\ c.count \in Nat
  BY <1>1 DEF BlockType
<1> HIDE DEF c
<1>3. \A k \in 1..c.count : \E j \in 1..b.count :
        /\ j # i /\ c.free[k] = b.free[j]
        /\ j = (IF k = i THEN b.count ELSE k)
  <2> SUFFICES ASSUME NEW k \in 1..c.count
               PROVE  LET j == IF k = i THEN b.count ELSE k
                      IN  j \in 1..b.count /\ j # i /\ c.free[k] = b.free[j]
    BY Zenon
  <2>1. k \in 1..(b.count - 1) /\ k \in 1..b.count /\ b.count \in 1..b.count /\ k # b.count
    BY <1>0, <1>1, <1>2
  <2>2. c.free[k] = IF k = i THEN b.free[b.count] ELSE b.free[k]
    BY <2>1, <1>1
  <2> QED BY <2>1, <2>2
<1>4. BlockType(c)
  BY <1>1, <1>2, <1>3 DEF BlockType
<1>5. BlockSound(c)
  <2>1. \A k \in 1..c.count : End(c.free[k]) <= c.cursor
    BY <1>1, <1>3 DEF SoundBut
  <2>2. ASSUME NEW k \in 1..c.count, NEW l \in 1..c.count, k # l
        PROVE  Disjoint(c.free[k], c.free[l])
    <3>1. PICK j \in 1..b.count : j # i /\ c.free[k] = b.free[j]
                                  /\ j = (IF k = i THEN b.count ELSE k)
      BY <1>3
    <3>2. PICK m \in 1..b.count : m # i /\ c.free[l] = b.free[m]
                                  /\ m = (IF l = i THEN b.count ELSE l)
      BY <1>3
    <3>3. j # m
      BY <3>1, <3>2, <2>2, <1>1, <1>2
    <3> QED BY <3>1, <3>2, <3>3 DEF SoundBut
  <2> QED BY <2>1, <2>2, <1>1 DEF BlockSound, SoundBut
<1>6. ASSUME NEW r, ClearBut(b, i, r) PROVE Clear(c, r)
  BY <1>1, <1>3, <1>6 DEF Clear, ClearBut
<1> QED BY <1>1, <1>4, <1>5, <1>6 DEF c

\* A sound block is sound but for any region.
LEMMA SoundIsSoundBut ==
  ASSUME NEW b, NEW i
  PROVE  /\ BlockSound(b) => SoundBut(b, i)
         /\ \A r : Clear(b, r) => ClearBut(b, i, r)
BY DEF BlockSound, SoundBut, Clear, ClearBut

\* What changes when a region is resized.
LEMMA ResizeFields ==
  ASSUME NEW b, BlockType(b), NEW i \in 1..b.count,
         NEW off \in Nat, NEW sz \in Nat, sz > 0
  PROVE  LET c == Resize(b, i, off, sz) IN
         /\ BlockType(c)
         /\ c.size = b.size /\ c.cursor = b.cursor /\ c.count = b.count
         /\ c.free[i] = [off |-> off, sz |-> sz]
         /\ \A j \in 1..b.count : j # i => c.free[j] = b.free[j]
<1> DEFINE c == Resize(b, i, off, sz)
<1>1. [off |-> off, sz |-> sz] \in Region
  BY DEF Region
<1>2. /\ c.size = b.size /\ c.cursor = b.cursor /\ c.count = b.count /\ c.cap = b.cap
      /\ c.free = [b.free EXCEPT ![i] = [off |-> off, sz |-> sz]]
      /\ c \in [size : Nat, cursor : Nat, count : Nat, cap : Nat, free : {c.free}]
  BY DEF Resize, BlockType
<1> HIDE DEF c
<1>3. BlockType(c)
  BY <1>1, <1>2 DEF BlockType
<1> QED BY <1>2, <1>3 DEF c, BlockType

\* The type of a free region, and its extent.
LEMMA FreeRegionType ==
  ASSUME NEW b, BlockType(b), NEW i \in 1..b.count
  PROVE  IsRegion(b.free[i])
BY DEF BlockType, Region, IsRegion

\* Merging a region with the one that follows it keeps the block sound.
LEMMA MergeSound ==
  ASSUME NEW b, BlockType(b), BlockSound(b), NEW i \in 1..b.count,
         NEW c \in MergeFollowing(b, i)
  PROVE  /\ BlockType(c) /\ BlockSound(c) /\ c.size = b.size
         /\ \A r : IsRegion(r) /\ Clear(b, r) => Clear(c, r)
<1> DEFINE next == {j \in 1..b.count : j # i /\ b.free[j].off = End(b.free[i])}
<1>1. CASE Least(next) = {}
  BY <1>1 DEF MergeFollowing
<1>2. CASE Least(next) # {}
  <2>1. PICK j \in next :
          c = FreeRegionRemove(Resize(b, i, b.free[i].off, b.free[i].sz + b.free[j].sz), j)
    BY <1>2 DEF MergeFollowing, Least
  <2> DEFINE d == Resize(b, i, b.free[i].off, b.free[i].sz + b.free[j].sz)
  <2>2. IsRegion(b.free[i]) /\ IsRegion(b.free[j])
    BY <2>1, FreeRegionType
  <2>3. /\ BlockType(d)
        /\ d.size = b.size /\ d.cursor = b.cursor /\ d.count = b.count
        /\ d.free[i] = [off |-> b.free[i].off, sz |-> b.free[i].sz + b.free[j].sz]
        /\ \A k \in 1..b.count : k # i => d.free[k] = b.free[k]
    BY <2>2, ResizeFields DEF IsRegion
  <2> HIDE DEF d
  <2>4. j \in 1..d.count /\ j # i /\ b.free[j].off = End(b.free[i])
    BY <2>1, <2>3
  <2>5. End(d.free[i]) = End(b.free[j])
    BY <2>2, <2>3, <2>4 DEF End, IsRegion
  <2>6. SoundBut(d, j)
    <3>1. \A k \in 1..d.count : k # j => End(d.free[k]) <= d.cursor
      BY <2>3, <2>4, <2>5 DEF BlockSound
    <3>2. \A k \in 1..b.count : k # i /\ k # j => Disjoint(d.free[i], b.free[k])
      <4> SUFFICES ASSUME NEW k \in 1..b.count, k # i, k # j
                   PROVE  Disjoint(d.free[i], b.free[k])
        OBVIOUS
      <4>1. IsRegion(b.free[k])
        BY FreeRegionType
      <4>2. Disjoint(b.free[i], b.free[k]) /\ Disjoint(b.free[j], b.free[k])
        BY <2>4, <2>3 DEF BlockSound
      <4> QED BY <4>1, <4>2, <2>2, <2>3, <2>4, <2>5 DEF Disjoint, End, IsRegion
    <3>3. ASSUME NEW k \in 1..d.count, NEW l \in 1..d.count, k # j, l # j, k # l
          PROVE  Disjoint(d.free[k], d.free[l])
      <4>1. CASE k = i
        BY <4>1, <3>2, <3>3, <2>3
      <4>2. CASE l = i
        BY <4>2, <3>2, <3>3, <2>3 DEF Disjoint
      <4>3. CASE k # i /\ l # i
        BY <4>3, <3>3, <2>3 DEF BlockSound
      <4> QED BY <4>1, <4>2, <4>3
    <3> QED BY <3>1, <3>3, <2>3 DEF SoundBut, BlockSound
  <2>7. ASSUME NEW r, IsRegion(r), Clear(b, r) PROVE ClearBut(d, j, r)
    <3>1. Disjoint(r, b.free[i]) /\ Disjoint(r, b.free[j])
      BY <2>7, <2>4, <2>3 DEF Clear
    <3>2. Disjoint(r, d.free[i])
      BY <3>1, <2>7, <2>2, <2>3, <2>4, <2>5 DEF Disjoint, End, IsRegion
    <3> QED BY <3>2, <2>7, <2>3 DEF Clear, ClearBut
  <2>8. c = FreeRegionRemove(d, j)
    BY <2>1 DEF d
  <2> QED BY <2>3, <2>4, <2>6, <2>7, <2>8, RemoveSound
<1> QED BY <1>1, <1>2

\* What giving a region back must preserve: b is the block before, c after.
Returned(b, c, off, sz) ==
  /\ BlockType(c) /\ BlockSound(c) /\ c.size = b.size
  /\ \A r : /\ IsRegion(r) /\ Clear(b, r)
            /\ Disjoint(r, [off |-> off, sz |-> sz])
            => Clear(c, r)

\* A region that grows over [off, off + sz), which was clear, keeps the block
\* sound: what it grows to is new.
LEMMA GrowSound ==
  ASSUME NEW b, BlockType(b), BlockSound(b), NEW i \in 1..b.count,
         NEW off \in Nat, NEW sz \in Nat, sz > 0,
         Clear(b, [off |-> off, sz |-> sz]),
         NEW o, \/ off + sz = b.free[i].off /\ o = off
                \/ End(b.free[i]) = off /\ o = b.free[i].off
  PROVE  /\ Returned(b, Resize(b, i, o, b.free[i].sz + sz), off, sz)
         /\ Resize(b, i, o, b.free[i].sz + sz).count = b.count
<1> DEFINE d == Resize(b, i, o, b.free[i].sz + sz)
           new == [off |-> off, sz |-> sz]
<1>1. IsRegion(b.free[i])
  BY FreeRegionType
<1>2. o \in Nat /\ b.free[i].sz + sz \in Nat /\ b.free[i].sz + sz > 0
  BY <1>1 DEF IsRegion
<1>3. /\ BlockType(d)
      /\ d.size = b.size /\ d.cursor = b.cursor /\ d.count = b.count
      /\ d.free[i] = [off |-> o, sz |-> b.free[i].sz + sz]
      /\ \A k \in 1..b.count : k # i => d.free[k] = b.free[k]
  BY <1>2, ResizeFields
<1> HIDE DEF d
<1>4. b.cursor \in Nat /\ b.count \in Nat
  BY DEF BlockType
<1>5. End(d.free[i]) <= d.cursor
  BY <1>1, <1>3, <1>4 DEF Clear, BlockSound, End, IsRegion
<1>6. \A r : IsRegion(r) /\ Disjoint(r, b.free[i]) /\ Disjoint(r, new) => Disjoint(r, d.free[i])
  BY <1>1, <1>3 DEF Disjoint, End, IsRegion
<1>7. \A k \in 1..b.count : k # i => Disjoint(b.free[k], d.free[i])
  <2> SUFFICES ASSUME NEW k \in 1..b.count, k # i
               PROVE  Disjoint(b.free[k], d.free[i])
    OBVIOUS
  <2>1. IsRegion(b.free[k])
    BY FreeRegionType
  <2>2. Disjoint(b.free[k], b.free[i])
    BY DEF BlockSound
  <2>3. Disjoint(b.free[k], new)
    BY DEF Clear, Disjoint
  <2> QED BY <2>1, <2>2, <2>3, <1>6
<1>8. BlockSound(d)
  <2>1. ASSUME NEW k \in 1..d.count, NEW l \in 1..d.count, k # l
        PROVE  Disjoint(d.free[k], d.free[l])
    <3>1. CASE k = i
      BY <3>1, <2>1, <1>3, <1>7 DEF Disjoint
    <3>2. CASE l = i
      BY <3>2, <2>1, <1>3, <1>7
    <3>3. CASE k # i /\ l # i
      BY <3>3, <2>1, <1>3 DEF BlockSound
    <3> QED BY <3>1, <3>2, <3>3
  <2> QED BY <2>1, <1>3, <1>5 DEF BlockSound
<1>9. ASSUME NEW r, IsRegion(r), Clear(b, r), Disjoint(r, new)
      PROVE  Clear(d, r)
  <2>1. Disjoint(r, d.free[i])
    BY <1>6, <1>9 DEF Clear
  <2> QED BY <2>1, <1>9, <1>3 DEF Clear
<1> QED BY <1>3, <1>8, <1>9 DEF Returned, d

\* What a new slot changes.
LEMMA AppendFields ==
  ASSUME NEW b, BlockType(b), NEW off \in Nat, NEW sz \in Nat, sz > 0,
         NEW grows, NEW c \in AppendRegion(b, off, sz, grows)
  PROVE  /\ BlockType(c)
         /\ c.size = b.size /\ c.cursor = b.cursor /\ c.count = b.count + 1
         /\ \A k \in 1..c.count :
              \/ k \in 1..b.count /\ c.free[k] = b.free[k]
              \/ /\ k = c.count /\ k \notin 1..b.count
                 /\ c.free[k] = [off |-> off, sz |-> sz]
         /\ \A k \in 1..b.count : k \in 1..c.count /\ c.free[k] = b.free[k]
<1> DEFINE new == [off |-> off, sz |-> sz]
<1>1. /\ c.size = b.size /\ c.cursor = b.cursor /\ c.count = b.count + 1
      /\ c.cap = IF b.count # b.cap THEN b.cap ELSE IF b.cap = 0 THEN FirstCap ELSE 2 * b.cap
      /\ c.free = [k \in 1..(b.count + 1) |-> IF k <= b.count THEN b.free[k] ELSE new]
      /\ c = [size |-> c.size, cursor |-> c.cursor, count |-> c.count, cap |-> c.cap, free |-> c.free]
  BY DEF AppendRegion, BlockType
<1>2. b.count \in Nat /\ b.cap \in Nat /\ b.count <= b.cap /\ FirstCap \in Nat /\ FirstCap > 0
  BY PoolAssumption DEF BlockType
<1>3. c.cap \in Nat /\ c.count \in Nat /\ c.count <= c.cap
  BY <1>1, <1>2
<1>4. new \in Region /\ new.off = off /\ new.sz = sz
  BY DEF Region
<1>5. c.free \in [1..c.count -> Region]
  BY <1>1, <1>2, <1>4 DEF BlockType
<1>6. BlockType(c)
  BY <1>1, <1>3, <1>5 DEF BlockType
<1>7. \A k \in 1..c.count : \/ k \in 1..b.count /\ c.free[k] = b.free[k]
                            \/ k = c.count /\ k \notin 1..b.count /\ c.free[k] = new
  BY <1>1, <1>2
<1>8. \A k \in 1..b.count : k \in 1..c.count /\ c.free[k] = b.free[k]
  BY <1>1, <1>2
<1> QED BY <1>1, <1>6, <1>7, <1>8

\* A new slot keeps the block sound.
LEMMA AppendSound ==
  ASSUME NEW b, BlockType(b), BlockSound(b),
         NEW off \in Nat, NEW sz \in Nat, sz > 0,
         Clear(b, [off |-> off, sz |-> sz]),
         NEW grows, NEW c \in AppendRegion(b, off, sz, grows)
  PROVE  Returned(b, c, off, sz)
<1> DEFINE new == [off |-> off, sz |-> sz]
<1>1. /\ BlockType(c)
      /\ c.size = b.size /\ c.cursor = b.cursor
      /\ \A k \in 1..c.count :
           \/ k \in 1..b.count /\ c.free[k] = b.free[k]
           \/ k = c.count /\ k \notin 1..b.count /\ c.free[k] = new
  BY AppendFields
<1>2. BlockSound(c)
  <2>1. \A k \in 1..c.count : End(c.free[k]) <= c.cursor
    BY <1>1 DEF BlockSound, Clear
  <2>2. ASSUME NEW k \in 1..c.count, NEW l \in 1..c.count, k # l
        PROVE  Disjoint(c.free[k], c.free[l])
    <3>1. CASE k \in 1..b.count /\ l \in 1..b.count
      BY <3>1, <2>2, <1>1 DEF BlockSound
    <3>2. CASE k \notin 1..b.count
      BY <3>2, <2>2, <1>1 DEF Clear, Disjoint
    <3>3. CASE l \notin 1..b.count
      BY <3>3, <2>2, <1>1 DEF Clear, Disjoint
    <3> QED BY <3>1, <3>2, <3>3
  <2> QED BY <2>1, <2>2, <1>1 DEF BlockSound
<1>3. ASSUME NEW r, IsRegion(r), Clear(b, r), Disjoint(r, new)
      PROVE  Clear(c, r)
  BY <1>1, <1>3 DEF Clear
<1> QED BY <1>1, <1>2, <1>3 DEF Returned

\* free_region_add gives a clear region back without touching anything else.
LEMMA AddSound ==
  ASSUME NEW b, BlockType(b), BlockSound(b),
         NEW off \in Nat, NEW sz \in Nat, sz > 0,
         Clear(b, [off |-> off, sz |-> sz]),
         NEW grows, NEW c \in FreeRegionAdd(b, off, sz, grows)
  PROVE  Returned(b, c, off, sz)
<1> DEFINE new == [off |-> off, sz |-> sz]
           abutting == {i \in 1..b.count : \/ End(b.free[i]) = off
                                           \/ off + sz = b.free[i].off}
<1>1. CASE off + sz = b.cursor
  <2>1. c = [b EXCEPT !.cursor = off]
    BY <1>1 DEF FreeRegionAdd
  <2>2. /\ c.size = b.size /\ c.cursor = off /\ c.count = b.count /\ c.free = b.free
        /\ BlockType(c)
    BY <2>1 DEF BlockType
  <2>3. b.cursor \in Nat /\ b.size \in Nat /\ b.count \in Nat
    BY DEF BlockType
  <2>4. \A r : IsRegion(r) /\ End(r) <= b.cursor /\ Disjoint(r, new) => End(r) <= off
    BY <1>1 DEF Disjoint, End, IsRegion
  <2>5. \A i \in 1..b.count : End(b.free[i]) <= off
    BY <2>4, FreeRegionType DEF BlockSound, Clear, Disjoint
  <2>6. BlockSound(c)
    BY <2>2, <2>3, <2>5, <1>1 DEF BlockSound
  <2> QED BY <2>2, <2>4, <2>6 DEF Returned, Clear
<1>2. CASE off + sz # b.cursor /\ Least(abutting) # {}
  <2>1. PICK i \in abutting : c \in Extend(b, i, off, sz)
    BY <1>2 DEF FreeRegionAdd, Least
  <2>2. CASE End(b.free[i]) = off
    <3> DEFINE d == Resize(b, i, b.free[i].off, b.free[i].sz + sz)
    <3>1. c \in MergeFollowing(d, i)
      BY <2>1, <2>2 DEF Extend
    <3>2. Returned(b, d, off, sz) /\ d.count = b.count
      BY <2>1, <2>2, GrowSound
    <3> HIDE DEF d
    <3>3. i \in 1..d.count
      BY <2>1, <3>2
    <3> QED BY <3>1, <3>2, <3>3, MergeSound DEF Returned
  <2>3. CASE End(b.free[i]) # off
    <3>1. c = Resize(b, i, off, b.free[i].sz + sz) /\ off + sz = b.free[i].off
      BY <2>1, <2>3 DEF Extend
    <3> QED BY <2>1, <3>1, GrowSound
  <2> QED BY <2>2, <2>3
<1>3. CASE off + sz # b.cursor /\ Least(abutting) = {}
  <2>1. c \in AppendRegion(b, off, sz, grows)
    BY <1>3 DEF FreeRegionAdd
  <2> QED BY <2>1, AppendSound
<1> QED BY <1>1, <1>2, <1>3

\* The state of a block whose region i is being cut at e: the rest above e is
\* back on the list, and only region i itself, still whole, is in the way.
Cut(b, c, i, e) ==
  LET front == [off |-> b.free[i].off, sz |-> e - b.free[i].off] IN
  /\ BlockType(c) /\ c.size = b.size
  /\ i \in 1..c.count /\ c.free[i] = b.free[i]
  /\ e <= c.cursor
  /\ SoundBut(c, i)
  /\ \A j \in 1..c.count : j # i => Disjoint(front, c.free[j])
  /\ \A r : IsRegion(r) /\ Clear(b, r) => ClearBut(c, i, r)

\* free_region_add, called on the rest of region i while region i is whole.
LEMMA CutSound ==
  ASSUME NEW b, BlockType(b), BlockSound(b), NEW i \in 1..b.count,
         NEW e \in Nat, b.free[i].off < e, e <= End(b.free[i]),
         NEW grows,
         NEW c \in IF End(b.free[i]) - e > 0
                   THEN FreeRegionAdd(b, e, End(b.free[i]) - e, grows) ELSE {b}
  PROVE  Cut(b, c, i, e)
<1> DEFINE fi == b.free[i]
           hi == End(b.free[i]) - e
           front == [off |-> b.free[i].off, sz |-> e - b.free[i].off]
           rest == [off |-> e, sz |-> hi]
           abutting == {j \in 1..b.count : \/ End(b.free[j]) = e
                                           \/ e + hi = b.free[j].off}
<1>1. IsRegion(fi) /\ \A j \in 1..b.count : IsRegion(b.free[j])
  BY FreeRegionType
<1>2. End(fi) \in Nat /\ hi \in Nat /\ e + hi = End(fi)
  BY <1>1 DEF End, IsRegion
<1>3. b.count \in Nat /\ b.cursor \in Nat /\ e <= b.cursor
  BY <1>2 DEF BlockType, BlockSound
<1>4. \A r : IsRegion(r) /\ Disjoint(r, fi) => Disjoint(r, rest) /\ Disjoint(front, r)
  <2> SUFFICES ASSUME NEW r, IsRegion(r), Disjoint(r, fi)
               PROVE  Disjoint(r, rest) /\ Disjoint(front, r)
    OBVIOUS
  <2>1. rest.off = e /\ End(rest) = End(fi) /\ front.off = fi.off /\ End(front) = e
    BY <1>1, <1>2 DEF End, IsRegion
  <2>2. End(r) <= fi.off \/ End(fi) <= r.off
    BY DEF Disjoint
  <2>3. End(r) \in Nat /\ r.off \in Nat /\ fi.off \in Nat
    BY <1>1 DEF End, IsRegion
  <2> HIDE DEF fi, rest, front
  <2>4. fi.off < e /\ e <= End(fi)
    BY DEF fi
  <2> QED BY <1>2, <2>1, <2>2, <2>3, <2>4 DEF Disjoint
<1>5. \A j \in 1..b.count : j # i => Disjoint(b.free[j], fi)
  BY DEF BlockSound
<1>6. CASE hi = 0
  <2>1. c = b
    BY <1>6
  <2> QED BY <2>1, <1>1, <1>3, <1>4, <1>5, SoundIsSoundBut DEF Cut
<1>7. CASE hi > 0
  <2>1. c \in FreeRegionAdd(b, e, hi, grows)
    BY <1>7
  <2>2. CASE e + hi = b.cursor
    <3>1. c = [b EXCEPT !.cursor = e]
      BY <2>1, <2>2 DEF FreeRegionAdd
    <3>2. /\ c.size = b.size /\ c.cursor = e /\ c.count = b.count /\ c.free = b.free
          /\ BlockType(c)
      BY <3>1 DEF BlockType
    <3>3. \A r : IsRegion(r) /\ End(r) <= b.cursor /\ Disjoint(r, fi) => End(r) <= e
      BY <2>2, <1>1, <1>2 DEF Disjoint, End, IsRegion
    <3>4. SoundBut(c, i)
      BY <3>2, <3>3, <1>1, <1>3, <1>5 DEF SoundBut, BlockSound, BlockType
    <3> QED BY <3>2, <3>3, <3>4, <1>1, <1>3, <1>4, <1>5 DEF Cut, Clear, ClearBut
  <2>3. CASE e + hi # b.cursor /\ Least(abutting) # {}
    <3>1. PICK k \in abutting : c \in Extend(b, k, e, hi)
      BY <2>1, <2>3 DEF FreeRegionAdd, Least
    <3>2. k \in 1..b.count /\ k # i /\ End(b.free[k]) # e /\ b.free[k].off = End(fi)
      BY <3>1, <1>1, <1>2, <1>5, <1>7 DEF Disjoint, End, IsRegion
    <3>3. c = Resize(b, k, e, b.free[k].sz + hi)
      BY <3>1, <3>2 DEF Extend
    <3>4. b.free[k].sz + hi \in Nat /\ b.free[k].sz + hi > 0
      BY <1>1, <1>2, <3>2 DEF IsRegion
    <3>5. /\ BlockType(c)
          /\ c.size = b.size /\ c.cursor = b.cursor /\ c.count = b.count
          /\ c.free[k] = [off |-> e, sz |-> b.free[k].sz + hi]
          /\ \A j \in 1..b.count : j # k => c.free[j] = b.free[j]
      BY <3>2, <3>3, <3>4, ResizeFields
    <3>6. End(c.free[k]) = End(b.free[k])
      BY <3>2, <3>5, <1>1, <1>2 DEF End, IsRegion
    <3>7. \A r : IsRegion(r) /\ Disjoint(r, fi) /\ Disjoint(r, b.free[k])
                 => Disjoint(r, c.free[k])
      BY <3>2, <3>5, <3>6, <1>1, <1>2 DEF Disjoint, End, IsRegion
    <3>8. Disjoint(front, c.free[k])
      BY <3>5, <1>1, <1>2 DEF Disjoint, End, IsRegion
    <3>9. \A j \in 1..c.count : j # i => Disjoint(front, c.free[j])
      BY <3>5, <3>8, <1>1, <1>4, <1>5
    <3>10. SoundBut(c, i)
      <4>1. \A j \in 1..c.count : End(c.free[j]) <= c.cursor
        BY <3>5, <3>6 DEF BlockSound
      <4>2. ASSUME NEW j \in 1..c.count, NEW l \in 1..c.count, j # i, l # i, j # l
            PROVE  Disjoint(c.free[j], c.free[l])
        <5>1. CASE j = k
          <6>1. Disjoint(b.free[l], fi) /\ Disjoint(b.free[l], b.free[k])
            BY <5>1, <4>2, <3>2, <3>5 DEF BlockSound
          <6> QED BY <6>1, <5>1, <4>2, <3>5, <3>7, <1>1 DEF Disjoint
        <5>2. CASE l = k
          <6>1. Disjoint(b.free[j], fi) /\ Disjoint(b.free[j], b.free[k])
            BY <5>2, <4>2, <3>2, <3>5 DEF BlockSound
          <6> QED BY <6>1, <5>2, <4>2, <3>5, <3>7, <1>1
        <5>3. CASE j # k /\ l # k
          BY <5>3, <4>2, <3>5 DEF BlockSound
        <5> QED BY <5>1, <5>2, <5>3
      <4> QED BY <4>1, <4>2, <3>5 DEF SoundBut, BlockSound
    <3>11. ASSUME NEW r, IsRegion(r), Clear(b, r) PROVE ClearBut(c, i, r)
      BY <3>11, <3>2, <3>5, <3>7 DEF Clear, ClearBut
    <3> QED BY <3>2, <3>5, <3>9, <3>10, <3>11, <1>3 DEF Cut
  <2>4. CASE e + hi # b.cursor /\ Least(abutting) = {}
    <3>1. c \in AppendRegion(b, e, hi, grows)
      BY <2>1, <2>4 DEF FreeRegionAdd
    <3>2. /\ BlockType(c)
          /\ c.size = b.size /\ c.cursor = b.cursor /\ c.count = b.count + 1
          /\ \A k \in 1..c.count :
                \/ k \in 1..b.count /\ c.free[k] = b.free[k]
                \/ k = c.count /\ k \notin 1..b.count /\ c.free[k] = rest
          /\ \A k \in 1..b.count : k \in 1..c.count /\ c.free[k] = b.free[k]
      BY <3>1, <1>2, <1>7, AppendFields
    <3>3. End(rest) <= b.cursor /\ Disjoint(front, rest)
      BY <1>1, <1>2 DEF BlockSound, Disjoint, End, IsRegion
    <3>4. \A j \in 1..c.count : j # i => Disjoint(front, c.free[j])
      BY <3>2, <3>3, <1>1, <1>4, <1>5
    <3>5. SoundBut(c, i)
      <4>1. \A j \in 1..c.count : End(c.free[j]) <= c.cursor
        BY <3>2, <3>3 DEF BlockSound
      <4>2. ASSUME NEW j \in 1..c.count, NEW l \in 1..c.count, j # i, l # i, j # l
            PROVE  Disjoint(c.free[j], c.free[l])
        <5>1. CASE j \in 1..b.count /\ l \in 1..b.count
          BY <5>1, <4>2, <3>2 DEF BlockSound
        <5>2. CASE j \notin 1..b.count
          BY <5>2, <4>2, <3>2, <1>1, <1>4, <1>5 DEF Disjoint
        <5>3. CASE l \notin 1..b.count
          BY <5>3, <4>2, <3>2, <1>1, <1>4, <1>5
        <5> QED BY <5>1, <5>2, <5>3
      <4> QED BY <4>1, <4>2, <3>2 DEF SoundBut, BlockSound
    <3>6. ASSUME NEW r, IsRegion(r), Clear(b, r) PROVE ClearBut(c, i, r)
      BY <3>6, <3>2, <1>4 DEF Clear, ClearBut
    <3> QED BY <3>2, <3>4, <3>5, <3>6, <1>3 DEF Cut
  <2> QED BY <2>2, <2>3, <2>4
<1> QED BY <1>2, <1>6, <1>7

\* What an allocation of sz bytes from block b must give: r.blk is the block
\* afterwards, r.off where the bytes are.
Allocated(b, r, sz) ==
  LET new == [off |-> r.off, sz |-> sz] IN
  /\ BlockType(r.blk) /\ BlockSound(r.blk)
  /\ r.off \in Nat
  /\ Clear(r.blk, new)
  /\ \A q : IsRegion(q) /\ Clear(b, q) => Clear(r.blk, q) /\ Disjoint(q, new)

\* Carving from a free region that fits.
LEMMA CarveSound ==
  ASSUME NEW b, BlockType(b), BlockSound(b), NEW i \in 1..b.count,
         NEW s \in Nat, NEW sz \in Nat, sz > 0,
         b.free[i].off <= s, s + sz <= End(b.free[i]),
         NEW grows, NEW r \in Carve(b, i, s, sz, grows)
  PROVE  Allocated(b, r, sz)
<1> DEFINE fi == b.free[i]
           lo == s - fi.off
           e == s + sz
           front == [off |-> b.free[i].off, sz |-> e - b.free[i].off]
           new == [off |-> s, sz |-> sz]
           low == [off |-> fi.off, sz |-> lo]
<1>1. IsRegion(fi)
  BY FreeRegionType
<1>2. /\ e \in Nat /\ fi.off < e /\ e <= End(fi) /\ lo \in Nat
      /\ fi.sz - lo - sz = End(fi) - e
      /\ End(fi) \in Nat /\ fi.off \in Nat /\ fi.sz \in Nat
  BY <1>1 DEF IsRegion, End
<1>3. PICK c \in IF End(fi) - e > 0 THEN FreeRegionAdd(b, e, End(fi) - e, grows) ELSE {b} :
        r = [blk |-> IF lo > 0 THEN Resize(c, i, c.free[i].off, lo) ELSE FreeRegionRemove(c, i),
             off |-> s]
  BY <1>2 DEF Carve
<1>4. Cut(b, c, i, e)
  BY <1>2, <1>3, CutSound
<1>5. /\ BlockType(c) /\ i \in 1..c.count /\ c.free[i] = fi
      /\ e <= c.cursor /\ SoundBut(c, i)
      /\ \A j \in 1..c.count : j # i => Disjoint(front, c.free[j])
      /\ \A q : IsRegion(q) /\ Clear(b, q) => ClearBut(c, i, q)
  BY <1>4 DEF Cut
<1>6. /\ front.off = fi.off /\ End(front) = e /\ new.off = s /\ End(new) = e
      /\ low.off = fi.off /\ End(low) = s
  BY <1>2 DEF End
<1>7. \A j \in 1..c.count : IsRegion(c.free[j])
  BY <1>5, FreeRegionType
<1>8. ASSUME NEW q, IsRegion(q), Disjoint(front, q)
      PROVE  Disjoint(new, q) /\ (lo > 0 => Disjoint(low, q))
  <2>1. q.off \in Nat /\ End(q) \in Nat
    BY <1>8 DEF IsRegion, End
  <2>2. e <= q.off \/ End(q) <= fi.off
    BY <1>6, <1>8 DEF Disjoint
  <2> HIDE DEF new, low, front, e, fi
  <2>3. fi.off <= s /\ s <= e
    BY <1>2 DEF e, fi
  <2> QED BY <2>1, <2>2, <2>3, <1>2, <1>6 DEF Disjoint
<1>9. ASSUME NEW q, IsRegion(q), Disjoint(q, fi)
      PROVE  Disjoint(q, new) /\ (lo > 0 => Disjoint(q, low))
  <2>1. q.off \in Nat /\ End(q) \in Nat
    BY <1>9 DEF IsRegion, End
  <2>2. End(fi) <= q.off \/ End(q) <= fi.off
    BY <1>9 DEF Disjoint
  <2> HIDE DEF new, low, e, fi
  <2>3. fi.off <= s /\ s <= e
    BY <1>2 DEF e, fi
  <2> QED BY <2>1, <2>2, <2>3, <1>2, <1>6 DEF Disjoint
<1>10. ClearBut(c, i, new)
  BY <1>5, <1>6, <1>7, <1>8 DEF ClearBut
<1>11. ASSUME NEW q, IsRegion(q), Clear(b, q) PROVE Disjoint(q, fi)
  BY <1>11 DEF Clear
<1>12. CASE lo > 0
  <2> DEFINE d == Resize(c, i, c.free[i].off, lo)
  <2>1. /\ BlockType(d)
        /\ d.size = c.size /\ d.cursor = c.cursor /\ d.count = c.count
        /\ d.free[i] = low
        /\ \A j \in 1..c.count : j # i => d.free[j] = c.free[j]
    BY <1>2, <1>5, <1>12, ResizeFields, SMTT(40)
  <2>2. r.blk = d /\ r.off = s
    BY <1>3, <1>12
  <2> HIDE DEF d, new, low, front, e, fi, lo
  <2>3. c.cursor \in Nat
    BY <1>5 DEF BlockType
  <2>4. End(low) <= c.cursor /\ Disjoint(low, new) /\ Disjoint(new, low)
    BY <2>3, <1>2, <1>5, <1>6 DEF Disjoint, e
  <2>5. BlockSound(d)
    <3>1. \A j \in 1..d.count : End(d.free[j]) <= d.cursor
      BY <2>1, <2>4, <1>5 DEF SoundBut
    <3>2. ASSUME NEW j \in 1..d.count, NEW l \in 1..d.count, j # l
          PROVE  Disjoint(d.free[j], d.free[l])
      <4>1. CASE j = i
        BY <4>1, <3>2, <2>1, <1>5, <1>7, <1>8, <1>12
      <4>2. CASE l = i
        BY <4>2, <3>2, <2>1, <1>5, <1>7, <1>8, <1>12 DEF Disjoint
      <4>3. CASE j # i /\ l # i
        BY <4>3, <3>2, <2>1, <1>5 DEF SoundBut
      <4> QED BY <4>1, <4>2, <4>3
    <3> QED BY <3>1, <3>2, <2>1, <1>5 DEF BlockSound, SoundBut
  <2>6. Clear(d, new)
    BY <2>1, <2>4, <1>10 DEF Clear, ClearBut
  <2>7. ASSUME NEW q, IsRegion(q), Clear(b, q) PROVE Clear(d, q) /\ Disjoint(q, new)
    BY <2>7, <2>1, <1>5, <1>9, <1>11, <1>12 DEF Clear, ClearBut
  <2> QED BY <2>1, <2>2, <2>5, <2>6, <2>7 DEF Allocated, new
<1>13. CASE ~(lo > 0)
  <2>1. r.blk = FreeRegionRemove(c, i) /\ r.off = s
    BY <1>3, <1>13
  <2>2. /\ BlockType(r.blk) /\ BlockSound(r.blk)
        /\ \A q : ClearBut(c, i, q) => Clear(r.blk, q)
    BY <2>1, <1>5, RemoveSound
  <2>3. Clear(r.blk, new)
    BY <2>2, <1>10
  <2>4. ASSUME NEW q, IsRegion(q), Clear(b, q) PROVE Clear(r.blk, q) /\ Disjoint(q, new)
    BY <2>4, <2>2, <1>5, <1>9, <1>11
  <2> QED BY <2>1, <2>2, <2>3, <2>4 DEF Allocated
<1> QED BY <1>12, <1>13

\* block_alloc_region: from a free region or from the tail.
LEMMA AllocSound ==
  ASSUME NEW b, BlockType(b), BlockSound(b),
         NEW align \in Nat, NEW sz \in Nat, sz > 0,
         NEW grows, NEW r \in BlockAlloc(b, align, sz, grows)
  PROVE  Allocated(b, r, sz)
<1> DEFINE fitting == {i \in 1..b.count : Fits(b, i, align, sz)}
           s == AlignUp(b.cursor, align)
           new == [off |-> s, sz |-> sz]
<1>1. b.cursor \in Nat /\ b.size \in Nat /\ s \in Nat /\ s >= b.cursor
  BY AlignUpBound DEF BlockType
<1>2. CASE Least(fitting) # {}
  <2>1. PICK i \in fitting : r \in Carve(b, i, AlignUp(b.free[i].off, align), sz, grows)
    BY <1>2 DEF BlockAlloc, Least
  <2>2. i \in 1..b.count /\ AlignUp(b.free[i].off, align) + sz <= End(b.free[i])
    BY <2>1 DEF Fits
  <2>3. b.free[i].off \in Nat
    BY <2>2, FreeRegionType DEF IsRegion
  <2>4. AlignUp(b.free[i].off, align) \in Nat /\ b.free[i].off <= AlignUp(b.free[i].off, align)
    BY <2>3, AlignUpBound
  <2> QED BY <2>1, <2>2, <2>4, CarveSound
<1>3. CASE Least(fitting) = {}
  <2>1. s + sz <= b.size /\ r = [blk |-> [b EXCEPT !.cursor = s + sz], off |-> s]
    BY <1>3 DEF BlockAlloc
  <2> HIDE DEF s
  <2>2. /\ r.off = s
        /\ r.blk.size = b.size /\ r.blk.cursor = s + sz /\ r.blk.count = b.count
        /\ r.blk.free = b.free /\ BlockType(r.blk)
    BY <2>1, <1>1 DEF BlockType
  <2>3. \A q : IsRegion(q) /\ End(q) <= b.cursor => End(q) <= s + sz /\ Disjoint(q, new) /\ Disjoint(new, q)
    BY <1>1 DEF Disjoint, End, IsRegion
  <2>4. \A i \in 1..b.count : /\ IsRegion(b.free[i]) /\ End(b.free[i]) <= b.cursor
                              /\ End(b.free[i]) <= s + sz /\ Disjoint(new, b.free[i])
    BY <2>3, FreeRegionType DEF BlockSound
  <2>5. BlockSound(r.blk)
    BY <2>1, <2>2, <2>4 DEF BlockSound
  <2>6. Clear(r.blk, new)
    BY <2>2, <2>4, <1>1 DEF Clear, End
  <2>7. ASSUME NEW q, IsRegion(q), Clear(b, q) PROVE Clear(r.blk, q) /\ Disjoint(q, new)
    BY <2>7, <2>2, <2>3 DEF Clear
  <2> QED BY <2>2, <2>5, <2>6, <2>7, <1>1 DEF Allocated
<1> QED BY <1>2, <1>3

-----------------------------------------------------------------------------
(* The pool.                                                               *)

\* What the invariant says of one live buffer.
LEMMA LiveFacts ==
  ASSUME PoolInv, NEW id \in Ids, buf[id].blk # 0
  PROVE  /\ id \in Live /\ IsRegion(buf[id])
         /\ buf[id].blk \in 1..nblocks /\ buf[id].blk \in 1..MaxBlocks
         /\ Clear(blocks[buf[id].blk], buf[id])
<1>1. id \in Live
  BY DEF Live
<1>2. /\ buf[id] \in [blk : 0..nblocks, off : Nat, sz : Nat, align : Nat]
      /\ nblocks \in 0..MaxBlocks /\ buf[id].sz > 0 /\ MaxBlocks \in Nat
  BY <1>1, PoolAssumption DEF PoolInv, TypeOK
<1>3. IsRegion(buf[id])
  BY <1>2 DEF IsRegion
<1>4. buf[id].blk \in 1..nblocks /\ buf[id].blk \in 1..MaxBlocks
  BY <1>2
<1>5. Clear(blocks[buf[id].blk], buf[id])
  BY <1>1 DEF PoolInv, FreeUnused
<1> QED BY <1>1, <1>3, <1>4, <1>5

\* A step that replaces block k by c and at most one record, that of id, keeps
\* the invariant if c is sound and clear of what is live in it.
LEMMA StepSound ==
  ASSUME PoolInv,
         NEW k \in 1..MaxBlocks, NEW c, BlockType(c), BlockSound(c),
         blocks' = [blocks EXCEPT ![k] = c],
         nblocks' \in 0..MaxBlocks, nblocks <= nblocks', alignment' \in Nat,
         NEW id \in Ids, NEW rec \in [blk : 0..nblocks', off : Nat, sz : Nat, align : Nat],
         buf' = [buf EXCEPT ![id] = rec],
         rec.blk # 0 => rec.blk = k /\ rec.sz > 0 /\ Clear(c, rec),
         \A j \in Live \ {id} : buf[j].blk = k =>
           /\ Clear(c, buf[j])
           /\ rec.blk # 0 => Disjoint(buf[j], rec)
  PROVE  PoolInv'
<1>1. /\ nblocks \in 0..MaxBlocks /\ MaxBlocks \in Nat
      /\ DOMAIN blocks = 1..MaxBlocks
      /\ \A j \in 1..MaxBlocks : BlockType(blocks[j]) /\ BlockSound(blocks[j])
      /\ buf \in [Ids -> [blk : 0..nblocks, off : Nat, sz : Nat, align : Nat]]
  BY PoolAssumption DEF PoolInv, TypeOK, FreeListSound
<1>2. /\ DOMAIN blocks' = 1..MaxBlocks /\ blocks'[k] = c
      /\ \A j \in 1..MaxBlocks : j # k => blocks'[j] = blocks[j]
  BY <1>1
<1>3. buf'[id] = rec /\ \A j \in Ids : j # id => buf'[j] = buf[j]
  BY <1>1
<1>4. \A j \in Ids : j # id /\ buf'[j].blk # 0 => j \in Live
  BY <1>3 DEF Live
<1>5. TypeOK'
  <2>1. \A j \in 1..MaxBlocks : BlockType(blocks'[j])
    BY <1>1, <1>2
  <2>2. buf' \in [Ids -> [blk : 0..nblocks', off : Nat, sz : Nat, align : Nat]]
    <3>1. ASSUME NEW j \in Ids
          PROVE  buf[j] \in [blk : 0..nblocks', off : Nat, sz : Nat, align : Nat]
      <4>1. buf[j] \in [blk : 0..nblocks, off : Nat, sz : Nat, align : Nat]
        BY <1>1
      <4> QED BY <4>1, <1>1
    <3> QED BY <3>1, <1>1
  <2>3. \A j \in Live' : buf'[j].sz > 0
    BY <1>3, <1>4 DEF Live, PoolInv, TypeOK
  <2> QED BY <2>1, <2>2, <2>3, <1>2 DEF TypeOK
<1>6. FreeListSound'
  BY <1>1, <1>2 DEF FreeListSound
<1>7. FreeUnused'
  <2> SUFFICES ASSUME NEW j \in Ids, buf'[j].blk # 0
               PROVE  Clear(blocks'[buf'[j].blk], buf'[j])
    BY DEF FreeUnused, Live
  <2>1. CASE j = id
    BY <2>1, <1>2, <1>3
  <2>2. CASE j # id
    <3>1. j \in Live /\ buf'[j] = buf[j]
      BY <2>2, <1>3, <1>4
    <3>2. buf[j].blk \in 1..MaxBlocks /\ Clear(blocks[buf[j].blk], buf[j])
      BY <3>1, LiveFacts
    <3> QED BY <3>1, <3>2, <2>2, <1>2
  <2> QED BY <2>1, <2>2
<1>8. NoOverlap'
  <2> SUFFICES ASSUME NEW i \in Ids, NEW j \in Ids, buf'[i].blk # 0, buf'[j].blk # 0,
                      i # j, buf'[i].blk = buf'[j].blk
               PROVE  Disjoint(buf'[i], buf'[j])
    BY DEF NoOverlap, Live
  <2>1. CASE i = id
    BY <2>1, <1>3, <1>4 DEF Disjoint
  <2>2. CASE j = id
    BY <2>2, <1>3, <1>4
  <2>3. CASE i # id /\ j # id
    BY <2>3, <1>3, <1>4 DEF PoolInv, NoOverlap
  <2> QED BY <2>1, <2>2, <2>3
<1> QED BY <1>5, <1>6, <1>7, <1>8 DEF PoolInv

\* A buffer that goes leaves the invariant, whatever became of its block.
LEMMA VacateSound ==
  ASSUME PoolInv,
         NEW k \in 1..MaxBlocks, NEW c, BlockType(c), BlockSound(c),
         blocks' = [blocks EXCEPT ![k] = c],
         nblocks' \in 0..MaxBlocks, nblocks <= nblocks', alignment' \in Nat,
         NEW id \in Ids, buf' = [buf EXCEPT ![id] = NoBuf],
         \A j \in Live \ {id} : buf[j].blk = k => Clear(c, buf[j])
  PROVE  PoolInv'
<1>1. 0 \in 0..nblocks'
  BY PoolAssumption
<1>2. /\ NoBuf \in [blk : 0..nblocks', off : Nat, sz : Nat, align : Nat]
      /\ NoBuf.blk = 0
  BY <1>1 DEF NoBuf
<1> QED BY <1>2, StepSound

\* Binding and recording an allocated region, or undoing the allocation.
LEMMA PlaceSound ==
  ASSUME PoolInv,
         NEW id \in Ids, buf[id] = NoBuf, NEW req \in Requests,
         NEW k \in 1..MaxBlocks, k <= nblocks',
         nblocks' \in 0..MaxBlocks, nblocks <= nblocks', alignment' \in Nat,
         NEW b, NEW r, Allocated(b, r, AlignUp(req.size, req.align)),
         \A j \in Live : buf[j].blk = k => Clear(b, buf[j]),
         Place(id, req, k, r)
  PROVE  PoolInv'
<1> DEFINE sz == AlignUp(req.size, req.align)
           new == [off |-> r.off, sz |-> sz]
           rec == [blk |-> k, off |-> r.off, sz |-> sz, align |-> req.align]
<1>1. req.size \in Nat /\ req.size > 0 /\ req.align \in Nat /\ MaxBlocks \in Nat
  BY PoolAssumption
<1>2. sz \in Nat /\ sz > 0
  <2>1. AlignUp(req.size, req.align) \in Nat /\ AlignUp(req.size, req.align) >= req.size
    BY <1>1, AlignUpBound
  <2> QED BY <1>1, <2>1
<1> HIDE DEF sz
<1>3. /\ BlockType(r.blk) /\ BlockSound(r.blk) /\ r.off \in Nat /\ Clear(r.blk, new)
      /\ \A q : IsRegion(q) /\ Clear(b, q) => Clear(r.blk, q) /\ Disjoint(q, new)
  BY DEF Allocated, sz
<1>4. \A j \in Live : buf[j].blk = k => /\ IsRegion(buf[j])
                                       /\ Clear(r.blk, buf[j]) /\ Disjoint(buf[j], new)
  BY <1>3, LiveFacts DEF Live
<1>5. ASSUME blocks' = [blocks EXCEPT ![k] = r.blk], buf' = [buf EXCEPT ![id] = rec]
      PROVE  PoolInv'
  <2>1. rec \in [blk : 0..nblocks', off : Nat, sz : Nat, align : Nat]
    BY <1>1, <1>2, <1>3
  <2>2. rec.blk = k /\ rec.off = new.off /\ rec.sz = sz /\ End(rec) = End(new)
    BY DEF End
  <2>3. Clear(r.blk, rec)
    BY <2>2, <1>3 DEF Clear, Disjoint
  <2>4. \A j \in Live : buf[j].blk = k => Clear(r.blk, buf[j]) /\ Disjoint(buf[j], rec)
    BY <2>2, <1>4 DEF Disjoint
  <2> HIDE DEF rec
  <2> QED BY <2>1, <2>2, <2>3, <2>4, <1>2, <1>3, <1>5, StepSound
<1>6. ASSUME NEW c, blocks' = [blocks EXCEPT ![k] = c], UNCHANGED buf,
             c = r.blk \/ Returned(r.blk, c, r.off, sz)
      PROVE  PoolInv'
  <2>1. /\ BlockType(c) /\ BlockSound(c)
        /\ \A j \in Live : buf[j].blk = k => Clear(c, buf[j])
    BY <1>3, <1>4, <1>6 DEF Returned
  <2>2. /\ NoBuf \in [blk : 0..nblocks', off : Nat, sz : Nat, align : Nat]
        /\ NoBuf.blk = 0
    BY <1>1 DEF NoBuf
  <2>3. buf' = [buf EXCEPT ![id] = NoBuf]
    BY <1>6 DEF PoolInv, TypeOK
  <2>4. blocks' = [blocks EXCEPT ![k] = c]
    BY <1>6
  <2>5. \A j \in Live \ {id} : buf[j].blk = k =>
          /\ Clear(c, buf[j])
          /\ NoBuf.blk # 0 => Disjoint(buf[j], NoBuf)
    BY <2>1, <2>2
  <2>6. NoBuf.blk # 0 => NoBuf.blk = k /\ NoBuf.sz > 0 /\ Clear(c, NoBuf)
    BY <2>2
  <2> QED BY <2>1, <2>2, <2>3, <2>4, <2>5, <2>6, StepSound, ZenonT(60)
<1>7. CASE /\ blocks' = [blocks EXCEPT ![k] = r.blk]
           /\ buf' = [buf EXCEPT ![id] = rec]
  BY <1>5, <1>7
<1>8. CASE /\ "bind" \in Faults
           /\ \E grows \in MayGrow :
                LET undone == FreeRegionAdd(r.blk, r.off, sz, grows)
                IN  \E c \in IF undone = {} THEN {r.blk} ELSE undone :
                      blocks' = [blocks EXCEPT ![k] = c]
           /\ UNCHANGED buf
  <2>1. PICK grows \in MayGrow :
          \E c \in IF FreeRegionAdd(r.blk, r.off, sz, grows) = {}
                  THEN {r.blk} ELSE FreeRegionAdd(r.blk, r.off, sz, grows) :
            blocks' = [blocks EXCEPT ![k] = c]
    BY <1>8
  <2>2. PICK c : /\ c = r.blk \/ c \in FreeRegionAdd(r.blk, r.off, sz, grows)
                 /\ blocks' = [blocks EXCEPT ![k] = c]
    BY <2>1
  <2>3. c \in FreeRegionAdd(r.blk, r.off, sz, grows) => Returned(r.blk, c, r.off, sz)
    BY <1>2, <1>3, AddSound
  <2> QED BY <2>2, <2>3, <1>6, <1>8
<1> QED BY <1>7, <1>8 DEF Place, sz

\* Whatever is asked for and whatever fails, the invariant is inductive.
THEOREM PoolInvariant == Spec => []PoolInv
<1>1. Init => PoolInv
  <2> SUFFICES ASSUME Init PROVE PoolInv
    OBVIOUS
  <2>1. MaxBlocks \in Nat
    BY PoolAssumption
  <2>2. BlockType(NoBlock) /\ BlockSound(NoBlock)
    BY DEF NoBlock, BlockType, BlockSound, Region
  <2>3. NoBuf \in [blk : 0..0, off : Nat, sz : Nat, align : Nat] /\ NoBuf.blk = 0
    BY DEF NoBuf
  <2>4. Live = {}
    BY <2>3 DEF Live, Init
  <2> QED BY <2>1, <2>2, <2>3, <2>4 DEF Init, PoolInv, TypeOK, FreeListSound, FreeUnused, NoOverlap
<1>2. PoolInv /\ [Next]_vars => PoolInv'
  <2> SUFFICES ASSUME PoolInv, [Next]_vars PROVE PoolInv'
    OBVIOUS
  <2>1. /\ nblocks \in 0..MaxBlocks /\ MaxBlocks \in Nat /\ alignment \in Nat
        /\ DOMAIN blocks = 1..MaxBlocks
        /\ \A j \in 1..MaxBlocks : BlockType(blocks[j]) /\ BlockSound(blocks[j])
        /\ \A req \in Requests : PoolAlign(req) \in Nat
        /\ \A req \in Requests : /\ req.size \in Nat /\ req.size > 0 /\ req.align \in Nat
    BY PoolAssumption DEF PoolInv, TypeOK, FreeListSound, PoolAlign
  <2>2. \A req \in Requests : /\ AlignUp(req.size, req.align) \in Nat
                               /\ AlignUp(req.size, req.align) > 0
    <3> SUFFICES ASSUME NEW req \in Requests
                 PROVE  /\ AlignUp(req.size, req.align) \in Nat
                        /\ AlignUp(req.size, req.align) > 0
      OBVIOUS
    <3>1. AlignUp(req.size, req.align) \in Nat /\ AlignUp(req.size, req.align) >= req.size
      BY <2>1, AlignUpBound
    <3> QED BY <2>1, <3>1
  <2>3. ASSUME NEW id \in Ids, MallocInBlock(id) PROVE PoolInv'
    <3>1. PICK req \in Requests, grows \in [1..nblocks -> MayGrow], k \in 1..nblocks :
            \E r \in BlockAlloc(blocks[k], PoolAlign(req),
                                AlignUp(req.size, req.align), grows[k]) :
              alignment' = PoolAlign(req) /\ Place(id, req, k, r)
      BY <2>3 DEF MallocInBlock
    <3>2. PICK r \in BlockAlloc(blocks[k], PoolAlign(req),
                               AlignUp(req.size, req.align), grows[k]) :
            alignment' = PoolAlign(req) /\ Place(id, req, k, r)
      BY <3>1
    <3>3. k \in 1..MaxBlocks /\ nblocks' = nblocks /\ buf[id] = NoBuf /\ k <= nblocks'
      BY <2>1, <2>3 DEF MallocInBlock
    <3>4. Allocated(blocks[k], r, AlignUp(req.size, req.align))
      BY <2>1, <2>2, <3>2, <3>3, AllocSound
    <3>5. \A j \in Live : buf[j].blk = k => Clear(blocks[k], buf[j])
      BY LiveFacts DEF Live
    <3>6. alignment' \in Nat /\ nblocks' \in 0..MaxBlocks /\ nblocks <= nblocks'
      BY <2>1, <3>2, <3>3
    <3>7. Place(id, req, k, r)
      BY <3>2
    <3> QED BY <3>3, <3>4, <3>5, <3>6, <3>7, PlaceSound
  <2>4. ASSUME NEW id \in Ids, MallocNewBlock(id) PROVE PoolInv'
    <3>1. PICK req \in Requests :
            /\ alignment' = PoolAlign(req)
            /\ nblocks' = nblocks + 1
            /\ \E size \in {BlockSize, AlignUp(AlignUp(req.size, req.align), PoolAlign(req))} :
               \E r \in BlockAlloc([NoBlock EXCEPT !.size = size], PoolAlign(req),
                                   AlignUp(req.size, req.align), TRUE) :
                 Place(id, req, nblocks + 1, r)
      BY <2>4 DEF MallocNewBlock
    <3>2. PICK size \in {BlockSize, AlignUp(AlignUp(req.size, req.align), PoolAlign(req))} :
            \E r \in BlockAlloc([NoBlock EXCEPT !.size = size], PoolAlign(req),
                                AlignUp(req.size, req.align), TRUE) :
              Place(id, req, nblocks + 1, r)
      BY <3>1
    <3> DEFINE b == [NoBlock EXCEPT !.size = size]
    <3>3. PICK r \in BlockAlloc(b, PoolAlign(req), AlignUp(req.size, req.align), TRUE) :
            Place(id, req, nblocks + 1, r)
      BY <3>2
    <3>4. size \in Nat
      BY <2>1, <2>2, <3>2, AlignUpBound, PoolAssumption
    <3>5. BlockType(b) /\ BlockSound(b)
      BY <3>4 DEF NoBlock, BlockType, BlockSound, Region
    <3> HIDE DEF b
    <3>6. /\ nblocks + 1 \in 1..MaxBlocks /\ nblocks' \in 0..MaxBlocks
          /\ nblocks + 1 <= nblocks' /\ nblocks <= nblocks' /\ buf[id] = NoBuf
      BY <2>1, <2>4, <3>1 DEF MallocNewBlock
    <3>7. Allocated(b, r, AlignUp(req.size, req.align))
      BY <2>1, <2>2, <3>3, <3>5, AllocSound
    <3>8. \A j \in Live : buf[j].blk # nblocks + 1
      BY <2>1, LiveFacts DEF Live
    <3> QED BY <2>1, <3>1, <3>3, <3>6, <3>7, <3>8, PlaceSound
  <2>5. ASSUME NEW id \in Ids, MallocFails(id) PROVE PoolInv'
    BY <2>1, <2>5 DEF MallocFails, PoolInv, TypeOK, FreeListSound, FreeUnused, NoOverlap, Live
  <2>6. ASSUME NEW id \in Ids, Free(id) PROVE PoolInv'
    <3> DEFINE k == buf[id].blk
               b == blocks[k]
    <3>1. PICK grows \in MayGrow :
            \E c \in IF FreeRegionAdd(b, buf[id].off, buf[id].sz, grows) = {}
                    THEN {b} ELSE FreeRegionAdd(b, buf[id].off, buf[id].sz, grows) :
              blocks' = [blocks EXCEPT ![k] = c]
      BY <2>6 DEF Free
    <3>2. PICK c : /\ c = b \/ c \in FreeRegionAdd(b, buf[id].off, buf[id].sz, grows)
                   /\ blocks' = [blocks EXCEPT ![k] = c]
      BY <3>1
    <3>3. /\ buf' = [buf EXCEPT ![id] = NoBuf]
          /\ nblocks' \in 0..MaxBlocks /\ nblocks <= nblocks' /\ alignment' \in Nat
      BY <2>1, <2>6 DEF Free
    <3>5. /\ IsRegion(buf[id]) /\ k \in 1..MaxBlocks /\ Clear(b, buf[id])
          /\ id \in Live
      BY <2>6, LiveFacts DEF Free, Live
    <3>6. BlockType(b) /\ BlockSound(b)
      BY <3>5, <2>1
    <3> DEFINE new == [off |-> buf[id].off, sz |-> buf[id].sz]
    <3>7. Clear(b, new)
      BY <3>5 DEF Clear, Disjoint, End
    <3>8. c = b \/ Returned(b, c, buf[id].off, buf[id].sz)
      BY <3>2, <3>5, <3>6, <3>7, AddSound DEF IsRegion
    <3>9. \A j \in Live \ {id} : buf[j].blk = k =>
            IsRegion(buf[j]) /\ Clear(b, buf[j]) /\ Disjoint(buf[j], new)
      BY <3>5, LiveFacts DEF Live, PoolInv, NoOverlap, Disjoint, End
    <3>10. /\ BlockType(c) /\ BlockSound(c)
          /\ \A j \in Live \ {id} : buf[j].blk = k => Clear(c, buf[j])
      BY <3>6, <3>8, <3>9 DEF Returned
    <3>11. k \in 1..MaxBlocks /\ blocks' = [blocks EXCEPT ![k] = c]
      BY <3>2, <3>5
    <3> HIDE DEF k, b
    <3> QED BY <3>3, <3>10, <3>11, VacateSound
  <2>7. ASSUME Renew PROVE PoolInv'
    <3>1. MaxBlocks \in Nat
      BY PoolAssumption
    <3>2. BlockType(NoBlock) /\ BlockSound(NoBlock)
      BY DEF NoBlock, BlockType, BlockSound, Region
    <3>3. NoBuf \in [blk : 0..0, off : Nat, sz : Nat, align : Nat] /\ NoBuf.blk = 0
      BY DEF NoBuf
    <3>4. Live' = {}
      BY <3>3, <2>7 DEF Live, Renew
    <3> QED BY <3>1, <3>2, <3>3, <3>4, <2>7
            DEF Renew, PoolInv, TypeOK, FreeListSound, FreeUnused, NoOverlap
  <2>8. CASE UNCHANGED vars
    BY <2>8 DEF vars, PoolInv, TypeOK, FreeListSound, FreeUnused, NoOverlap, Live
  <2> QED BY <2>3, <2>4, <2>5, <2>6, <2>7, <2>8 DEF Next
<1> QED BY <1>1, <1>2, PTL DEF Spec

\* Every buffer, free region and cursor of the allocator keeps its type.
THEOREM PoolTypeOK == Spec => []TypeOK
BY PoolInvariant, PTL DEF PoolInv

\* Live buffers never share device memory.
THEOREM LiveBuffersDisjoint == Spec => []NoOverlap
BY PoolInvariant, PTL DEF PoolInv

\* What can be handed out again is never in use.
THEOREM FreeMemoryUnused == Spec => [](FreeListSound /\ FreeUnused)
BY PoolInvariant, PTL DEF PoolInv

\* The free list of every block stays sound.
THEOREM FreeListsSound == Spec => []FreeListSound
BY PoolInvariant, PTL DEF PoolInv

-----------------------------------------------------------------------------
(* What vkr_free gives back.                                               *)

Covers(r, y) == r.off <= y /\ y < End(r)

\* Everything that could be handed out of b can be handed out of c.
Keeps(b, c) == \A y \in Nat : Available(b, y) => Available(c, y)

\* A region that is resized to more than it covered gives what it covers now.
LEMMA ResizeKeeps ==
  ASSUME NEW b, BlockType(b), NEW i \in 1..b.count,
         NEW off \in Nat, NEW sz \in Nat, sz > 0,
         off <= b.free[i].off, End(b.free[i]) <= off + sz
  PROVE  LET c == Resize(b, i, off, sz) IN
         /\ Keeps(b, c)
         /\ \A y \in Nat : off <= y /\ y < off + sz => Available(c, y)
<1> DEFINE c == Resize(b, i, off, sz)
<1>1. /\ c.cursor = b.cursor /\ c.count = b.count
      /\ c.free[i] = [off |-> off, sz |-> sz]
      /\ \A j \in 1..b.count : j # i => c.free[j] = b.free[j]
  BY ResizeFields
<1> HIDE DEF c
<1>2. \A y \in Nat : off <= y /\ y < off + sz => Available(c, y)
  BY <1>1 DEF Available, End
<1>3. ASSUME NEW y \in Nat, Available(b, y) PROVE Available(c, y)
  <2>1. CASE b.cursor <= y
    BY <2>1, <1>1 DEF Available
  <2>2. ASSUME NEW j \in 1..b.count, Covers(b.free[j], y) PROVE Available(c, y)
    <3>1. CASE j = i
      <4>1. IsRegion(b.free[i])
        BY FreeRegionType
      <4> QED BY <4>1, <3>1, <2>2, <1>2 DEF Covers, End, IsRegion
    <3>2. CASE j # i
      BY <3>2, <2>2, <1>1 DEF Available, Covers
    <3> QED BY <3>1, <3>2
  <2> QED BY <1>3, <2>1, <2>2 DEF Available, Covers
<1> QED BY <1>2, <1>3 DEF Keeps, c

\* Removing a region from the array costs what that region covers, no more: the
\* last one moves into its slot.
LEMMA RemoveKeeps ==
  ASSUME NEW b, BlockType(b), NEW i \in 1..b.count, NEW y \in Nat, Available(b, y)
  PROVE  Available(FreeRegionRemove(b, i), y) \/ Covers(b.free[i], y)
<1> DEFINE c == FreeRegionRemove(b, i)
<1>1. /\ c.cursor = b.cursor /\ c.count = b.count - 1
      /\ c.free = [k \in 1..(b.count - 1) |-> IF k = i THEN b.free[b.count] ELSE b.free[k]]
  BY DEF FreeRegionRemove, BlockType
<1>2. b.count \in Nat
  BY DEF BlockType
<1> HIDE DEF c
<1>3. CASE b.cursor <= y
  BY <1>1, <1>3 DEF Available, c
<1>4. ASSUME NEW j \in 1..b.count, j # i, Covers(b.free[j], y) PROVE Available(c, y)
  <2>1. CASE j = b.count
    <3>1. i \in 1..(b.count - 1) /\ c.free[i] = b.free[j]
      BY <2>1, <1>1, <1>2, <1>4
    <3> QED BY <3>1, <1>1, <1>4 DEF Available, Covers
  <2>2. CASE j # b.count
    <3>1. j \in 1..(b.count - 1) /\ c.free[j] = b.free[j]
      BY <2>2, <1>1, <1>2, <1>4
    <3> QED BY <3>1, <1>1, <1>4 DEF Available, Covers
  <2> QED BY <2>1, <2>2
<1> QED BY <1>3, <1>4 DEF Available, Covers, c

\* Swallowing the region that follows loses nothing.
LEMMA MergeKeeps ==
  ASSUME NEW b, BlockType(b), NEW i \in 1..b.count
  PROVE  /\ MergeFollowing(b, i) # {}
         /\ \A c \in MergeFollowing(b, i) : Keeps(b, c)
<1> DEFINE following == Least({j \in 1..b.count : j # i /\ b.free[j].off = End(b.free[i])})
           whole(j) == Resize(b, i, b.free[i].off, b.free[i].sz + b.free[j].sz)
<1>1. MergeFollowing(b, i) # {}
  BY DEF MergeFollowing
<1>2. CASE following = {}
  BY <1>1, <1>2 DEF MergeFollowing, Keeps
<1>3. ASSUME NEW j \in following, NEW y \in Nat, Available(b, y)
      PROVE  Available(FreeRegionRemove(whole(j), j), y)
  <2>1. j \in 1..b.count /\ j # i /\ b.free[j].off = End(b.free[i])
    BY <1>3 DEF Least
  <2>2. IsRegion(b.free[i]) /\ IsRegion(b.free[j])
    BY <2>1, FreeRegionType
  <2> DEFINE off == b.free[i].off
             sz == b.free[i].sz + b.free[j].sz
             d == Resize(b, i, off, sz)
  <2>3. off \in Nat /\ sz \in Nat /\ sz > 0 /\ End(b.free[i]) <= off + sz
    BY <2>2 DEF IsRegion, End
  <2> HIDE DEF off, sz
  <2>4. /\ BlockType(d) /\ d.count = b.count
        /\ d.free[i] = [off |-> off, sz |-> sz] /\ d.free[j] = b.free[j]
    BY <2>1, <2>3, ResizeFields
  <2>5. off <= b.free[i].off
    BY <2>2 DEF off, IsRegion
  <2>6. Keeps(b, d)
    BY <2>3, <2>5, ResizeKeeps
  <2> HIDE DEF d
  <2>7. Available(d, y)
    BY <2>6, <1>3 DEF Keeps
  <2>8. Available(FreeRegionRemove(d, j), y) \/ Covers(d.free[j], y)
    BY <2>1, <2>4, <2>7, RemoveKeeps
  <2>9. ASSUME Covers(d.free[j], y) PROVE Available(FreeRegionRemove(d, j), y)
    <3> DEFINE c == FreeRegionRemove(d, j)
    <3>1. off <= y /\ y < off + sz
      BY <2>1, <2>2, <2>4, <2>9 DEF Covers, End, IsRegion, off, sz
    <3>2. /\ c.cursor = d.cursor /\ c.count = d.count - 1
          /\ c.free = [k \in 1..(d.count - 1) |-> IF k = j THEN d.free[d.count] ELSE d.free[k]]
      BY <2>4 DEF FreeRegionRemove, BlockType
    <3>3. b.count \in Nat
      BY DEF BlockType
    <3> HIDE DEF c
    <3>4. \E k \in 1..c.count : c.free[k] = [off |-> off, sz |-> sz]
      <4>1. CASE i = d.count
        <5>1. j \in 1..c.count /\ c.free[j] = d.free[i]
          BY <4>1, <2>1, <2>4, <3>2, <3>3
        <5> QED BY <5>1, <2>4
      <4>2. CASE i # d.count
        <5>1. i \in 1..c.count /\ c.free[i] = d.free[i]
          BY <4>2, <2>1, <2>4, <3>2, <3>3
        <5> QED BY <5>1, <2>4
      <4> QED BY <4>1, <4>2
    <3> QED BY <3>1, <3>4 DEF Available, End, c
  <2> QED BY <2>8, <2>9 DEF d, off, sz
<1>4. CASE following # {}
  <2>1. MergeFollowing(b, i) = {FreeRegionRemove(whole(j), j) : j \in following}
    BY <1>4 DEF MergeFollowing
  <2> QED BY <1>1, <1>3, <2>1 DEF Keeps
<1> QED BY <1>2, <1>4

\* free_region_add gives every byte of the region back and loses none; it fails
\* only when the array is full.
LEMMA AddKeeps ==
  ASSUME NEW b, BlockType(b), NEW off \in Nat, NEW sz \in Nat, sz > 0, NEW grows
  PROVE  /\ FreeRegionAdd(b, off, sz, grows) = {} => b.count = b.cap
         /\ \A c \in FreeRegionAdd(b, off, sz, grows) :
              /\ Keeps(b, c)
              /\ \A y \in Nat : off <= y /\ y < off + sz => Available(c, y)
<1> DEFINE abutting == {i \in 1..b.count : \/ End(b.free[i]) = off
                                           \/ off + sz = b.free[i].off}
           Gives(c) == /\ Keeps(b, c)
                       /\ \A y \in Nat : off <= y /\ y < off + sz => Available(c, y)
<1>1. CASE off + sz = b.cursor
  <2> DEFINE c == [b EXCEPT !.cursor = off]
  <2>1. FreeRegionAdd(b, off, sz, grows) = {c}
    BY <1>1 DEF FreeRegionAdd
  <2>2. c.cursor = off /\ c.count = b.count /\ c.free = b.free /\ b.cursor \in Nat
    BY DEF BlockType
  <2> HIDE DEF c
  <2>3. Gives(c)
    BY <2>2, <1>1 DEF Keeps, Available
  <2> QED BY <2>1, <2>3
<1>2. CASE off + sz # b.cursor /\ Least(abutting) # {}
  <2>1. FreeRegionAdd(b, off, sz, grows) = UNION {Extend(b, i, off, sz) : i \in Least(abutting)}
    BY <1>2 DEF FreeRegionAdd
  <2>2. ASSUME NEW i \in Least(abutting)
        PROVE  Extend(b, i, off, sz) # {} /\ \A c \in Extend(b, i, off, sz) : Gives(c)
    <3>1. i \in 1..b.count /\ (End(b.free[i]) = off \/ off + sz = b.free[i].off)
      BY <2>2 DEF Least
    <3>2. IsRegion(b.free[i])
      BY <3>1, FreeRegionType
    <3> DEFINE o == IF End(b.free[i]) = off THEN b.free[i].off ELSE off
               s == b.free[i].sz + sz
               d == Resize(b, i, o, s)
    <3>3. /\ o \in Nat /\ s \in Nat /\ s > 0
          /\ o <= b.free[i].off /\ End(b.free[i]) <= o + s
          /\ o <= off /\ off + sz <= o + s
      BY <3>1, <3>2 DEF IsRegion, End
    <3> HIDE DEF o, s
    <3>4. BlockType(d) /\ d.count = b.count
      <4>1. i \in 1..b.count /\ o \in Nat /\ s \in Nat /\ s > 0
        BY <3>1, <3>3
      <4> HIDE DEF abutting, Gives
      <4>2. BlockType(d)
        BY <4>1, ResizeFields
      <4>3. d.count = b.count
        BY DEF Resize, BlockType
      <4> QED BY <4>2, <4>3
    <3>5. Keeps(b, d) /\ \A y \in Nat : o <= y /\ y < o + s => Available(d, y)
      BY <3>1, <3>3, ResizeKeeps
    <3> HIDE DEF d
    <3>6. Gives(d)
      BY <3>3, <3>5
    <3>7. CASE End(b.free[i]) = off
      <4>1. Extend(b, i, off, sz) = MergeFollowing(d, i)
        BY <3>7 DEF Extend, d, o, s
      <4>2. MergeFollowing(d, i) # {} /\ \A c \in MergeFollowing(d, i) : Keeps(d, c)
        BY <3>1, <3>4, MergeKeeps
      <4> QED BY <4>1, <4>2, <3>6 DEF Keeps
    <3>8. CASE End(b.free[i]) # off
      <4>1. Extend(b, i, off, sz) = {d}
        BY <3>8 DEF Extend, d, o, s
      <4> QED BY <4>1, <3>6
    <3> QED BY <3>7, <3>8
  <2> QED BY <1>2, <2>1, <2>2, ZenonT(60)
<1>3. CASE off + sz # b.cursor /\ Least(abutting) = {}
  <2>1. FreeRegionAdd(b, off, sz, grows) = AppendRegion(b, off, sz, grows)
    BY <1>3 DEF FreeRegionAdd
  <2>2. AppendRegion(b, off, sz, grows) = {} => b.count = b.cap
    BY DEF AppendRegion
  <2>3. ASSUME NEW c \in AppendRegion(b, off, sz, grows) PROVE Gives(c)
    <3>1. /\ c.cursor = b.cursor
          /\ \A k \in 1..b.count : k \in 1..c.count /\ c.free[k] = b.free[k]
      BY AppendFields, ZenonT(60)
    <3>2. c.count \in 1..c.count /\ c.free[c.count] = [off |-> off, sz |-> sz]
      <4>1. /\ c.count = b.count + 1
            /\ c.free = [k \in 1..(b.count + 1) |->
                           IF k <= b.count THEN b.free[k] ELSE [off |-> off, sz |-> sz]]
        BY DEF AppendRegion, BlockType
      <4>2. b.count \in Nat
        BY DEF BlockType
      <4> QED BY <4>1, <4>2
    <3> QED BY <3>1, <3>2 DEF Keeps, Available, End
  <2> QED BY <2>1, <2>2, <2>3
<1> QED BY <1>1, <1>2, <1>3

\* One step of the allocator gives a freed buffer's bytes back, and keeps what
\* was free.
LEMMA FreeStep ==
  ASSUME PoolInv, [Next]_vars, NEW id \in Live, buf'[id] = NoBuf, nblocks' = nblocks
  PROVE  LET k == buf[id].blk
             x == buf[id].off
         IN  \/ blocks[k].count = blocks[k].cap /\ blocks'[k] = blocks[k]
             \/ \A y \in 0..(blocks[k].size - 1) :
                  (x <= y /\ y < End(buf[id])) \/ Available(blocks[k], y)
                    => Available(blocks'[k], y)
<1>1. /\ id \in Ids /\ buf[id].blk # 0 /\ buf[id] # NoBuf
      /\ NoBuf.blk = 0
  BY DEF Live, NoBuf
<1>2. /\ IsRegion(buf[id]) /\ buf[id].blk \in 1..nblocks /\ buf[id].blk \in 1..MaxBlocks
      /\ Clear(blocks[buf[id].blk], buf[id])
  BY <1>1, LiveFacts
<1>3. /\ nblocks \in Nat /\ DOMAIN blocks = 1..MaxBlocks
      /\ BlockType(blocks[buf[id].blk]) /\ DOMAIN buf = Ids
  BY <1>2, PoolAssumption DEF PoolInv, TypeOK
<1>4. ASSUME NEW j \in Ids, buf[j] = NoBuf \/ j # id,
             UNCHANGED buf \/ \E rec : buf' = [buf EXCEPT ![j] = rec]
      PROVE  FALSE
  BY <1>1, <1>3, <1>4
<1>5. ASSUME NEW j \in Ids, MallocInBlock(j) PROVE FALSE
  BY <1>4, <1>5 DEF MallocInBlock, Place
<1>6. ASSUME NEW j \in Ids, MallocNewBlock(j) PROVE FALSE
  BY <1>3, <1>6 DEF MallocNewBlock
<1>7. ASSUME NEW j \in Ids, MallocFails(j) PROVE FALSE
  BY <1>4, <1>7 DEF MallocFails
<1>8. ASSUME Renew PROVE FALSE
  BY <1>2, <1>3, <1>8 DEF Renew
<1>9. ~UNCHANGED vars
  BY <1>1 DEF vars
<1>10. PICK j \in Ids : Free(j)
  BY <1>5, <1>6, <1>7, <1>8, <1>9 DEF Next
<1>11. j = id
  <2>1. j # id => \E rec : buf' = [buf EXCEPT ![j] = rec]
    BY <1>10 DEF Free
  <2> QED BY <2>1, <1>4
<1> DEFINE k == buf[id].blk
           b == blocks[k]
           off == buf[id].off
           sz == buf[id].sz
<1>12. PICK grows \in MayGrow :
         \E c \in IF FreeRegionAdd(b, off, sz, grows) = {} THEN {b} ELSE FreeRegionAdd(b, off, sz, grows) :
           blocks' = [blocks EXCEPT ![k] = c]
  BY <1>10, <1>11 DEF Free
<1>13. PICK c : /\ \/ c = b /\ FreeRegionAdd(b, off, sz, grows) = {}
                   \/ c \in FreeRegionAdd(b, off, sz, grows)
                /\ blocks' = [blocks EXCEPT ![k] = c]
  BY <1>12
<1>14. blocks'[k] = c
  BY <1>2, <1>3, <1>13
<1>15. BlockType(b) /\ off \in Nat /\ sz \in Nat /\ sz > 0 /\ b.size \in Nat
  BY <1>2, <1>3 DEF IsRegion, BlockType
<1> HIDE DEF b, off, sz
<1>16. CASE c = b /\ FreeRegionAdd(b, off, sz, grows) = {}
  <2>1. b.count = b.cap
    BY <1>15, <1>16, AddKeeps
  <2> QED BY <2>1, <1>14, <1>16 DEF b
<1>17. CASE c \in FreeRegionAdd(b, off, sz, grows)
  <2>1. Keeps(b, c) /\ \A y \in Nat : off <= y /\ y < off + sz => Available(c, y)
    BY <1>15, <1>17, AddKeeps
  <2>2. \A y \in 0..(b.size - 1) : y \in Nat
    BY <1>15
  <2>3. End(buf[id]) = off + sz
    BY DEF End, off, sz
  <2>4. \A y \in 0..(b.size - 1) :
          (off <= y /\ y < End(buf[id])) \/ Available(b, y) => Available(c, y)
    BY <2>1, <2>2, <2>3 DEF Keeps
  <2> QED BY <2>4, <1>14 DEF b, off
<1> QED BY <1>13, <1>16, <1>17

\* "Free returns the region to the pool" (vkruntime.c): no sequence of calls
\* loses a byte through vkr_free, but when the free-region array cannot grow.
THEOREM FreeLosesNothing == Spec => FreeReturnsRegion
<1>1. PoolInv /\ [Next]_vars =>
        [\A id \in Live :
           LET k == buf[id].blk
               x == buf[id].off
           IN  buf'[id] = NoBuf /\ nblocks' = nblocks =>
                 \/ blocks[k].count = blocks[k].cap /\ blocks'[k] = blocks[k]
                 \/ \A y \in 0..(blocks[k].size - 1) :
                      (x <= y /\ y < End(buf[id])) \/ Available(blocks[k], y)
                        => Available(blocks'[k], y)]_vars
  BY FreeStep
<1> QED BY <1>1, PoolInvariant, PTL DEF Spec, FreeReturnsRegion

-----------------------------------------------------------------------------
(* Alignment.                                                              *)

\* Of two alignments the larger is a multiple of the smaller, as with the
\* powers of two vkGetBufferMemoryRequirements reports.
AlignmentsNest == \A r, s \in Requests : r.align <= s.align => s.align % r.align = 0

\* Division with remainder, as the provers need it spelled out.
LEMMA Quotient ==
  ASSUME NEW v \in Nat, NEW a \in Nat, a > 0
  PROVE  /\ v \div a \in Nat /\ v % a \in 0..(a - 1)
         /\ v = a * (v \div a) + (v % a)
<1>1. v \div a \in Nat
  OBVIOUS
<1>2. v % a \in 0..(a - 1)
  OBVIOUS
<1>3. v = a * (v \div a) + (v % a)
  OBVIOUS
<1> QED BY <1>1, <1>2, <1>3

\* A multiple leaves no remainder.
LEMMA Multiple ==
  ASSUME NEW a \in Nat, a > 0, NEW k \in Nat
  PROVE  (a * k) % a = 0
<1> DEFINE v == a * k
           q == v \div a
           m == v % a
<1>1. v \in Nat
  BY Z3
<1>2. q \in Nat /\ m \in 0..(a-1) /\ v = a * q + m
  BY <1>1, Quotient
<1>3. q <= k
  <2>1. CASE q >= k + 1
     <3>1. a * q >= a * (k+1)
       BY <2>1, <1>2
     <3>2. a * (k+1) = a * k + a
       OBVIOUS
     <3> QED BY <3>1, <3>2, <1>2
  <2> QED BY <2>1, <1>2
<1>4. q >= k
  <2>1. CASE q + 1 <= k
     <3>1. a * (q+1) <= a * k
       BY <2>1, <1>2
     <3>2. a * (q+1) = a * q + a
       BY <1>2
     <3> QED BY <3>1, <3>2, <1>2
  <2> QED BY <2>1, <1>2
<1> QED BY <1>2, <1>3, <1>4

\* align_up gives a multiple of the alignment.
LEMMA AlignUpMultiple ==
  ASSUME NEW v \in Nat, NEW a \in Nat, a > 0
  PROVE  AlignUp(v, a) % a = 0
<1> DEFINE q == v \div a
           m == v % a
<1>1. q \in Nat /\ m \in 0..(a-1) /\ v = a * q + m
  BY Quotient
<1>2. CASE m = 0
  <2>1. (a - 0) % a = 0
    <3>1. (a * 1) % a = 0
       BY Multiple
    <3> QED BY <3>1
  <2>2. AlignUp(v, a) = v
    BY <2>1, <1>2 DEF AlignUp
  <2> QED BY <2>2, <1>2
<1>3. CASE m # 0
  <2>1. (a - m) % a = a - m
    <3> HIDE DEF m
    <3>1. a - m \in Nat /\ a - m < a
      BY <1>1, <1>3
    <3> QED BY <3>1
  <2>2. AlignUp(v, a) = v + (a - m)
    BY <2>1 DEF AlignUp
  <2> HIDE DEF q, m
  <2>3. v + (a - m) = a * q + a
    BY <1>1
  <2>4. a * q + a = a * (q + 1)
    BY <1>1
  <2> QED BY <2>2, <2>3, <2>4, <1>1, Multiple
<1> QED BY <1>2, <1>3

\* A multiple of a multiple is a multiple.
LEMMA Divides ==
  ASSUME NEW v \in Nat, NEW a \in Nat, NEW b \in Nat, a > 0, b > 0,
         v % a = 0, a % b = 0
  PROVE  v % b = 0
<1> DEFINE p == v \div a
           q == a \div b
<1>1. p \in Nat /\ v = a * p
  BY Quotient
<1>2. q \in Nat /\ a = b * q
  BY Quotient
<1> HIDE DEF p, q
<1>3. q * p \in Nat
  BY <1>1, <1>2
<1>4. v = b * (q * p)
  BY <1>1, <1>2
<1> QED BY <1>3, <1>4, Multiple

\* block_alloc_region returns an offset that align_up made.
LEMMA AllocAligned ==
  ASSUME NEW b, BlockType(b), NEW align \in Nat, align > 0, NEW sz \in Nat,
         NEW grows, NEW r \in BlockAlloc(b, align, sz, grows)
  PROVE  r.off \in Nat /\ r.off % align = 0
<1>1. \E x \in Nat : r.off = AlignUp(x, align)
  <2>1. b.cursor \in Nat /\ \A i \in 1..b.count : b.free[i].off \in Nat
    BY DEF BlockType, Region
  <2>2. CASE \E i \in 1..b.count : r \in Carve(b, i, AlignUp(b.free[i].off, align), sz, grows)
    BY <2>1, <2>2 DEF Carve
  <2>3. CASE r.off = AlignUp(b.cursor, align)
    BY <2>1, <2>3
  <2> QED BY <2>2, <2>3 DEF BlockAlloc, Least
<1> QED BY <1>1, AlignUpBound, AlignUpMultiple

\* The pool's alignment is that of a request; live buffers are aligned.
AlignInv ==
  /\ alignment = 0 \/ \E req \in Requests : alignment = req.align
  /\ LiveAligned

\* A buffer placed at a multiple of the pool's alignment is aligned.
LEMMA PlaceAligned ==
  ASSUME PoolInv, AlignInv, AlignmentsNest, NEW id \in Ids, NEW req \in Requests,
         NEW k, NEW r, r.off \in Nat, r.off % PoolAlign(req) = 0,
         alignment' = PoolAlign(req), Place(id, req, k, r)
  PROVE  AlignInv'
<1>1. \A s \in Requests : s.align \in Nat /\ s.align > 0
  BY PoolAssumption
<1>2. \E s \in Requests : PoolAlign(req) = s.align /\ req.align <= s.align
  BY <1>1 DEF AlignInv, PoolAlign
<1>3. r.off % req.align = 0
  <2>1. PICK s \in Requests : PoolAlign(req) = s.align /\ req.align <= s.align
    BY <1>2
  <2>2. s.align % req.align = 0 /\ r.off % s.align = 0
    BY <2>1 DEF AlignmentsNest
  <2> QED BY <2>2, <1>1, Divides
<1>4. DOMAIN buf = Ids
  BY DEF PoolInv, TypeOK
<1>5. LiveAligned'
  <2>1. CASE UNCHANGED buf
    BY <2>1 DEF AlignInv, LiveAligned, Live
  <2>2. CASE \E sz : buf' = [buf EXCEPT ![id] = [blk |-> k, off |-> r.off, sz |-> sz, align |-> req.align]]
    <3>1. buf'[id].off % buf'[id].align = 0
      BY <1>3, <1>4, <2>2
    <3>2. \A j \in Ids : j # id => buf'[j] = buf[j]
      BY <1>4, <2>2
    <3> QED BY <3>1, <3>2 DEF AlignInv, LiveAligned, Live
  <2> QED BY <2>1, <2>2 DEF Place
<1> QED BY <1>2, <1>5 DEF AlignInv

\* Every buffer is bound at a multiple of the alignment its driver requires,
\* although a pool allocates with the largest alignment it has seen.
THEOREM LiveBuffersAligned ==
  ASSUME AlignmentsNest
  PROVE  Spec => []LiveAligned
<1>1. Init => AlignInv
  BY DEF Init, AlignInv, LiveAligned, Live, NoBuf
<1>2. PoolInv /\ AlignInv /\ [Next]_vars => AlignInv'
  <2> SUFFICES ASSUME PoolInv, AlignInv, [Next]_vars PROVE AlignInv'
    OBVIOUS
  <2>1. /\ nblocks \in 0..MaxBlocks /\ MaxBlocks \in Nat /\ DOMAIN buf = Ids
        /\ \A j \in 1..MaxBlocks : BlockType(blocks[j])
        /\ \A req \in Requests : /\ PoolAlign(req) \in Nat /\ PoolAlign(req) > 0
                                 /\ AlignUp(req.size, req.align) \in Nat
    <3>1. \A req \in Requests : req.size \in Nat /\ req.align \in Nat /\ req.align > 0
      BY PoolAssumption
    <3>2. \A req \in Requests : AlignUp(req.size, req.align) \in Nat
      BY <3>1, AlignUpBound
    <3>3. \A req \in Requests : PoolAlign(req) \in Nat /\ PoolAlign(req) > 0
      BY <3>1 DEF PoolInv, TypeOK, PoolAlign
    <3> QED BY <3>2, <3>3, PoolAssumption DEF PoolInv, TypeOK
  <2>2. ASSUME NEW id \in Ids, MallocInBlock(id) PROVE AlignInv'
    <3>1. PICK req \in Requests, grows \in [1..nblocks -> MayGrow], k \in 1..nblocks :
            \E r \in BlockAlloc(blocks[k], PoolAlign(req),
                                AlignUp(req.size, req.align), grows[k]) :
              alignment' = PoolAlign(req) /\ Place(id, req, k, r)
      BY <2>2 DEF MallocInBlock
    <3>2. PICK r \in BlockAlloc(blocks[k], PoolAlign(req),
                               AlignUp(req.size, req.align), grows[k]) :
            alignment' = PoolAlign(req) /\ Place(id, req, k, r)
      BY <3>1
    <3>3. BlockType(blocks[k])
      BY <2>1
    <3>4. r.off \in Nat /\ r.off % PoolAlign(req) = 0
      BY <2>1, <3>2, <3>3, AllocAligned
    <3> QED BY <3>2, <3>4, PlaceAligned
  <2>3. ASSUME NEW id \in Ids, MallocNewBlock(id) PROVE AlignInv'
    <3>1. PICK req \in Requests :
            /\ alignment' = PoolAlign(req)
            /\ \E size \in {BlockSize, AlignUp(AlignUp(req.size, req.align), PoolAlign(req))} :
               \E r \in BlockAlloc([NoBlock EXCEPT !.size = size], PoolAlign(req),
                                   AlignUp(req.size, req.align), TRUE) :
                 Place(id, req, nblocks + 1, r)
      BY <2>3 DEF MallocNewBlock
    <3>2. PICK size \in {BlockSize, AlignUp(AlignUp(req.size, req.align), PoolAlign(req))} :
            \E r \in BlockAlloc([NoBlock EXCEPT !.size = size], PoolAlign(req),
                                AlignUp(req.size, req.align), TRUE) :
              Place(id, req, nblocks + 1, r)
      BY <3>1
    <3> DEFINE b == [NoBlock EXCEPT !.size = size]
    <3>3. PICK r \in BlockAlloc(b, PoolAlign(req), AlignUp(req.size, req.align), TRUE) :
            Place(id, req, nblocks + 1, r)
      BY <3>2
    <3>4. size \in Nat
      BY <2>1, <3>2, AlignUpBound, PoolAssumption
    <3>5. BlockType(b)
      BY <3>4 DEF NoBlock, BlockType, Region
    <3> HIDE DEF b
    <3>6. r.off \in Nat /\ r.off % PoolAlign(req) = 0
      BY <2>1, <3>3, <3>5, AllocAligned
    <3> QED BY <3>1, <3>3, <3>6, PlaceAligned
  <2>4. ASSUME NEW id \in Ids, MallocFails(id) PROVE AlignInv'
    BY <2>4 DEF MallocFails, AlignInv, PoolAlign, LiveAligned, Live
  <2>5. ASSUME NEW id \in Ids, Free(id) PROVE AlignInv'
    <3>1. alignment' = alignment /\ buf' = [buf EXCEPT ![id] = NoBuf] /\ NoBuf.blk = 0
      BY <2>5 DEF Free, NoBuf
    <3>2. \A j \in Ids : buf'[j] = buf[j] \/ buf'[j].blk = 0
      BY <2>1, <3>1
    <3> QED BY <3>1, <3>2 DEF AlignInv, LiveAligned, Live
  <2>6. CASE Renew
    BY <2>6 DEF Renew, AlignInv, LiveAligned, Live, NoBuf
  <2>7. CASE UNCHANGED vars
    BY <2>7 DEF vars, AlignInv, LiveAligned, Live
  <2> QED BY <2>2, <2>3, <2>4, <2>5, <2>6, <2>7 DEF Next
<1> QED BY <1>1, <1>2, PoolInvariant, PTL DEF Spec, AlignInv
=============================================================================
