------------------------------ MODULE VkrPool ------------------------------
(***************************************************************************)
(* The pooled allocator behind vkr_malloc and vkr_free                     *)
(* (src/vkruntime/vkruntime.c): one pool of a VkRuntime, a list of device  *)
(* memory blocks, each sub-allocated first-fit from an array of free       *)
(* regions and then from a bump cursor.                                    *)
(*                                                                         *)
(* blocks is indexed in order of creation; the code prepends, so it walks  *)
(* the list from the highest index down.  The allocation record of a live  *)
(* buffer (vkr_alloc_slot_t) is buf[id].  A vkr_free whose record lookup   *)
(* misses returns at once and is a stuttering step here.                   *)
(***************************************************************************)
EXTENDS Naturals

CONSTANTS
  Ids,        \* buffer handles
  MaxBlocks,  \* bound: blocks vkAllocateMemory can provide
  BlockSize,  \* VKR_DEFAULT_BLOCK_SIZE
  FirstCap,   \* capacity of a free-region array after its first growth (16)
  Requests,   \* [size, align]: sizes asked for, and the driver's alignment
  Faults      \* what may fail: AllFaults

\* "memory": no memory type or no VkDeviceMemory; "realloc": the free-region
\* array does not grow; "bind": vkBindBufferMemory or the record's insertion.
AllFaults == {"memory", "realloc", "bind"}

ASSUME PoolAssumption ==
  /\ MaxBlocks \in Nat /\ BlockSize \in Nat /\ FirstCap \in Nat \ {0}
  /\ Requests \subseteq [size : Nat \ {0}, align : Nat \ {0}]
  /\ Faults \subseteq AllFaults

VARIABLES
  nblocks,   \* length of pool->blocks
  blocks,    \* each block: size, bump cursor, free regions and their array
  alignment, \* pool->alignment
  buf        \* the allocation record of each buffer handle

vars == <<nblocks, blocks, alignment, buf>>

NoBlock == [size |-> 0, cursor |-> 0, count |-> 0, cap |-> 0, free |-> <<>>]
NoBuf   == [blk |-> 0, off |-> 0, sz |-> 0, align |-> 1]

Live == {id \in Ids : buf[id].blk # 0}

Init ==
  /\ nblocks = 0
  /\ blocks = [k \in 1..MaxBlocks |-> NoBlock]
  /\ alignment = 0
  /\ buf = [id \in Ids |-> NoBuf]

-----------------------------------------------------------------------------
(* Regions and the free list of one block.  An operator that may fail      *)
(* returns the set of its results, empty on failure.                       *)

\* align_up for the powers of two Vulkan's alignments are.
AlignUp(value, align) ==
  IF align = 0 THEN value ELSE value + ((align - (value % align)) % align)

End(r) == r.off + r.sz

\* The first index of a loop that breaks at an index of S; empty if none does.
Least(S) == {i \in S : \A j \in S : i <= j}

\* Mutant: the slots after idx keep their place and the last one is dropped.
DropLast(b, idx) ==
  [b EXCEPT !.count = @ - 1, !.free = [k \in 1..(b.count - 1) |-> b.free[k]]]
\* free_region_remove: the last region moves into slot idx.
FreeRegionRemove(b, idx) ==
  [b EXCEPT !.count = @ - 1,
            !.free = [k \in 1..(b.count - 1) |->
                        IF k = idx THEN b.free[b.count] ELSE b.free[k]]]

\* Region i now covers [off, off + sz).
Resize(b, i, off, sz) == [b EXCEPT !.free[i] = [off |-> off, sz |-> sz]]

\* Region i has grown upwards: swallow the region that now follows it.
MergeFollowing(b, i) ==
  LET following == Least({j \in 1..b.count : j # i /\ b.free[j].off = End(b.free[i])})
  IN  IF following = {} THEN {b}
      ELSE {FreeRegionRemove(Resize(b, i, b.free[i].off, b.free[i].sz + b.free[j].sz), j)
              : j \in following}

\* Mutant: a region that grows downwards keeps its old start.
ExtendUpwards(b, i, off, sz) ==
  LET grown == Resize(b, i, b.free[i].off, b.free[i].sz + sz)
  IN  IF End(b.free[i]) = off THEN MergeFollowing(grown, i) ELSE {grown}
\* Region i abuts [off, off + sz) below or above: it absorbs it.
Extend(b, i, off, sz) ==
  IF End(b.free[i]) = off
  THEN MergeFollowing(Resize(b, i, b.free[i].off, b.free[i].sz + sz), i)
  ELSE {Resize(b, i, off, b.free[i].sz + sz)}

\* Mutant: the array grows one slot too late.
AppendLate(b, off, sz, grows) ==
  {[b EXCEPT !.count = @ + 1,
             !.cap = IF b.count > @ THEN 2 * @ ELSE @,
             !.free = [k \in 1..(b.count + 1) |->
                         IF k <= b.count THEN b.free[k] ELSE [off |-> off, sz |-> sz]]]}
\* A new slot at the end of the array, which doubles when it is full.
AppendRegion(b, off, sz, grows) ==
  IF b.count = b.cap /\ ~grows THEN {}
  ELSE {[b EXCEPT
           !.count = @ + 1,
           !.cap = IF b.count # @ THEN @ ELSE IF @ = 0 THEN FirstCap ELSE 2 * @,
           !.free = [k \in 1..(b.count + 1) |->
                       IF k <= b.count THEN b.free[k] ELSE [off |-> off, sz |-> sz]]]}

\* free_region_add: roll the cursor back, or extend the first region that
\* abuts, or append.
FreeRegionAdd(b, off, sz, grows) ==
  LET abutting == Least({i \in 1..b.count : \/ End(b.free[i]) = off
                                            \/ off + sz = b.free[i].off})
  IN  IF off + sz = b.cursor THEN {[b EXCEPT !.cursor = off]}
      ELSE IF abutting # {} THEN UNION {Extend(b, i, off, sz) : i \in abutting}
      ELSE AppendRegion(b, off, sz, grows)

\* Carving sz bytes at s out of region i: the rest above goes back to the
\* list first, then region i shrinks to the rest below or goes.
Carve(b, i, s, sz, grows) ==
  LET lo == s - b.free[i].off
      hi == b.free[i].sz - lo - sz
      with == IF hi > 0 THEN FreeRegionAdd(b, s + sz, hi, grows) ELSE {b}
  IN  {[blk |-> IF lo > 0 THEN Resize(c, i, c.free[i].off, lo) ELSE FreeRegionRemove(c, i),
        off |-> s] : c \in with}

\* Mutant: the alignment gap is not counted when a free region is tried.
FitsUnaligned(b, i, align, sz) == sz <= b.free[i].sz
\* Region i holds sz bytes at an aligned offset.
Fits(b, i, align, sz) == AlignUp(b.free[i].off, align) + sz <= End(b.free[i])

\* block_alloc_region: the first region that fits, else the unused tail.
BlockAlloc(b, align, sz, grows) ==
  LET fitting == Least({i \in 1..b.count : Fits(b, i, align, sz)})
      s == AlignUp(b.cursor, align)
  IN  IF fitting # {}
      THEN UNION {Carve(b, i, AlignUp(b.free[i].off, align), sz, grows) : i \in fitting}
      ELSE IF s + sz <= b.size
           THEN {[blk |-> [b EXCEPT !.cursor = s + sz], off |-> s]}
           ELSE {}

-----------------------------------------------------------------------------
(* vkr_malloc and vkr_free.                                                *)

\* Mutant: the alignment of the pool's first buffer stays.
FirstAlign(req) == IF alignment = 0 THEN req.align ELSE alignment
\* pool->alignment after a request: the largest seen.
PoolAlign(req) == IF alignment < req.align THEN req.align ELSE alignment

\* May the free-region array of a block grow?
MayGrow == IF "realloc" \in Faults THEN BOOLEAN ELSE {TRUE}

\* The buffer is bound and recorded at r.off of block k - or that fails, and
\* the region goes back (what free_region_add returns is ignored).
Place(id, req, k, r) ==
  LET sz == AlignUp(req.size, req.align)
  IN  \/ /\ blocks' = [blocks EXCEPT ![k] = r.blk]
         /\ buf' = [buf EXCEPT ![id] =
                      [blk |-> k, off |-> r.off, sz |-> sz, align |-> req.align]]
      \/ /\ "bind" \in Faults
         /\ \E grows \in MayGrow :
              LET undone == FreeRegionAdd(r.blk, r.off, sz, grows)
              IN  \E c \in IF undone = {} THEN {r.blk} ELSE undone :
                    blocks' = [blocks EXCEPT ![k] = c]
         /\ UNCHANGED buf

\* A block of the pool has room: the most recently created one that has.
MallocInBlock(id) ==
  /\ buf[id] = NoBuf
  /\ \E req \in Requests, grows \in [1..nblocks -> MayGrow] :
       LET sz == AlignUp(req.size, req.align)
           tried == [k \in 1..nblocks |->
                       BlockAlloc(blocks[k], PoolAlign(req), sz, grows[k])]
       IN  \E k \in 1..nblocks : \E r \in tried[k] :
             /\ \A j \in 1..nblocks : j > k => tried[j] = {}
             /\ alignment' = PoolAlign(req)
             /\ Place(id, req, k, r)
  /\ UNCHANGED nblocks

\* No block has room: a new one, and the buffer at its start.
MallocNewBlock(id) ==
  /\ buf[id] = NoBuf /\ nblocks < MaxBlocks
  /\ \E req \in Requests, grows \in [1..nblocks -> MayGrow] :
       LET sz == AlignUp(req.size, req.align)
           size == IF sz > BlockSize THEN AlignUp(sz, PoolAlign(req)) ELSE BlockSize
       IN  /\ \A k \in 1..nblocks : BlockAlloc(blocks[k], PoolAlign(req), sz, grows[k]) = {}
           /\ alignment' = PoolAlign(req)
           /\ nblocks' = nblocks + 1
           /\ \E r \in BlockAlloc([NoBlock EXCEPT !.size = size], PoolAlign(req), sz, TRUE) :
                Place(id, req, nblocks + 1, r)

\* No suitable memory type, or no block has room and vkAllocateMemory or
\* vkMapMemory fails: only the alignment remembers the request.
MallocFails(id) ==
  /\ buf[id] = NoBuf /\ "memory" \in Faults
  /\ \E req \in Requests : alignment' = PoolAlign(req)
  /\ UNCHANGED <<nblocks, blocks, buf>>

\* vkr_free: the region goes back to its block, the record and buffer go.
Free(id) ==
  /\ id \in Live
  /\ \E grows \in MayGrow :
       LET b == blocks[buf[id].blk]
           added == FreeRegionAdd(b, buf[id].off, buf[id].sz, grows)
       IN  \E c \in IF added = {} THEN {b} ELSE added :
             blocks' = [blocks EXCEPT ![buf[id].blk] = c]
  /\ buf' = [buf EXCEPT ![id] = NoBuf]
  /\ UNCHANGED <<nblocks, alignment>>

\* vkr_destroy_runtime, then vkr_create_runtime for the next session.
Renew ==
  /\ nblocks' = 0
  /\ blocks' = [k \in 1..MaxBlocks |-> NoBlock]
  /\ alignment' = 0
  /\ buf' = [id \in Ids |-> NoBuf]

Next ==
  \/ \E id \in Ids : \/ MallocInBlock(id) \/ MallocNewBlock(id)
                     \/ MallocFails(id) \/ Free(id)
  \/ Renew

Spec == Init /\ [][Next]_vars

-----------------------------------------------------------------------------
(* Properties.                                                             *)

Region == [off : Nat, sz : Nat \ {0}]

BlockType(b) ==
  /\ b \in [size : Nat, cursor : Nat, count : Nat, cap : Nat, free : {b.free}]
  /\ b.count <= b.cap
  /\ b.free \in [1..b.count -> Region]

\* The variables have their types; a free-region array never overflows.
TypeOK ==
  /\ nblocks \in 0..MaxBlocks
  /\ DOMAIN blocks = 1..MaxBlocks
  /\ \A k \in 1..MaxBlocks : BlockType(blocks[k])
  /\ alignment \in Nat
  /\ buf \in [Ids -> [blk : 0..nblocks, off : Nat, sz : Nat, align : Nat]]
  /\ \A id \in Live : buf[id].sz > 0

Disjoint(r, s) == End(r) <= s.off \/ End(s) <= r.off

\* No two live buffers share a byte of device memory, whatever the sequence of
\* vkr_malloc and vkr_free (block_alloc_region, free_region_add).
NoOverlap ==
  \A i, j \in Live : i # j /\ buf[i].blk = buf[j].blk => Disjoint(buf[i], buf[j])

BlockSound(b) ==
  /\ b.cursor <= b.size
  /\ \A i \in 1..b.count : End(b.free[i]) <= b.cursor
  /\ \A i, j \in 1..b.count : i # j => Disjoint(b.free[i], b.free[j])

\* The free regions of a block are disjoint and lie below its cursor, and the
\* cursor lies within the block.
FreeListSound == \A k \in 1..MaxBlocks : BlockSound(blocks[k])

Clear(b, r) ==
  /\ End(r) <= b.cursor
  /\ \A i \in 1..b.count : Disjoint(r, b.free[i])

\* Nothing that is handed out again - a free region, the tail above the
\* cursor - overlaps a buffer still in use.
FreeUnused == \A id \in Live : Clear(blocks[buf[id].blk], buf[id])

\* The inductive invariant.
PoolInv == TypeOK /\ FreeListSound /\ FreeUnused /\ NoOverlap

\* Every buffer is bound at a multiple of the alignment its driver requires.
LiveAligned == \A id \in Live : buf[id].off % buf[id].align = 0

\* Byte x of a block can be handed out again.
Available(b, x) ==
  b.cursor <= x \/ \E i \in 1..b.count : b.free[i].off <= x /\ x < End(b.free[i])

\* "Free returns the region to the pool" (vkruntime.c): after vkr_free every
\* byte of the buffer can be handed out again, and so can all that could
\* before, unless the free-region array was full and could not grow.
FreeReturnsRegion ==
  [][\A id \in Live :
       LET k == buf[id].blk
           x == buf[id].off
       IN  buf'[id] = NoBuf /\ nblocks' = nblocks =>
             \/ blocks[k].count = blocks[k].cap /\ blocks'[k] = blocks[k]
             \/ \A y \in 0..(blocks[k].size - 1) :
                  (x <= y /\ y < End(buf[id])) \/ Available(blocks[k], y)
                    => Available(blocks'[k], y)]_vars
=============================================================================
