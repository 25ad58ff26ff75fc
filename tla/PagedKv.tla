------------------------------- MODULE PagedKv -------------------------------
(***************************************************************************)
(* The paged KV cache of the LLM runtime                                   *)
(* (src/vulkan/windows/c99/llm/src/vaist_llm.c): a pool of blocks with a   *)
(* bitmap, and an open-addressing table from sequence ids to the blocks    *)
(* assigned to them.                                                       *)
(*                                                                         *)
(* The caller keeps the rules of the API: it assigns only blocks that      *)
(* vaist_kv_paged_alloc_block gave it, each once, and frees by itself only *)
(* blocks it has not assigned.  What the blocks contain, and the buffer    *)
(* they lie in, is left out: a block is its number.                        *)
(***************************************************************************)
EXTENDS Naturals, FiniteSets, SequencesExt

CONSTANTS
  MaxBlocks,  \* cfg.max_blocks
  Seqs,       \* sequence ids
  SeqCap,     \* first capacity of seq_table (VAIST_PAGED_SEQ_CAP_INIT)
  ArrayCap,   \* first capacity of a block array (VAIST_PAGED_SEQ_CAP_INIT)
  MaxAsk,     \* most blocks asked for or assigned in one call
  MaxCount,   \* bound on seq_count
  KvFaults    \* which allocations may fail: subset of {"create", "table", "array"}

Slots(cap) == 0..(cap - 1)
NoSeq == [seq |-> 0, blocks |-> <<>>]

ASSUME PagedAssumption ==
  /\ MaxBlocks \in Nat \ {0} /\ MaxAsk \in Nat \ {0} /\ ArrayCap \in Nat \ {0}
  /\ Seqs \subseteq Nat /\ IsFiniteSet(Seqs)
  /\ SeqCap \in Nat /\ SeqCap >= 4 /\ MaxCount \in Nat

Blocks == 0..(MaxBlocks - 1)

VARIABLES
  kvc,        \* "none" or "live": whether the caller has a cache
  heap,       \* which of the cache's own allocations exist
  used,       \* the bitmap: blocks marked in use
  usedCount,  \* cfg.total_blocks_used
  seqTable,   \* seq_table: a slot is empty iff its capacity is 0, iff it lists nothing
  seqCount,   \* seq_count
  arrays,     \* block arrays of entries that are allocated
  held,       \* blocks the caller was given and has neither assigned nor freed
  assigned,   \* what the caller has assigned to each sequence that is not in cut
  cut         \* sequences whose probe path a clear_seq has emptied a slot of

pagedVars == <<kvc, heap, used, usedCount, seqTable, seqCount, arrays, held, assigned, cut>>

EmptyTable(cap) == [i \in Slots(cap) |-> NoSeq]
NothingAssigned == [s \in Seqs |-> <<>>]

PagedInit ==
  /\ kvc = "none" /\ heap = {}
  /\ used = {} /\ usedCount = 0
  /\ seqTable = EmptyTable(SeqCap) /\ seqCount = 0
  /\ arrays = 0 /\ held = {}
  /\ assigned = NothingAssigned /\ cut = {}

-----------------------------------------------------------------------------
(* The sequence table.                                                     *)

Cap(t) == Cardinality(DOMAIN t)
Vacant(t) == {i \in DOMAIN t : t[i].blocks = <<>>}

\* Steps of a linear probe from the home slot of s to slot i.
Steps(t, s, i) == (i + Cap(t) - (s % Cap(t))) % Cap(t)
FirstProbed(S, t, s) ==
  LET first == Min({Steps(t, s, i) : i \in S})
  IN  {i \in S : Steps(t, s, i) = first}

\* paged_seq_lookup(create = 0): the entry of s, unless an empty slot comes first.
Lookup(t, s) ==
  {i \in FirstProbed(Vacant(t) \cup {j \in DOMAIN t : t[j].seq = s}, t, s) :
     t[i].blocks # <<>>}

\* paged_seq_lookup(create = 1): the entry of s, or the slot for a new one.
LookupOrCreate(t, s) ==
  IF Lookup(t, s) # {} THEN Lookup(t, s) ELSE FirstProbed(Vacant(t), t, s)

Store(t, s, blocks) ==
  LET at == LookupOrCreate(t, s)
  IN  [i \in DOMAIN t |-> IF i \in at THEN [seq |-> s, blocks |-> t[i].blocks \o blocks] ELSE t[i]]

\* Mutant: the entries keep their slots in the larger table.
SameSlots(t) == [i \in Slots(2 * Cap(t)) |-> IF i \in DOMAIN t THEN t[i] ELSE NoSeq]
\* An entry goes to the first empty slot on its path.
Placed(t, e) ==
  LET at == FirstProbed(Vacant(t), t, e.seq)
  IN  [i \in DOMAIN t |-> IF i \in at THEN e ELSE t[i]]

\* The rehash of vaist_kv_paged_assign_blocks, in slot order.
Regrown(t) ==
  LET moved[n \in 0..Cap(t)] ==
        IF n = 0 THEN EmptyTable(2 * Cap(t))
        ELSE IF t[n - 1].blocks = <<>> THEN moved[n - 1] ELSE Placed(moved[n - 1], t[n - 1])
  IN  moved[Cap(t)]

\* Mutant: growth at full load only.
GrowWhenFull == seqCount >= Cap(seqTable)
\* The load at which an assignment first grows the table (75 %).
MustRegrow == seqCount * 4 >= Cap(seqTable) * 3

\* Capacity of the array of an entry with n blocks: it starts at ArrayCap,
\* doubles until the blocks fit, and an entry's count only grows.
Room(n) == IF n = 0 THEN 0 ELSE Min({c \in {ArrayCap * 2^k : k \in 0..MaxBlocks} : c >= n})

BlocksOf(t, s) == UNION {{t[i].blocks[k] : k \in DOMAIN t[i].blocks} : i \in Lookup(t, s)}
CountOf(t, s) == Cardinality(BlocksOf(t, s))

\* vaist_kv_paged_get_block_table, with room for every block.
BlockTable(s) ==
  IF Lookup(seqTable, s) = {} THEN <<>>
  ELSE seqTable[CHOOSE i \in Lookup(seqTable, s) : TRUE].blocks

-----------------------------------------------------------------------------
(* The pool of blocks.                                                     *)

Pieces == <<"kvc", "bitmap", "buffer", "table", "markers">>

\* What vaist_kv_paged_create frees when its k-th allocation fails.
FreedOnFailure(k) == {Pieces[j] : j \in 1..(k - 1)}

CreateFails(k) ==
  /\ kvc = "none" /\ "create" \in KvFaults
  /\ heap' = (heap \cup {Pieces[j] : j \in 1..(k - 1)}) \ FreedOnFailure(k)
  /\ UNCHANGED <<kvc, used, usedCount, seqTable, seqCount, arrays, held, assigned, cut>>

Create ==
  /\ kvc = "none" /\ kvc' = "live"
  /\ heap' = heap \cup {Pieces[j] : j \in DOMAIN Pieces}
  /\ UNCHANGED <<used, usedCount, seqTable, seqCount, arrays, held, assigned, cut>>

\* vaist_kv_paged_destroy; what the caller still held is void.
Destroy ==
  /\ kvc = "live" /\ kvc' = "none"
  /\ heap' = heap \ {Pieces[j] : j \in DOMAIN Pieces}
  /\ arrays' = arrays - Cardinality(DOMAIN seqTable \ Vacant(seqTable))
  /\ used' = {} /\ usedCount' = 0
  /\ seqTable' = EmptyTable(SeqCap) /\ seqCount' = 0
  /\ held' = {} /\ assigned' = NothingAssigned /\ cut' = {}

\* The blocks a scan of the bitmap takes: the first n free ones, or all there are.
FirstFree(n) ==
  {b \in Blocks \ used : Cardinality({c \in Blocks \ used : c < b}) < n}

\* Mutant: the roll-back stops one block early.
AllButFirst(taken) == {b \in taken : \E c \in taken : c < b}
\* What vaist_kv_paged_alloc_block gives back when it found too few.
RolledBack(taken) == taken

AllocBlock(n) ==
  /\ kvc = "live"
  /\ LET taken == FirstFree(n)
         back  == IF Cardinality(taken) < n THEN RolledBack(taken) ELSE {}
     IN  /\ used' = (used \cup taken) \ back
         /\ usedCount' = usedCount + Cardinality(taken) - Cardinality(back)
         /\ held' = IF Cardinality(taken) < n THEN held ELSE held \cup taken
  /\ UNCHANGED <<kvc, heap, seqTable, seqCount, arrays, assigned, cut>>

\* vaist_kv_paged_free_block on each of S: a free block is left alone.
FreedNow(S) == S \cap used

\* The caller frees a block it holds, or one that is free already.
FreeBlock(b) ==
  /\ kvc = "live" /\ b \in held \cup (Blocks \ used)
  /\ used' = used \ {b}
  /\ usedCount' = usedCount - Cardinality(FreedNow({b}))
  /\ held' = held \ {b}
  /\ UNCHANGED <<kvc, heap, seqTable, seqCount, arrays, assigned, cut>>

-----------------------------------------------------------------------------
(* Assigning blocks to sequences.                                          *)

\* The table an assignment works on: the larger one when it must grow.
Target == IF MustRegrow THEN Regrown(seqTable) ELSE seqTable
IsNew(t, s) == IF Lookup(t, s) = {} THEN 1 ELSE 0
NeedsRoom(t, s, n) == CountOf(t, s) + n > Room(CountOf(t, s))

\* vaist_kv_paged_assign_blocks, with t the table after growth.
Assign(t, s, ids) ==
  /\ seqTable' = Store(t, s, ids)
  /\ seqCount' = seqCount + IsNew(t, s)
  /\ arrays' = arrays + IsNew(t, s)
  /\ held' = held \ Range(ids)
  /\ assigned' = IF s \in cut THEN assigned ELSE [assigned EXCEPT ![s] = @ \o ids]
  /\ UNCHANGED <<kvc, heap, used, usedCount, cut>>

\* No memory for the entry's array: the table has grown, and a new entry is
\* counted although its slot still reads as empty.
AssignNoArray(t, s, n) ==
  /\ "array" \in KvFaults /\ NeedsRoom(t, s, n)
  /\ seqCount < MaxCount
  /\ seqTable' = t
  /\ seqCount' = seqCount + IsNew(t, s)
  /\ UNCHANGED <<kvc, heap, used, usedCount, arrays, held, assigned, cut>>

\* No memory for the larger table: nothing has changed yet.
AssignNoTable == "table" \in KvFaults /\ MustRegrow /\ held # {} /\ UNCHANGED pagedVars

AssignBlocks ==
  /\ kvc = "live"
  /\ \/ AssignNoTable
     \/ LET t == Target
        IN  \E s \in Seqs, n \in 1..MaxAsk :
              \/ \E ids \in Injection(1..n, held) : Assign(t, s, ids)
              \/ n <= Cardinality(held) /\ AssignNoArray(t, s, n)

SeqCountDown == seqCount - 1

\* The sequences whose lookup passes the slot of s before it finds their entry.
PastSlotOf(s) ==
  {t \in Seqs : \E i \in Lookup(seqTable, s), j \in Lookup(seqTable, t) :
                  Steps(seqTable, t, i) < Steps(seqTable, t, j)}

\* vaist_kv_paged_clear_seq: the slot becomes empty, with no tombstone.
ClearSeq(s) ==
  /\ kvc = "live" /\ Lookup(seqTable, s) # {}
  /\ used' = used \ BlocksOf(seqTable, s)
  /\ usedCount' = usedCount - Cardinality(FreedNow(BlocksOf(seqTable, s)))
  /\ seqTable' = [i \in DOMAIN seqTable |-> IF i \in Lookup(seqTable, s) THEN NoSeq ELSE seqTable[i]]
  /\ seqCount' = SeqCountDown
  /\ arrays' = arrays - 1
  /\ cut' = cut \cup PastSlotOf(s)
  /\ assigned' = [t \in Seqs |-> IF t \in cut' \cup {s} THEN <<>> ELSE assigned[t]]
  /\ UNCHANGED <<kvc, heap, held>>

\* It returns without a word when the lookup misses.
ClearMissed(s) == kvc = "live" /\ Lookup(seqTable, s) = {} /\ UNCHANGED pagedVars

PagedNext ==
  \/ Create \/ Destroy
  \/ \E k \in DOMAIN Pieces : CreateFails(k)
  \/ \E n \in 1..MaxAsk : AllocBlock(n)
  \/ \E b \in Blocks : FreeBlock(b)
  \/ \E s \in Seqs : ClearSeq(s) \/ ClearMissed(s)
  \/ AssignBlocks

PagedSpec == PagedInit /\ [][PagedNext]_pagedVars

-----------------------------------------------------------------------------
(* Properties.                                                             *)

\* The variables have their types.
PagedTypeOK ==
  /\ kvc \in {"none", "live"} /\ heap \subseteq Range(Pieces)
  /\ used \subseteq Blocks /\ usedCount \in 0..MaxBlocks
  /\ DOMAIN seqTable = Slots(Cap(seqTable))
  /\ Cap(seqTable) \in SeqCap..(SeqCap + 3 * (MaxBlocks + MaxCount))
  /\ \A i \in DOMAIN seqTable : /\ seqTable[i].seq \in Seqs \cup {0}
                                /\ seqTable[i].blocks \in Seq(Blocks)
  /\ seqCount \in Nat /\ arrays \in Nat /\ held \subseteq Blocks
  /\ assigned \in [Seqs -> Seq(Blocks)] /\ cut \subseteq Seqs

Entries == DOMAIN seqTable \ Vacant(seqTable)
ListedIn(i) == Range(seqTable[i].blocks)

\* total_blocks_used is the number of marked blocks, through roll-backs, double
\* frees and cleared sequences.
UsedCountExact == usedCount = Cardinality(used)

\* A block marked in use has exactly one owner: the caller that holds it, or one
\* position of one sequence's list.  No failed call leaks one, no other hands
\* one out twice.
BlockHasOneOwner ==
  /\ used = held \cup UNION {ListedIn(i) : i \in Entries}
  /\ \A i \in Entries : /\ ListedIn(i) \cap held = {}
                        /\ IsInjective(seqTable[i].blocks)
                        /\ \A j \in Entries \ {i} : ListedIn(i) \cap ListedIn(j) = {}

\* The loop of paged_seq_lookup leaves only at an empty slot: there is one, and
\* seq_count, on which growth depends, never runs below the entries.
LookupsEnd ==
  /\ Vacant(seqTable) # {}
  /\ seqCount >= Cardinality(Entries)

\* Every sequence's block table is what was assigned to it, whatever collides
\* and however the table grew or failed to; clearing a sequence costs only those
\* whose lookups passed over its slot.
BlockTableExact == \A s \in Seqs \ cut : BlockTable(s) = assigned[s]

\* A cache that is gone, or was never completed, holds no memory.
NothingLeaks == kvc = "none" => heap = {} /\ arrays = 0

\* Blocks and memory are accounted for.
PagedAccounts == UsedCountExact /\ BlockHasOneOwner /\ NothingLeaks
=============================================================================
