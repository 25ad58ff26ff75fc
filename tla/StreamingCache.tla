---------------------------- MODULE StreamingCache ----------------------------
(***************************************************************************)
(* The streaming weight cache                                              *)
(* (src/vulkan/windows/c99/model/src/vaist_model_streaming.c): tensors of  *)
(* a mapped file are staged in host memory by prefetch and copied to the   *)
(* GPU by to_gpu, within a byte budget and a fixed number of slots, with   *)
(* the resident ones in a doubly-linked LRU list.                          *)
(*                                                                         *)
(* What a buffer contains is the name of the tensor copied into it.  A     *)
(* tensor has one size, as in its file.  A caller gives back with          *)
(* evict_gpu only what to_gpu gave it.                                     *)
(***************************************************************************)
EXTENDS Naturals, FiniteSets, SequencesExt

CONSTANTS
  Tensors,      \* tensor names
  Size,         \* byte_size of each
  MaxEntries,   \* max_entries
  MaxBytes,     \* max_bytes, the GPU budget
  MaxRefs,      \* bound on the references callers have to each tensor
  MaxResident,  \* bound on resident_bytes
  NoTensor,     \* an empty name, a NULL buffer
  StreamFaults  \* which allocations may fail: subset of {"staging", "gpu"}

None == 0  \* UINT32_MAX

ASSUME StreamAssumption ==
  /\ NoTensor \notin Tensors /\ IsFiniteSet(Tensors)
  /\ Size \in [Tensors -> Nat \ {0}]
  /\ MaxEntries \in Nat \ {0} /\ MaxBytes \in Nat /\ MaxRefs \in [Tensors -> Nat]

Entry == 1..MaxEntries

VARIABLES
  slots,  \* the cache: [entry, head, tail, resident]
  refs    \* references the caller has to each tensor: to_gpu minus evict_gpu

streamVars == <<slots, refs>>

FreeEntry == [name |-> NoTensor, gpu |-> NoTensor, staging |-> NoTensor,
              refcount |-> 0, prev |-> None, next |-> None]
EmptyCache == [entry |-> [i \in Entry |-> FreeEntry],
               head |-> None, tail |-> None, resident |-> 0]

StreamInit == slots = EmptyCache /\ refs = [t \in Tensors |-> 0]

-----------------------------------------------------------------------------
(* The LRU list and the slots, as functions of a cache c.                  *)

\* Mutant: the tail is not moved when the last entry goes.
TailKept(c, i) == c.tail
TailAfter(c, i) == IF c.entry[i].next = None THEN c.entry[i].prev ELSE c.tail

\* _lru_remove.
Unlinked(c, i) ==
  LET p == c.entry[i].prev
      n == c.entry[i].next
  IN  [c EXCEPT !.entry = [j \in Entry |->
                   [c.entry[j] EXCEPT !.prev = IF j = i THEN None ELSE IF j = n THEN p ELSE @,
                                      !.next = IF j = i THEN None ELSE IF j = p THEN n ELSE @]],
                !.head = IF p = None THEN n ELSE @,
                !.tail = TailAfter(c, i)]

\* _lru_push_front.
PushedFront(c, i) ==
  [c EXCEPT !.entry = [j \in Entry |->
                 [c.entry[j] EXCEPT !.prev = IF j = c.head THEN i ELSE IF j = i THEN None ELSE @,
                                    !.next = IF j = i THEN c.head ELSE @]],
              !.head = i,
              !.tail = IF c.head = None THEN i ELSE @]

\* _find_entry_by_name: the first slot of S; None without one.
FirstIn(S) == IF S = {} THEN None ELSE Min(S)
Named(c, t) == FirstIn({i \in Entry : c.entry[i].name = t})
ResidentNamed(c, t) == FirstIn({i \in Entry : c.entry[i].name = t /\ c.entry[i].gpu # NoTensor})

-----------------------------------------------------------------------------
(* Prefetch.                                                               *)

\* Mutant: the evicted entry keeps its GPU copy.
StagingOnly(c, i) == [c EXCEPT !.entry[i] = [@ EXCEPT !.staging = NoTensor, !.name = NoTensor]]
\* What prefetch frees of the LRU entry when no slot is free.  Neither
\* resident_bytes nor the entry's refcount is touched.
Cleared(c, i) ==
  [c EXCEPT !.entry[i] = [@ EXCEPT !.gpu = NoTensor, !.staging = NoTensor, !.name = NoTensor]]

\* The slot prefetch uses for t, and the cache once that slot is ready.
PrefetchSlot(t) ==
  CASE Named(slots, t) # None -> Named(slots, t)
    [] OTHER -> IF Named(slots, NoTensor) # None THEN Named(slots, NoTensor) ELSE slots.tail
SlotReady(t) ==
  IF Named(slots, t) # None \/ Named(slots, NoTensor) # None THEN slots
  ELSE Unlinked(Cleared(slots, slots.tail), slots.tail)

\* vaist_gguf_tensor_prefetch, and its failures: no slot and nothing to evict;
\* no staging memory once the slot is ready.
Prefetch(t) ==
  LET i == PrefetchSlot(t)
  IN  /\ i # None
      /\ slots' = [SlotReady(t) EXCEPT !.entry[i] = [@ EXCEPT !.staging = t, !.name = t]]
      /\ UNCHANGED refs

PrefetchNoSlot(t) == PrefetchSlot(t) = None /\ UNCHANGED streamVars

PrefetchNoMemory(t) ==
  LET i == PrefetchSlot(t)
  IN  /\ "staging" \in StreamFaults /\ i # None
      /\ slots' = [SlotReady(t) EXCEPT !.entry[i].staging = NoTensor]
      /\ UNCHANGED refs

-----------------------------------------------------------------------------
(* Moving to the GPU and back.                                             *)

Bytes(c, i) == Size[c.entry[i].name]

\* vaist_gguf_tensor_to_gpu of a resident tensor.
UseResident(t) ==
  LET i == ResidentNamed(slots, t)
  IN  /\ i # None /\ refs[t] < MaxRefs[t]
      /\ slots' = [PushedFront(Unlinked(slots, i), i) EXCEPT !.entry[i].refcount = @ + 1]
      /\ refs' = [refs EXCEPT ![t] = @ + 1]

\* Mutant: room is made for the bytes that are there, not for those to come.
OverNow(c, size) == c.resident > MaxBytes
\* What keeps the eviction loop of to_gpu running.
OverBudget(c, size) == c.resident + size > MaxBytes /\ c.head # None

BytesLeft(c, i) == c.resident - Bytes(c, i)

\* One round: the tail goes, whatever its refcount.
TailEvicted(c) ==
  LET v == c.tail
  IN  Unlinked([c EXCEPT !.entry[v].gpu = NoTensor, !.resident = BytesLeft(c, v)], v)

Evicting(c, size) ==
  LET round[n \in 0..MaxEntries] ==
        IF n = 0 THEN c
        ELSE IF OverBudget(round[n - 1], size) THEN TailEvicted(round[n - 1]) ELSE round[n - 1]
  IN  round[MaxEntries]

\* to_gpu of a staged tensor that is not resident.
Promote(t) ==
  LET i == Named(slots, t)
      c == Evicting(slots, Size[t])
  IN  /\ i # None /\ ResidentNamed(slots, t) = None
      /\ slots.entry[i].staging # NoTensor
      /\ refs[t] < MaxRefs[t] /\ c.resident + Size[t] <= MaxResident
      /\ slots' = PushedFront([c EXCEPT !.entry[i] = [@ EXCEPT !.gpu = c.entry[i].staging,
                                                               !.refcount = 1],
                                        !.resident = @ + Size[t]], i)
      /\ refs' = [refs EXCEPT ![t] = @ + 1]

\* There is no GPU memory; what was evicted for it stays evicted.
PromoteNoMemory(t) ==
  LET i == Named(slots, t)
  IN  /\ "gpu" \in StreamFaults
      /\ i # None /\ ResidentNamed(slots, t) = None
      /\ slots.entry[i].staging # NoTensor
      /\ slots' = Evicting(slots, Size[t])
      /\ UNCHANGED refs

\* Mutant: the last reference does not free.
StillReferenced(c, i) == TRUE
\* Whether evict_gpu leaves the tensor resident.
OthersLeft(c, i) == c.entry[i].refcount > 1

\* vaist_gguf_tensor_evict_gpu, by a caller that has a reference; when the
\* tensor has been evicted under it: VAIST_INVALID_ARGUMENT.
EvictGpu(t) ==
  LET i == ResidentNamed(slots, t)
      c == [slots EXCEPT !.entry[i].refcount = @ - 1]
  IN  /\ refs[t] > 0 /\ i # None
      /\ slots' = IF OthersLeft(slots, i) THEN c
                  ELSE Unlinked([c EXCEPT !.entry[i].gpu = NoTensor, !.resident = @ - Size[t]], i)
      /\ refs' = [refs EXCEPT ![t] = @ - 1]

EvictGone(t) ==
  /\ refs[t] > 0 /\ ResidentNamed(slots, t) = None
  /\ refs' = [refs EXCEPT ![t] = @ - 1]
  /\ UNCHANGED slots

\* vaist_gguf_streaming_tensor_read stages a tensor whose prefetch failed.
ReadTensor(t) ==
  LET i == Named(slots, t)
  IN  /\ i # None /\ slots.entry[i].staging = NoTensor
      /\ slots' = [slots EXCEPT !.entry[i].staging = t]
      /\ UNCHANGED refs

\* vaist_streaming_cache_destroy and a new cache; nobody has references.
RenewCache == (\A t \in Tensors : refs[t] = 0) /\ slots' = EmptyCache /\ UNCHANGED refs

StreamNext ==
  \/ \E t \in Tensors :
       \/ Prefetch(t) \/ PrefetchNoSlot(t) \/ PrefetchNoMemory(t)
       \/ UseResident(t) \/ Promote(t) \/ PromoteNoMemory(t)
       \/ EvictGpu(t) \/ EvictGone(t) \/ ReadTensor(t)
  \/ RenewCache

StreamSpec == StreamInit /\ [][StreamNext]_streamVars

-----------------------------------------------------------------------------
(* Properties.                                                             *)

\* The variables have their types.
StreamTypeOK ==
  LET Name == Tensors \cup {NoTensor}
  IN  /\ slots \in [entry : [Entry -> [name : Name, gpu : Name, staging : Name, refcount : Nat,
                                       prev : Entry \cup {None}, next : Entry \cup {None}]],
                    head : Entry \cup {None}, tail : Entry \cup {None}, resident : Nat]
      /\ \A t \in Tensors : refs[t] \in 0..MaxRefs[t]

\* The entries of c with a GPU copy, and how many bytes those copies have in all.
OnGpu(c) == {i \in Entry : c.entry[i].gpu # NoTensor}
GpuBytes(c) == Cardinality(UNION {{i} \X (1..Bytes(c, i)) : i \in OnGpu(c)})
Resident == OnGpu(slots)

\* Following next from the head, the list is a path through exactly the resident
\* entries to the tail, and prev is its inverse: however tensors are used,
\* evicted and overwritten, eviction always finds a resident victim.
LruIsResident ==
  LET e == slots.entry
      ahead[n \in 0..MaxEntries] ==
        IF n = 0 THEN slots.head
        ELSE IF ahead[n - 1] = None THEN None ELSE e[ahead[n - 1]].next
  IN  /\ {ahead[n] : n \in 0..MaxEntries} \ {None} = Resident
      /\ ahead[MaxEntries] = None
      /\ \A i \in Resident : /\ e[i].next # None => e[e[i].next].prev = i
                             /\ e[i].next = None <=> slots.tail = i
                             /\ e[i].prev = None <=> slots.head = i
      /\ Resident = {} => slots.tail = None

\* "bounded GPU memory budget" (vaist_model_streaming.h): what is on the GPU fits
\* the budget, or is one tensor that is larger than what the counter leaves.
WithinBudget == GpuBytes(slots) <= MaxBytes \/ Cardinality(Resident) = 1

\* resident_bytes, a size_t that evictions subtract from, never runs below what
\* is resident: it cannot wrap.
CounterNeverLow == slots.resident >= GpuBytes(slots)

BudgetKept == WithinBudget /\ CounterNeverLow

\* A tensor has at most one slot, and that slot's buffers contain that tensor,
\* whatever the slot held before.
SlotHoldsItsTensor ==
  \A i \in Entry :
    LET e == slots.entry[i]
    IN  /\ {e.gpu, e.staging} \subseteq {NoTensor, e.name}
        /\ e.name # NoTensor => \A j \in Entry \ {i} : slots.entry[j].name # e.name

\* A resident tensor is counted, and by no more than its callers hold: when the
\* last of them evicts it, it goes.
CountedByHolders ==
  \A i \in Resident : slots.entry[i].refcount \in 1..refs[slots.entry[i].name]

\* refcount: "active references (0 = evictable)" (vaist_model_streaming.h): a
\* tensor somebody has a reference to stays on the GPU.
ReferencedStays == \A t \in Tensors : refs[t] > 0 => ResidentNamed(slots, t) # None
=============================================================================
