--------------------------- MODULE VkrAllocTable ---------------------------
(***************************************************************************)
(* The allocation-record table of a VkRuntime (src/vkruntime/vkruntime.c): *)
(* open addressing with linear probing from VkBuffer handles to records.   *)
(* vkr_malloc inserts, vkr_free looks up and removes, and the table        *)
(* doubles at 60 % load.  A removal empties its slot and leaves no mark.   *)
(*                                                                         *)
(* A record is its handle; what it says of memory is in VkrPool.  When the *)
(* larger table cannot be allocated vkr_malloc destroys the buffer again:  *)
(* a stuttering step here.                                                 *)
(***************************************************************************)
EXTENDS Naturals, FiniteSets

CONSTANTS
  Buffers,  \* VkBuffer handles the driver can return
  Hash,     \* alloc_table_hash
  InitCap   \* capacity after vkr_create_runtime (4096)

Empty == 0

ASSUME TableAssumption ==
  /\ Empty \notin Buffers /\ IsFiniteSet(Buffers)
  /\ Hash \in [Buffers -> Nat]
  /\ InitCap \in Nat /\ InitCap >= 3  \* one or two slots could fill up

VARIABLES
  table,  \* alloc_table, indexed from 0
  count,  \* alloc_count
  held    \* handles vkr_malloc returned and the caller has not freed

tableVars == <<table, count, held>>

NoTable(cap) == [i \in 0..(cap - 1) |-> Empty]

TableInit ==
  /\ table = NoTable(InitCap)
  /\ count = 0
  /\ held = {}

-----------------------------------------------------------------------------

Capacity(t) == Cardinality(DOMAIN t)

\* How many steps of a probe lead from b's home slot to slot i.
Distance(t, b, i) == (i + Capacity(t) - (Hash[b] % Capacity(t))) % Capacity(t)

\* The first slot of S on b's probe path; empty if S is.
FirstOf(S, t, b) ==
  LET far == [i \in S |-> Distance(t, b, i)]
  IN  {i \in S : \A j \in S : far[i] <= far[j]}

FreeSlots(t) == {i \in DOMAIN t : t[i] = Empty}

\* Mutant: a record is written to its home slot.
HomeSlot(t, b) == {Hash[b] % Capacity(t)}
\* Where an insertion puts b: its loop ends only at an empty slot.
InsertSlot(t, b) == FirstOf(FreeSlots(t), t, b)

Put(t, b) ==
  LET slot == InsertSlot(t, b)
  IN  [i \in DOMAIN t |-> IF i \in slot THEN b ELSE t[i]]

\* alloc_table_find: probe until b, an empty slot, or the whole table.
Find(t, b) ==
  {i \in FirstOf({j \in DOMAIN t : t[j] \in {b, Empty}}, t, b) : t[i] = b}

\* Mutant: records keep the slots they had.
Copied(t) == [i \in 0..(2 * Capacity(t) - 1) |-> IF i \in DOMAIN t THEN t[i] ELSE Empty]
\* alloc_table_grow: every record, in slot order, into a table twice as large.
Rehashed(t) ==
  LET moved[n \in 0..Capacity(t)] ==
        IF n = 0 THEN NoTable(2 * Capacity(t))
        ELSE IF t[n - 1] = Empty THEN moved[n - 1] ELSE Put(moved[n - 1], t[n - 1])
  IN  moved[Capacity(t)]

\* Mutant: the table grows only when it is full.
FullOnly == count = Capacity(table)
\* The load at which an insertion grows the table first.
MustGrow == count * 10 >= Capacity(table) * 6

\* vkr_malloc: the driver returns a handle it has not given out, and
\* alloc_table_insert records it.
Malloc(b) ==
  LET target == IF MustGrow THEN Rehashed(table) ELSE table
  IN  /\ b \notin held
      /\ \A i \in DOMAIN table : table[i] # b
      /\ InsertSlot(target, b) # {}
      /\ table' = Put(target, b)
      /\ count' = count + 1
      /\ held' = held \cup {b}

\* Mutant: a removal forgets alloc_count.
SameCount == count
\* alloc_count after a removal.
CountDown == count - 1

\* vkr_free of a buffer whose record is found.
FreeFound(b) ==
  /\ b \in held /\ Find(table, b) # {}
  /\ LET slot == Find(table, b)
     IN  table' = [i \in DOMAIN table |-> IF i \in slot THEN Empty ELSE table[i]]
  /\ count' = CountDown
  /\ held' = held \ {b}

\* vkr_free of a buffer whose record is not found: it returns and the buffer,
\* its region and its record stay.
FreeMissed(b) ==
  /\ b \in held /\ Find(table, b) = {}
  /\ held' = held \ {b}
  /\ UNCHANGED <<table, count>>

\* vkr_destroy_runtime and a new runtime.
RenewTable ==
  /\ table' = NoTable(InitCap)
  /\ count' = 0
  /\ held' = {}

TableNext ==
  \/ \E b \in Buffers : Malloc(b) \/ FreeFound(b) \/ FreeMissed(b)
  \/ RenewTable

TableSpec == TableInit /\ [][TableNext]_tableVars

-----------------------------------------------------------------------------
(* Properties.                                                             *)

\* The variables have their types, and the table is never more than four times
\* as large as what it had to hold.
TableTypeOK ==
  /\ table \in [0..(Capacity(table) - 1) -> Buffers \cup {Empty}]
  /\ Capacity(table) \in InitCap..(InitCap + 4 * Cardinality(Buffers))
  /\ count \in 0..Cardinality(Buffers)
  /\ held \subseteq Buffers

Slots(b) == {i \in DOMAIN table : table[i] = b}

\* The while loops of alloc_table_insert and alloc_table_rehash have no other
\* exit than an empty slot, and there always is one.
ProbesEnd == FreeSlots(table) # {}

\* alloc_count, on which growth depends, is the number of records.
CountExact == count = Cardinality(DOMAIN table \ FreeSlots(table))

\* A buffer in use has exactly one record, and no handle has two: removals,
\* growth and probing past holes never drop or duplicate a record.
RecordedOnce ==
  \A b \in Buffers : /\ Cardinality(Slots(b)) <= 1
                     /\ b \in held => Slots(b) # {}

\* Growing the table makes every record findable, also those a removal had
\* cut off from their home slot.
GrowthRepairs ==
  [][Capacity(table') > Capacity(table) =>
       \A b \in Buffers : Slots(b)' # {} => Find(table', b) # {}]_tableVars

\* "the buffer handle is destroyed and the region is made available for reuse"
\* (vkr_free, vkruntime.h): nothing stays recorded that the caller has freed.
FreedIsGone == \A b \in Buffers \ held : Slots(b) = {}
=============================================================================
