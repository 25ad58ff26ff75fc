# VAiST: a TLA+ verification project

VAiST is a set of C libraries for neural-network inference on Vulkan. Most of
its source is numeric: kernels, quantisation tables, tensor wrappers. What can
go wrong in ways a unit test hardly reaches sits in the parts that keep state:
the memory allocator, the worker that serves several remote clients from one
device, the protocol between them, and the caches of the inference layer. This
project models those parts in TLA+, checks them with TLC and proves the most
important invariants with TLAPS.

## 1. Inventory

| Component (src/...) | State it keeps | Operations | Interacts by | What makes it correct |
|---|---|---|---|---|
| **vkdist server** `src/vkdist/vkdist.c` 289-825 | thread table, per session: queue, runtime, command buffer, fence, buffer table; shared: `VkBLASContext`, mutex, queue | `serve_many`, `run_ex` loop, one handler per opcode, teardown | threads, one mutex, one `VkQueue`, sockets | context used by one session at a time; command buffers idle when reused; everything released, each descriptor closed once; result reports the first error; clients never wait for ever |
| **vkdist connection** same file 206-285, 830-1158 | two byte streams, the server's buffer table, the client's call | connect, register, upload, gemm, readback, caps, close | request and reply frames | a remote call is one step on a sequential memory; client and server stay in step |
| **vkdist master** same file 730-746, 1082-1293 | list of workers | accept_many, add_worker, partitioned gemm | several connections | strips cover C exactly once; errors reported; no deadlock in start-up |
| **vkruntime allocator** `src/vkruntime/vkruntime.c` 401-636, 1020-1117 | pools of blocks, free-region arrays, bump cursor | `vkr_malloc`, `vkr_free`, create, destroy | called by sessions, by vkmodel | no byte handed out twice, alignment respected, freed memory comes back |
| **vkruntime record table** same file 328-399 | open-addressing hash table | insert, find, remove, grow | under malloc and free | no record lost or doubled, probes end |
| **vkruntime transfers** 647-721, 1119-1253 | staging buffer | upload, download | queue submit and wait | staging memory outlives the copy |
| **vkblas** `src/vkblas/vkblas.c` 418-600 | pipeline cache, descriptor pool | `ensure_pipeline`, sgemm | used by vkdist under its mutex | one pipeline per key, pool limit respected |
| **paged KV cache** `vulkan/*/c99/llm/src/vaist_llm.c` 390-897 | block bitmap, sequence hash table, replay markers | alloc, free, assign, clear, grow | called by the scheduler | a block belongs to one sequence; cleared blocks return |
| **streaming weight cache** `vulkan/*/c99/model/src/vaist_model_streaming.c` | entries, LRU list, byte budget | prefetch, to_gpu, evict, read | called by layers | list well formed, budget exact, used entries stay |
| **vkmodel loaders** `src/vkmodel/vkmodel.c` 735-2330 | the file, descriptors, tensor buffers, staging, command pool | load GGUF, safetensors, OpenVINO; destroy | called by the application, uses vkruntime | a buffer holds its slice of the file; a slice lies in the file; a failed load leaves nothing; a sound file loads |
| **vkstream** `src/vkstream/vkstream.c` | request slots, staging buffer | load, poll, wait | callbacks | a slot is one load |
| **HTTP server** `vulkan/windows/c++/serve` | `running_`, listening socket, listener thread, detached threads, Winsock count | start, stop, join, destroy; accept, read, route, answer | threads, sockets | the listener ends, join returns, connections end, none starts late |
| vkblas_l1l2, vkmath, vkfft, vkrand, vkquant, vkkv, the graph runner of vkmodel; C99 tensor, attn, linalg, quant, nn | none that interleaves | numeric kernels, text parsing | direct calls | numeric accuracy (not a state property) |
| tokens, npu, xpu, tools/vaist_optim | tables, a JSON cache | string processing, probing, offline search | command line | out of scope |

What is hard: several session threads on one context and one queue; a device
that finishes in its own order and may be lost; sockets that break at any
point; a protocol with no sequence numbers; a product split over workers of
which one fails; sequences of malloc and free that fragment memory; hash tables
that forget tombstones; caches that evict what is in use; sizes taken from a
file that wrap; a server stopped between two steps of its listener.
`PROJECT.json` lists these hazards line by line, with the property that covers
each or the reason none does.

## 2. Modules

```
VkdistServe <-- Servers_proofs               server threads, shared context, device, clients
HttpServe   <-- Servers_proofs               the HTTP server's threads
VkdistRpc  --implements-->  RemoteMemory     one connection, both ends
            <-- VkdistRpc_proofs
VkdistPartition <-- VkdistClient_proofs      the master and its partitioned product
VkrPool     <-- VkrPool_proofs               the sub-allocator
VkrAllocTable <-- VkrAllocTable_proofs       its record table
VkmodelLoad <-- ModelState_proofs            the three model loaders
StreamingCache <-- Caches_proofs             the streaming weight cache
PagedKv     <-- Caches_proofs                blocks and sequences of the paged KV cache
ReplayMarkers <-- Caches_proofs              its replay markers
DataLemmas                                   numbers, remainders, functions given by recursion
MCVkdistRpc, MCVkrPool, MCVkrAllocTable, MCVkmodelLoad
                                             constants and files for TLC
MCVkruntime                                  VkrPool and VkrAllocTable
MCVkdistClient                               VkdistRpc (MCVkdistRpc) and VkdistPartition
MCServers                                    VkdistServe and HttpServe
MCModelState                                 VkmodelLoad (MCVkmodelLoad), StreamingCache, PagedKv, ReplayMarkers
```

The last four modules put components that share no state into one instance: a variable
`part`, chosen at the start, says which of them a behaviour runs, and the others
stand still. Their state spaces add up instead of multiplying, and nothing is
lost, because in the program these parts do not interact.

Data is abstracted to what the properties tell apart; control is kept. A module
starts with a comment that says what it stands for, and the `map` of
`PROJECT.json` gives, for each definition, the lines it translates.

### VkdistServe - `vkdist_server_serve_many`

The main thread has its own program counter (`spawn`, `join`, `abort`,
`returned`) and loop index; each session thread walks the labels of
`vkdist_server_run_ex`. A request is one of eight kinds, according to what its
handler does to the shared state. A session's step boundaries are the points
where another thread, the device or the client can be seen: taking and giving
the mutex, cache look-up and pipeline creation (kept apart although the lock
covers both, so that the lock is what makes them atomic), submitting, waiting,
replying. `held` is the set of rungs of the setup ladder that a session has taken, `label`
the `out_*` label at which its teardown goes on: a failing call jumps to the label the
code names for it (`ExitLabel`), each label releases its rung and falls through to the
next (`ReleaseRung`), and the last one closes the socket. `closed` is how many times
each descriptor was closed. `link` tells how a client left: with BYE, by a close
between two frames, by one within a frame, or by a reset. Submissions finish in any order; `awaited` records
what a `vkQueueWaitIdle` saw when it was called. A lost device finishes all.

Runs: `serve` (two connections, two requests each, a pool of two descriptor
sets, so that exhaustion is reached) checks safety under every fault except a
wait that fails while the device works on; `serve_cut` (one session, one request)
and `serve_queue` show one violation each, below; `serve_live` (one request each)
checks liveness. Two sessions are
enough because every property is about one session or a pair, and a third adds
no new kind of step; two requests let a command buffer be reused.

*Fairness.* Weak fairness of the main thread, of each session thread, of the
device's completion of each submission, and of a client that waits in `recv`
for bytes or for a close: these are the operating system's scheduler, a device
that is not hung, and TCP delivery on a live link. Nothing is assumed of
clients that do not have to send or to leave, of faults, or of the mutex being
handed over fairly: weak fairness of `SessionStep` is enough because a
client blocks between its calls.

*The excluded fault.* If `vkWaitForFences` or `vkQueueWaitIdle` fails without
the device being lost (host memory, say), the code resets and reuses a pending
command buffer (vkdist.c:340-346): with `"wait"` in `Faults`,
`CommandBufferIdle` is violated. The Vulkan specification leaves the program
little else to do then, so the run excludes the fault instead of reporting it.

### VkdistRpc and RemoteMemory - one connection

`VkdistRpc` has the client's call in progress, the two directions of the
socket as queues of frames and the server's handlers with its buffer table. A
buffer's content is one value; byte lengths and offsets are left out. `Cut`
breaks the link at any moment and may lose what is in flight; the server learns
of it when it next receives, the client when it next sends or receives.
`Reconnect` is the next session.
`ReceiveAdrift` is the answer to another opcode than the one asked for, after which the
code leaves the socket usable; in `Spec` that does not occur, and in `SpecGivesUp`, with the
readback that returns without its reply, it does. `RemoteMemory` is what the client may rely on:
a call that returns `VK_SUCCESS` took effect once between its start and its
return, a call that fails took effect once or not at all, and while the
connection stands no call ends without the server's answer.
`ImplementsRemoteMemory` is the refinement: the memory is the table while
the connection is up, the outcome of the call is the reply in the socket.

Run `rpc`: three buffers (a gemm with three different operands, and a full
table), three values, a product that tells its operands apart, and device,
memory and link failures. Handles are drawn from 1..3 also before they are
registered, so that bad handles occur.

### VkrPool - `vkr_malloc`, `vkr_free`

Blocks with a bump cursor and an array of free regions in the order the code
keeps it (removal moves the last region into the hole; extension takes the first region
that abuts). `BlockAlloc` is first fit with alignment; `Carve` gives the upper
remainder back **before** it shrinks the region it cuts, as the code does,
so the add runs on a list in which the carved region is still whole. Failures:
no memory, a free-region array that cannot grow, a bind or a record that fails
after the region was carved. One pool stands for all memory types. Sizes are in
units of the smallest alignment; the array's first capacity is 1 instead of 16
so that growth happens with few regions.

Run `vkruntime`: four handles, two blocks of three units, requests of 1, of 2
aligned to 2, and of 5 aligned to 2 (larger than a block, so a block of its own).
Handles are symmetric.

### VkrAllocTable - the record table

Probing by distance from the home slot, insertion at the first empty slot,
growth at 60 % into a doubled table in slot order, removal without tombstone.
In the same run: six handles whose hashes collide, initial capacity 4: the table grows to 16
slots in two steps. The hash is a constant function; the multiplicative hash of
the code is not computed, because only collisions matter. Any capacity of 3 or more
serves (the code starts with 4096): with fewer slots 60 % may be all of them, and
a probe would not end.

### VkdistPartition - `vkdist_master_*`, `vkdist_sgemm_partitioned`

The master's list of workers, each worker's session and how many buffers it
holds, and the product in progress: the strip being worked on (`w`, `start`), the
remote call it has come to (three registrations, three uploads, gemm, readback),
and what the worker holds of B and C. Column j of B is the number j, and a
column of C is the list of the B columns accumulated into it, so that a column
done twice, not at all, or by another's B is seen. A call fails because the
connection was cut, the worker's table is full, or the worker says so; the strip then
ends and the loop goes on with the next one, as in the code. A remote call
is one step here because `VkdistRpc` shows that it is one.

In the run: three workers, products of 2 columns (fewer than workers: empty
strips) and of 5 (uneven ones), two products per master, a table of four (full in the
second product).

### HttpServe - `vaist_http_server.cpp`

The caller (start, stop, join, the destructor), the listener thread between its
check of `running_`, `accept` and starting a thread, and per client the backlog, the
detached thread (read, route, generate, answer and close) and the client's own
end. `running_` and the listening socket are two variables, set in the code's
order, so that `stop` falls between any two steps of the listener.
A request is `part` of one, `plain` or `generate` when it is whole, `bare` when it is
whole but has no header line, or `unnumbered` when its Content-Length is no number
or too big a one; more of it may arrive before each `recv`. `ReadRequest` and
`ReadFails` follow `read_request`: a bare request does not parse, so that the
thread goes on receiving; `ReadThrows` is the exception of `std::stoull` that
leaves the detached thread and ends the process. `start` may fail in WSAStartup, which
leaves the count raised, or at the listening socket.
`CallerJoins` says whether the caller joins before it destroys the server, as
`vaist_serve.cpp` does; with FALSE it follows the lifecycle in the header.

*Fairness* (`HttpFairness`): weak fairness of the listener's check, of its
failing `accept` once the socket is closed (on Windows a closed socket makes
`accept` return), of starting the thread of an accepted connection, of each
connection thread, and of the calls the caller is already in (`CloseListenFd`,
`JoinReturns`, the destructor): the system's scheduler, and a `generate` that
ends.
Nothing is assumed of clients, of when the caller stops, or of `accept` choosing
a client; a connection is promised its end only once its client has sent a
request that can be read or gone (`ConnectionEnds`), because a receive time-out in the code starts the
next wait; a bare request is no such request, and after an unnumbered one there is
no process. One client is enough: connections share only the listener, and what
it does with a second is what it does with the first. Two starts reach a
restart.

### VkmodelLoad - `vkmodel_load`, `_safetensors`, `_openvino`, `vkmodel_destroy`

A load climbs a ladder of resources (`Ladder`, per format), fills one descriptor
per tensor or refuses the file, creates its command pool, and for each tensor
allocates a buffer and uploads its slice in chunks. `live` is the set of resources
that exist; each failing step says what its path gives back (`AcquireFails`,
`ScanRefuses`, `FillFails`): what a failing scan of a topology had parsed of a tag (1884), or
popped of its stack (1905, 1914), it forgets. A file
is described by its declared shapes, sizes and offsets and its length; the
byte at position p is the number p, so that a buffer's content tells where it
was read. Sizes are unsigned words of `Word` values and wrap where the code's
do. `phase = "crashed"` is the walk over an array that was never allocated
(841, 845), and the filling of an array that a topology with too many tensors
never got (`TooMany`, 2233 and 2143).

`Scan` is `vkmodel_ov_scan_layers` as far as it decides anything: it goes through the ports
of all layers, constant or not, in the order of the document, and appends each text to
`dim_text`. A `<dim>` that ends in an output port is read and the text is reset - but
only while its layer has fewer than `VKMODEL_MAX_DIMS` dims (1899): the text of one that is
too many stays, comes before the first dim of a later port or layer, and fails the load
when it is no number or passes the buffer. A port with an end tag clears the flag that
the next one sets again (2004), so that the dims of all output ports of a layer are
collected. A text is the number it reads as, its length and whether it is all
digits; `DimText` is the 63 usable bytes of the buffer.

A tensor is `Sound` if its shape has dims that `VkModelTensor` has room for, its
element count, rounded up to a block, fits 64 bits, and its slice lies in the
file. A topology is `Plain` if no layer, constant or not, has a second output port, or one
without an end tag or with more dims than are collected, and each dim of an output is a
positive number that the buffer and the parser hold: the others the loader may refuse or
misread without a word, and `SoundFileLoads` and `OpenVinoSound` leave them out (a
tensor that declares its own shape is sound in every accepted model). An element type that
the tables do not know has size 0.

In the run `Word` is 64 and the chunk 4, so that element counts wrap (8 by 8 to zero, 9 by 8 to
eight), tensors need one, two or an uneven number of chunks, and files end at, before and after the last
byte. Topologies combine what may come before a layer (nothing, an input port, a layer with
as many dims as are collected, one more, so many that the text overflows, a dynamic dim, two
ports, a port without an end tag) with its own ports. `BuffersExact` speaks of slices whose position does not wrap: GGUF does not
check for that (945), and `BehindTheEnd` is such a file.

### StreamingCache - `vaist_model_streaming.c`

The slots with name, buffers, reference count and list links, the list's ends
and `resident_bytes`, and beside them the references each caller holds. `_lru_remove`
and `_lru_push_front` are operators on the cache; prefetch, `to_gpu`,
`evict_gpu` and read are actions, with their failures. A buffer's content is
the name of the tensor copied into it. Three slots, four tensors, a budget of
four bytes and a tensor of five: eviction for a slot, for the budget, and in vain.
One tensor may have two references. `MaxResident` bounds
`resident_bytes`, which drifts upwards (229).

### PagedKv and ReplayMarkers - `vaist_llm.c`

The bitmap and its counter, the open-addressing table from sequence ids to
block lists, and what the caller holds and has assigned. The caller
follows the API's rules (it assigns only blocks it was given, once, in any order). Growth at 75 % rehashes in slot order;
an assignment that finds no memory for its list has grown the table and counted the entry.
`clear_seq` empties a slot without a tombstone; `cut` records the sequences this
cuts off, so that `BlockTableExact` can say that no other is affected. Four blocks,
three sequences of which two collide before growth and after it,
a table of four.

`ReplayMarkers` is the sorted array with its growth and binary search (`Halved`
is one round of its loop), compared with the largest marked position not after
the one asked for. The array grows also for a position that is marked already, as in the code.

## 3. Runs

| Run | Distinct states | Shows |
|---|---|---|
| `serve` | 4.2 million | mutual exclusion on the context, one pipeline, idle command buffers, clean return, `VK_SUCCESS` only if each session ended by its client leaving |
| `serve_live` | 136 thousand | vkdist: client calls return, `serve_many` returns when clients have left; HTTP: `join` comes back, connections end, no thread after `join` |
| `serve_queue` | violation | two threads inside calls on one `VkQueue` |
| `serve_cut` | violation | a frame that breaks off is taken for a clean end |
| `rpc` | 365 thousand | refinement of a sequential memory, lock-step; a partitioned product is whole or reported, its buffers bounded |
| `rpc_stale` | violation | a readback answers with an earlier readback's data |
| `vkruntime` | 182 thousand | no overlap, sound free list, alignment, no byte lost on free; no record lost or doubled, probes end, growth repairs |
| `alloc_table_freed` | violation | a freed buffer stays recorded, its region leaks |
| `model_state` | 383 thousand | loaders: exact buffers, what a failure may leave, sound files load, slices inside the file; weight cache: list, budget, contents, counts; KV cache: blocks owned once, block tables exact, look-ups end, nearest marker |
| `load_release` | violation | a GGUF load without memory for an array crashes instead of releasing what it has |
| `streaming_refs` | violation | a tensor with a reference is evicted |
| `http_lifecycle` | violation | a server that was stopped is destroyed with a joinable thread |

Every property of a passing run has a mutant in `PROJECT.json`: an operator
beside the original (`\* Mutant: ...`) that a plausible slip would produce, and
which makes TLC report the property as violated.

### Findings

1. **Queue shared without synchronisation** (vkdist.c:338). The header calls
   concurrent submits safe; every session uses the same `VkQueue`, which Vulkan
   requires to be externally synchronised.
2. **Reply left in the socket** (vkdist.c:1056). A readback that cannot allocate
   returns after its request has been sent; the next one takes the old reply.
3. **Record lost behind a removed one** (vkruntime.c:393). No tombstone: the
   later `vkr_free` finds nothing and leaks.
4. **Referenced tensors are evicted** (vaist_model_streaming.c:226). The header
   calls an entry evictable when its reference count is 0; neither eviction loop
   looks at the count, and a caller keeps a pointer to freed memory.
5. **stop() does not wait** (vaist_http_server.cpp:330). The header says it does;
   the destructor joins only while `running_` is set, which `stop` has cleared,
   so that the header's own lifecycle ends in `std::terminate`. `vaist_serve`
   calls `join` itself and is safe (`WinsockKept` and the run `serve_live` assume
   the same).
6. **A cut frame counts as success** (vkdist.c:238). VKDIST-DESIGN.md:241 calls a
   frame that is truncated an error; `vkdist_frame_recv` reports it as it reports a
   close between two frames, and `serve_many` returns `VK_SUCCESS`.
   `SuccessMeansServed`, which passes, therefore counts both as a client that left.
7. **A load without memory crashes** (vkmodel.c:841, 845). vkmodel.h promises that a
   failure releases all partial state; the counts are set before the arrays exist, and
   the clean-up walks an array that is not there.

Properties that hold only with an exception the code needs name it:

| Property | Exception | Code |
|---|---|---|
| `SuccessMeansServed` | a client that breaks off within a frame has left (finding 6) | vkdist.c:238 |
| `CommandBufferIdle` | the fault `"wait"`, not in the run, see above | vkdist.c:345 |
| `FreeReturnsRegion` | the region array is full and cannot grow | vkruntime.c:468 |
| `InStep`, `ImplementsRemoteMemory` | the readback that gives up, shown by `rpc_stale` | vkdist.c:1056 |
| `BlockTableExact` | sequences cut off by a cleared slot | vaist_llm.c:798 |
| `BudgetKept` | one tensor that is over the budget by itself | vaist_model_streaming.c:286 |
| `BuffersExact` | a declared offset that wraps | vkmodel.c:945 |
| `FailureLeaves` | the tensor array a safetensors load forgets; the tag parts and the popped name a failing scan forgets; the two crashes: missing arrays (finding 7) and too many OpenVINO tensors | vkmodel.c:1255, 1884, 1905, 1914, 841, 2233 |
| `SoundFileLoads`, `OpenVinoSound` | topologies that are not `Plain`; a model with too many tensors is refused or crashes | vkmodel.c:1899, 2004, 2231 |
| `ConnectionEnds` | a request without a header line (the smallest one, as the comment at 181 has it) waits for its client to go; a bad Content-Length ends the process | vaist_http_server.cpp:196, 150 |

Three comments differ from the code without a run of their own, as the models follow the
code and the table above names the effect: vkmodel.c:1916 says that the text of a dim is
reset across layers, vkmodel.c:1341 that the dims are those of the first output port,
and vkruntime.c:426 that a free region is merged with any neighbour
(`free_region_add` returns after the first one it finds).

## 4. Proofs

Every invariant and every action property of the passing runs is also a theorem
of its component's specification, for all values of the constants that the
named assumptions allow; so is the refinement of `RemoteMemory`. The liveness
properties are not (see the end of this section).

### The allocator and its table

`VkrPool_proofs` proves, for any set of handles, number of blocks, block size,
request sizes, alignments and failures (assumption `PoolAssumption`: naturals,
and sizes above zero):

- `PoolInvariant`: `Spec => []PoolInv`, with
  `PoolInv == TypeOK /\ FreeListSound /\ FreeUnused /\ NoOverlap`;
- `LiveBuffersDisjoint`: no two live buffers share a byte;
- `FreeMemoryUnused`, `FreeListsSound`: what can be handed out again is not in
  use, and the free regions of a block are disjoint;
- `FreeLosesNothing`: a free makes all the buffer's bytes available and keeps
  all that were, unless the array is full and cannot grow;
- `LiveBuffersAligned`: buffers are aligned, assuming `AlignmentsNest` (of two
  alignments the larger is a multiple of the smaller, as powers of two are).

`NoOverlap` is not inductive: a new buffer is disjoint from the old ones only
because it is taken from a free region or the tail, and these are clear of live
buffers (`FreeUnused`), which survives a free only if free regions are
themselves disjoint and below the cursor (`FreeListSound`). The proof follows
the code's operators: lemmas on removing, resizing, merging and appending a region,
on `FreeRegionAdd` for a region that is clear of the list (`AddSound`), and -
the delicate one - on the call `Carve` makes while the region being cut is still whole in the
list (`CutSound`, with the weaker `SoundBut` and `ClearBut`, which exempt that
region). `AllocSound` collects what an allocation gives, `StepSound` and
`VacateSound` lift it from one block to the state, and the theorem has one step
per action. `FreeLosesNothing` follows the bytes instead of the regions:
`ResizeKeeps`, `RemoveKeeps` and `MergeKeeps` say what each operator costs, and
`FreeStep` that no other action can free a buffer. Alignment needs division with remainder
(`Multiple`, `Divides`), and that the pool's alignment is always that of some
request (`AlignInv`).

`VkrAllocTable_proofs` proves the record table's properties of the run `vkruntime` for any
buffers, home slots and initial capacity from 3 on. The invariant `TableInv` needs
besides the type only that no handle is recorded twice, that all handles in use are
recorded, and that the count is right and below the capacity: so there is always
a free slot (growth at 60 % keeps it so), each probe stops (`ProbesEnd`), each insertion
lands (`CountExact`, `RecordedOnce`). What a rehash yields is a recursion over
the slots of the old table; `RehashedIs` shows by induction over them that the new
table has the same records, each once, and none with an empty slot before it on
its own probe sequence (`Reachable`, from which `GrowthRepairs`).

### The servers

`Servers_proofs` proves all the safety properties of the run `serve` for any
number of connections, requests, descriptor sets, kinds and faults
(`ServeAssumption`). They are theorems of `SafetySpec`; fairness plays no part:

| Theorem | Property | Rests on |
|---|---|---|
| `ServeTypeOK` | `TypeOK` | `LoopInv`: what spawn, join and abort know of the loop index and of the threads that exist |
| `ContextExclusive` | `BlasExclusive` | `LockInv`: a session is between lock and unlock exactly when it owns the mutex |
| `OnePipeline` | `PipelineCreatedOnce` | `CacheInv`: what a session's look-up found still holds when it builds; needs `LockInv` |
| `CommandBufferIsIdle` | `CommandBufferIdle` | `DeviceInv`: pending work has its session waiting, and a `vkQueueWaitIdle` waits for its own work too; assumes `"wait" \notin Faults` |
| `ServeReturnsClean` | `ReturnsClean` | `CleanInv`: threads before the join index are over, and a thread's place tells which rungs it holds (in its teardown, those below its label), and whether its descriptor is closed; with `LockInv`, the mutex is free |
| `SuccessIsServed` | `SuccessMeansServed` | `ResultInv`: as long as the result is success, all joined sessions reported it, and a session does so only of a socket its client has left; needs `CleanInv`, because a joined session's status must not change any more |

The properties are not inductive alone (two sessions inside the context is
excluded by what the lock says of the rest of the code, the count of closes by
where each thread is). The invariants are definitions of `VkdistServe`. To keep
the proofs short, frame lemmas (`MainFrame`, `ContextFrame`, `DeviceFrame`, `ClientFrame`,
`SessionFrame`) say once which actions touch which variables, and `SessionTyped`,
`OutsideContext`, `AwayFromDevice`, `LadderStep`, `Held` and `Holdings` say what a session's steps
have in common; each theorem then looks only at the actions that matter to it.

`NoThreadAfterJoin` follows from `ServerInv` (the listener is over when the
caller is back from `join`), and so does `WinsockKept`, for a caller that joins and a WSAStartup
that does not fail, and any number of HTTP clients and starts: theorems of `HttpSpec` that do not use its fairness.

### The client's side of vkdist

`VkdistRpc_proofs` proves the protocol for any table
size, values, product function and faults (`RpcAssumption`). `InStep` is not
inductive: that a reply belongs to the pending call needs that at most one
frame is on its way, that the table lists handles in the order they were given
out, and what a leaving client has sent. `RpcInv` is the conjunction of `TypeOK`,
`InStep` and these parts. `RefinesRemoteMemory` then maps each
step: `Mem` is the table while the connection stands, `Outcome` the reply that is in the
socket; a server step that writes is the abstract call's effect, a step that
loses the reply decides that the call fails after its effect, the others stutter. One
lemma per action (`RegisterStep`, ..., `ReconnectStep`), and `RefinesNext`
collects them.

`VkdistClient_proofs` proves `ProductExact` for any number of workers and any
widths, by `GroupInv`: the strips so far have covered the columns below `start` once, the strip's
buffers hold what its step says, and every finished strip succeeded or
the result is a failure. `ThreeBuffersEach` needs that no worker is added twice (`AddedOnce`).
`ClientTypes` joins this and `RpcInv` to the type invariant of the instance
`MCVkdistClient`.

### The model loaders

`ModelState_proofs` proves the loader's properties for any files, word size and
chunk (`LoadAssumption`: only GGUF has blocks, only OpenVINO ports).
`FailureLeaves` rests on `LoadInv`: in each phase what is live lies within what
the failure paths of that phase give back or the property lists (for an OpenVINO load also which of
the two early resources the ladder's position excludes, as they are freed on the way),
and a crash has one of its two reasons.

The other properties rest on `ExactInv`, which adds that each filled tensor is what
its accepted description says (`Filled`), that the tensors before the current one
are read to their end and the current one up to `done`, with the reader at the
place that follows (`Progress`), and `SoundFileLoads` itself. The arithmetic is in
lemmas about the model's operators: `ProductIs` (the product of dims, by induction over
their number), `AlignUpIs` (`vkmodel_align_up` finds the least multiple),
`SizeFits`, and the two that relate the code's wrapped checks to plain
integers: `SoundAccepted` (a sound tensor passes the checks of its format and nothing
wraps) and `AcceptedSound` (what the OpenVINO checks let through is sound).
`BuffersExact` is `Progress` at the end of the load.

What the scan of a topology yields is a recursion over the ports and, in each, over its
dims (`ScanSteps` gives its equations). `PlainPort` and `PlainScan` show by induction over both
that in a plain topology the text is empty whenever a port begins, that the scan refuses
nothing, and that each layer has the dims of its one output port (`DimsPlain`): so
whatever comes before a layer, nothing of it is carried over.

### The caches

`Caches_proofs` proves the properties of `PagedKv`, `ReplayMarkers` and
`StreamingCache`, for any sizes, sequences, positions, tensors and failures.

- *Paged cache*, `PagedInv`. `UsedBlocksCounted` stands alone: blocks taken and
  given back by a failed allocation cancel out, and a free counts only what was marked.
  `LookupsEnd` needs that `seq_count` is never below the entries and was below
  75 % of the capacity when it last grew by one (`CountsFit`). `PagedAccounts` needs that used blocks
  are exactly those held or listed (`OwnersFit`), which a rehash keeps
  because it keeps the set of entries (`MovedOver`, `RegrownIs`: induction over the old
  slots). `BlockTableExact` needs `Exact`: the list of a sequence that is not cut
  off is that of its only entry, and no free slot is before it on its probe
  sequence; placing an entry elsewhere keeps that, and removing one breaks it for exactly those
  whose probes passed over the slot, which is what `cut` collects.
- *Markers*, `MarkersInv`: the array is strictly increasing and is what was
  marked. `BeforeIs` shows that the smaller markers are a prefix, so the
  insertion keeps the order; the binary search keeps the answer inside its
  window, which shrinks each round (`Around`, induction over the rounds), so that as many
  rounds as there are markers are enough.
- *Streaming cache*, `StreamInv`: there is a sequence of slots without
  repetition whose links are `next` and `prev`, and it is what is on the GPU
  (`ListIs`, `InList`); slots and buffers agree (`HoldsNames`); the byte counter is
  not below what is resident (`Counted`), and that is within the budget or one tensor
  alone (`Fits`); an entry's references are between one and the callers' (`CountedIn`). Unlinking drops one element of that sequence,
  pushing puts one in front. The eviction loop of `to_gpu` is a recursion over its rounds: each takes
  the tail away and lowers the counter by no more than the tail's bytes, so
  it ends with the budget kept or the list empty (`LeftAfter`), and the counter does not
  wrap.

`ModelStateTypes` joins the four invariants to the type invariant of the
instance `MCModelState`.

### Recursion, and what is only model-checked

`DataLemmas` holds what these proofs share: least elements and minima, remainders and
quotients, that the first free slot of a probe sequence exists (`ProbeSteps`), and the two
facts that stand in for induction theorems with an operator parameter, stated over sets and functions:
`IntervalInduct` (a set that contains 0 and with n also n + 1 contains the interval) and
`StepFunction` (a function given by a first value and a step for each argument
exists; with it a recursive definition satisfies its own equation). With them what the models'
recursive functions compute - rehashes, evictions, searches, products - is proved, not only checked.

Liveness is out of the prover's reach and stays with TLC: `CallsReturn`,
`ServeReturns`, `JoinComesBack` and `ConnectionEnds`.

## 5. Not modelled

About half of the repository's implementation lines are SPIR-V binaries as C
arrays (`shaders_spv.h`), and most of the rest are numeric kernels and the
Vulkan boilerplate that dispatches them: straight lines without
state of their own, whose correctness is accuracy in floating point. They are left out,
as are the tokenizer, device probes and the offline tuning tool.

Parts with state that are left out, and why:

- the graph runner of vkmodel and the metadata accessors: a fixed list of
  dispatches over buffers, without a decision that depends on earlier ones;
- the JSON and XML syntax of the loaders: `VkmodelLoad` starts from declared values
  and, for a topology, from its ports and the texts of their dims; the collecting of
  dims is modelled, an allocation that fails within it (the copy of a shape or of
  an element type) and white space around a number are not;
- `accept_many` and the SSH key check of the master: the deadlock the first
  allows is listed as a hazard, but nothing in the repository runs one server
  with several connections of one master;
- `write_tensor` and the views of the paged cache (address computation and a
  copied list), the scheduler and sampler of the LLM runtime (data only), and the inference
  engine behind `generate`;
- opening and mapping the streamed file, and dequantization;
- vkstream: a synchronous prototype without a test; its request search is
  listed as a hazard;
- vkkv: linear fits and one dispatch.

Inside the modelled parts: byte lengths and offsets of transfers, the tiers of
vkblas's pipeline cache, SIGPIPE on a closed socket, several pools of one
runtime.

## 6. Plan

Done: the allocator, the vkdist server, connection and master, the model
loaders, the two caches, the HTTP server, and the proofs of section 4.

What would come next, in this order:

1. `accept_many` and `add_worker` composed, for the start-up deadlock
   (vkdist.c:736): one server, two connections of one master.
2. vkstream's request slots, once the code gives it an asynchronous path.
3. The pipeline cache of vkblas with its 256 slots and fallback tiers.
4. `VkrPool` and `VkrAllocTable` composed, as `vkr_malloc` composes them, with
   the theorem that a buffer whose record is found is freed once.
