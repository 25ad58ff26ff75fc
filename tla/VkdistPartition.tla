--------------------------- MODULE VkdistPartition ---------------------------
(***************************************************************************)
(* The master of a group of vkdist workers (src/src/vkdist/vkdist.c) and   *)
(* the gemm it splits among them: every worker gets all of A, a strip of   *)
(* columns of B and C, and its result is merged into the caller's C.       *)
(*                                                                         *)
(* Column j of B is the number j; column j of C is the sequence of the     *)
(* B columns that have been accumulated into it.  A remote call either     *)
(* succeeds on the worker or fails: the connection is cut, the worker's    *)
(* table is full, or the worker answers with an error.                     *)
(***************************************************************************)
EXTENDS Integers, FiniteSets, Sequences

CONSTANTS
  Workers,      \* the workers a master may add
  MaxWorkers,   \* VKDIST_MASTER_MAX_WORKERS
  Widths,       \* values of n, the columns of a product
  TableSize,    \* VKDIST_MAX_BUFFERS, the buffers one session may register
  MaxProducts,  \* bound on the products of a master
  GroupFaults   \* subset of {"add", "cut", "error"}

ASSUME GroupAssumption ==
  /\ IsFiniteSet(Workers) /\ MaxWorkers \in Nat \ {0}
  /\ Widths \subseteq Nat \ {0} /\ Widths # {}
  /\ TableSize \in Nat /\ MaxProducts \in Nat

VARIABLES
  master,    \* "none", "live", or "product" while a product is running
  fds,       \* m->fds: the workers added, in order
  session,   \* of each worker: "closed", "open", or "cut"
  table,     \* buffers registered in each worker's session
  strip,     \* the running product: [n, w, start, step, b, c, result]
  cols,      \* the caller's C: column -> what was accumulated into it
  before,    \* C when the product was called
  products   \* products called

groupVars == <<master, fds, session, table, strip, cols, before, products>>

Columns == UNION {1..n : n \in Widths}
Added == {fds[i] : i \in DOMAIN fds}
NoStrip == [n |-> 0, w |-> 1, start |-> 0, step |-> 0, b |-> <<>>, c |-> <<>>, result |-> "success"]

GroupInit ==
  /\ master = "none" /\ fds = <<>>
  /\ session = [k \in Workers |-> "closed"] /\ table = [k \in Workers |-> 0]
  /\ strip = NoStrip
  /\ cols = [j \in Columns |-> <<>>] /\ before = cols /\ products = 0

-----------------------------------------------------------------------------
(* The master and its workers.                                             *)

MasterCreate ==
  /\ master = "none" /\ master' = "live"
  /\ UNCHANGED <<fds, session, table, strip, cols, before, products>>

\* vkdist_master_add_worker: the key check, connect and query_caps.
AddWorker(k) ==
  /\ master = "live" /\ Len(fds) < MaxWorkers /\ session[k] = "closed"
  /\ fds' = Append(fds, k) /\ session' = [session EXCEPT ![k] = "open"]
  /\ UNCHANGED <<master, table, strip, cols, before, products>>

\* A worker whose capabilities cannot be read is closed again.
AddWorkerFails(k) ==
  /\ "add" \in GroupFaults
  /\ master = "live" /\ Len(fds) < MaxWorkers /\ session[k] = "closed"
  /\ UNCHANGED groupVars

\* vkdist_master_destroy: each worker gets a BYE, and frees its session.
MasterDestroy ==
  /\ master = "live" /\ master' = "none"
  /\ fds' = <<>>
  /\ session' = [k \in Workers |-> IF k \in Added THEN "closed" ELSE session[k]]
  /\ table' = [k \in Workers |-> IF k \in Added THEN 0 ELSE table[k]]
  /\ UNCHANGED <<strip, cols, before, products>>

\* A connection breaks; the worker frees its session.
WorkerCut(k) ==
  /\ "cut" \in GroupFaults /\ session[k] = "open"
  /\ session' = [session EXCEPT ![k] = "cut"] /\ table' = [table EXCEPT ![k] = 0]
  /\ UNCHANGED <<master, fds, strip, cols, before, products>>

-----------------------------------------------------------------------------
(* vkdist_sgemm_partitioned.                                               *)

Steps == <<"registerA", "registerB", "registerC", "uploadA", "uploadB", "uploadC", "gemm", "readback">>

\* Mutant: every worker gets the same share.
SameShare(n, w, start) == n \div Len(fds)
\* n_i.
Share(n, w, start) == IF w = Len(fds) THEN n - start ELSE n \div Len(fds)

\* How many columns the strip of the running worker has.
Width == Share(strip.n, strip.w, strip.start)

\* What each step leaves with the worker.
StripAfter(step) ==
  CASE step = "uploadB" -> [strip EXCEPT !.b = [i \in 1..Width |-> strip.start + i]]
    [] step = "uploadC" -> [strip EXCEPT !.c = [i \in 1..Width |-> cols[strip.start + i]]]
    [] step = "gemm" -> [strip EXCEPT !.c = [i \in DOMAIN @ |-> Append(@[i], strip.b[i])]]
    [] OTHER -> strip

\* The caller's C once the strip has been copied to the place it starts at.
Merged ==
  [j \in Columns |-> IF j - strip.start \in DOMAIN strip.c THEN strip.c[j - strip.start] ELSE cols[j]]

Product(n) ==
  /\ master = "live" /\ fds # <<>> /\ products < MaxProducts
  /\ master' = "product" /\ products' = products + 1
  /\ strip' = [NoStrip EXCEPT !.n = n, !.step = 1]
  /\ before' = cols
  /\ UNCHANGED <<fds, session, table, cols>>

InProduct == master = "product" /\ strip.w <= Len(fds)
Worker == fds[strip.w]
StepName == Steps[strip.step]
\* Mutant: each upload registers a buffer of its own.
OnUploadToo == strip.step <= 6
Registers == StepName \in {"registerA", "registerB", "registerC"}
TableFull == Registers /\ table[Worker] = TableSize

NextStrip(result) ==
  [NoStrip EXCEPT !.n = strip.n, !.w = strip.w + 1, !.step = 1, !.result = result,
                  !.start = strip.start + Width]

\* A worker with no column is passed over.
StripEmpty ==
  /\ InProduct /\ Width <= 0
  /\ strip' = [NextStrip(strip.result) EXCEPT !.start = strip.start]
  /\ UNCHANGED <<master, fds, session, table, cols, before, products>>

\* One remote call for the strip; the last one merges the result into C.
StripStep ==
  /\ InProduct /\ Width > 0 /\ session[Worker] = "open" /\ ~TableFull
  /\ strip' = IF StepName = "readback" THEN NextStrip(strip.result)
              ELSE [StripAfter(StepName) EXCEPT !.step = @ + 1]
  /\ cols' = IF StepName = "readback" THEN Merged ELSE cols
  /\ table' = IF Registers THEN [table EXCEPT ![Worker] = @ + 1] ELSE table
  /\ UNCHANGED <<master, fds, session, before, products>>

\* The first failure is the result, and the other workers go on.
ResultOfFailure == "error"
StripFails ==
  /\ InProduct /\ Width > 0
  /\ session[Worker] = "cut" \/ TableFull \/ "error" \in GroupFaults
  /\ strip' = NextStrip(ResultOfFailure)
  /\ UNCHANGED <<master, fds, session, table, cols, before, products>>

ProductDone ==
  /\ master = "product" /\ strip.w > Len(fds)
  /\ master' = "live"
  /\ UNCHANGED <<fds, session, table, strip, cols, before, products>>

GroupNext ==
  \/ MasterCreate \/ MasterDestroy
  \/ \E k \in Workers : AddWorker(k) \/ AddWorkerFails(k) \/ WorkerCut(k)
  \/ \E n \in Widths : Product(n)
  \/ StripEmpty \/ StripStep \/ StripFails \/ ProductDone

GroupSpec == GroupInit /\ [][GroupNext]_groupVars

-----------------------------------------------------------------------------
(* Properties.                                                             *)

StripType ==
  [n : Nat, w : Nat, start : Nat, step : 0..8, b : Seq(Columns), c : Seq(Seq(Columns)),
   result : {"success", "error"}]

\* The variables have their types; a session's table never holds more than fits.
GroupTypeOK ==
  /\ master \in {"none", "live", "product"} /\ fds \in Seq(Workers)
  /\ session \in [Workers -> {"closed", "open", "cut"}]
  /\ table \in [Workers -> 0..TableSize]
  /\ strip \in StripType
  /\ cols \in [Columns -> Seq(Columns)] /\ before \in [Columns -> Seq(Columns)]
  /\ products \in 0..MaxProducts

Finished == master = "live" /\ strip.n > 0
Updated(j) == cols[j] = Append(before[j], j)

\* A product that succeeds has added to every column its own product, once: the
\* strips cover the columns and do not overlap, whatever n and the number of
\* workers are and whatever failed before.  One that fails leaves each column as
\* it was or wholly updated: the caller's C is never torn within a column.
\* Columns past n are not touched.
ProductExact ==
  /\ Finished /\ strip.result = "success" => \A j \in 1..strip.n : Updated(j)
  /\ \A j \in Columns : cols[j] = before[j] \/ (Updated(j) /\ j <= strip.n)

\* Nothing releases the buffers of a product before the master goes; but it
\* leaves no more than three with a worker, so that a healthy worker serves at
\* least TableSize \div 3 products before it turns one away.
ThreeBuffersEach == \A k \in Workers : table[k] <= 3 * products

\* What is true in every reachable state, for the proofs.  A worker that was
\* added is not closed, so that none is added twice.
AddedOnce ==
  /\ \A i \in DOMAIN fds : session[fds[i]] # "closed"
  /\ \A i, j \in DOMAIN fds : fds[i] = fds[j] => i = j

Running == master = "product"

\* Where the running product is.
AtStrip ==
  Running =>
    /\ fds # <<>> /\ products > 0 /\ strip.n \in Widths
    /\ strip.w \in 1..(Len(fds) + 1) /\ strip.step \in 1..8
    /\ strip.start = IF strip.w <= Len(fds) THEN (strip.w - 1) * (strip.n \div Len(fds)) ELSE strip.n

\* How many buffers worker i may hold by now.
Quota(i) ==
  IF i < strip.w \/ (i = strip.w /\ strip.step > 3) THEN 3 * products
  ELSE IF i = strip.w THEN 3 * products - 4 + strip.step ELSE 3 * products - 3
TableQuota == Running => \A i \in DOMAIN fds : table[fds[i]] <= Quota(i)

\* What the worker of the running strip has.
StripContent ==
  Running /\ strip.w <= Len(fds) =>
    /\ strip.step > 5 => strip.b = [i \in 1..Width |-> strip.start + i]
    /\ strip.step = 7 => strip.c = [i \in 1..Width |-> before[strip.start + i]]
    /\ strip.step = 8 => strip.c = [i \in 1..Width |-> Append(before[strip.start + i], strip.start + i)]

\* The columns in front of the running strip are done, those behind are untouched.
MergedSoFar ==
  /\ Running => \A j \in Columns :
       /\ j > strip.start => cols[j] = before[j]
       /\ j <= strip.start => cols[j] = before[j] \/ Updated(j)
       /\ j <= strip.start /\ strip.result = "success" => Updated(j)
  /\ ~Running => /\ \A j \in Columns : cols[j] = before[j] \/ (Updated(j) /\ j <= strip.n)
                 /\ strip.result = "success" => \A j \in 1..strip.n : Updated(j)

GroupInv ==
  /\ GroupTypeOK /\ AddedOnce /\ AtStrip /\ TableQuota /\ ThreeBuffersEach
  /\ StripContent /\ MergedSoFar
=============================================================================
