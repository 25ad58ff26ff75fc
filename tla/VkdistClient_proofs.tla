-------------------------- MODULE VkdistClient_proofs --------------------------
(***************************************************************************)
(* TLAPS proofs about VkdistPartition, for any number of workers, columns  *)
(* and products, and any failures: the split of the columns is exact.      *)
(* With those of VkdistRpc_proofs they give the type invariant of the      *)
(* whole client side of vkdist.                                            *)
(***************************************************************************)
EXTENDS MCVkdistClient, VkdistRpc_proofs

-----------------------------------------------------------------------------
(* Lemmas about the definitions.                                           *)

\* n columns over L workers: the shares of the first w lie within the n columns.
LEMMA Shares ==
  ASSUME NEW L \in Nat \ {0}, NEW n \in Nat, NEW w \in 1..L
  PROVE  LET q == n \div L
         IN  /\ q \in Nat /\ (w - 1) * q \in Nat /\ w * q \in Nat
             /\ (w - 1) * q + q = w * q
             /\ w * q <= n
<1> DEFINE q == n \div L
<1>1. q \in Nat /\ L * q <= n
  OBVIOUS
<1> HIDE DEF q
<1>2. (w - 1) * q \in Nat /\ w * q \in Nat /\ (w - 1) * q + q = w * q
  BY <1>1
<1>3. (L - w) * q \in Nat /\ L * q = w * q + (L - w) * q
  BY <1>1
<1>4. w * q <= n
  BY <1>1, <1>2, <1>3
<1> QED
  BY <1>1, <1>2, <1>4 DEF q

\* The type invariant, taken apart.
LEMMA Scalars ==
  ASSUME GroupTypeOK
  PROVE  /\ strip.n \in Nat /\ strip.w \in Nat /\ strip.start \in Nat /\ strip.step \in 0..8
         /\ strip.result \in {"success", "error"} /\ products \in Nat
         /\ Len(fds) \in Nat /\ DOMAIN fds = 1..Len(fds)
         /\ \A i \in DOMAIN fds : fds[i] \in Workers
         /\ \A k \in Workers : table[k] \in Nat /\ table[k] <= TableSize
         /\ \A j \in Columns : cols[j] \in Seq(Columns) /\ before[j] \in Seq(Columns)
<1>1. /\ strip.n \in Nat /\ strip.w \in Nat /\ strip.start \in Nat /\ strip.step \in 0..8
      /\ strip.result \in {"success", "error"}
  BY DEF GroupTypeOK, StripType
<1>2. /\ Len(fds) \in Nat /\ DOMAIN fds = 1..Len(fds)
      /\ \A i \in DOMAIN fds : fds[i] \in Workers
  BY DEF GroupTypeOK
<1>3. products \in Nat /\ \A k \in Workers : table[k] \in Nat /\ table[k] <= TableSize
  BY GroupAssumption DEF GroupTypeOK
<1>4. \A j \in Columns : cols[j] \in Seq(Columns) /\ before[j] \in Seq(Columns)
  BY DEF GroupTypeOK
<1> QED
  BY <1>1, <1>2, <1>3, <1>4

\* Where the columns of the running strip lie.
LEMMA StripBounds ==
  ASSUME GroupTypeOK, AtStrip, InProduct
  PROVE  /\ strip.n \in Nat /\ strip.w \in 1..Len(fds) /\ Len(fds) \in Nat \ {0}
         /\ strip.start \in Nat /\ Width \in Nat
         /\ strip.start + Width = IF strip.w + 1 <= Len(fds) THEN strip.w * (strip.n \div Len(fds))
                                  ELSE strip.n
         /\ strip.start + Width <= strip.n
<1>1. strip.n \in Nat /\ Len(fds) \in Nat \ {0} /\ strip.w \in 1..Len(fds)
  BY Scalars DEF AtStrip, InProduct, Running
<1> DEFINE q == strip.n \div Len(fds)
           earlier == (strip.w - 1) * q
           through == strip.w * q
<1>2. /\ q \in Nat /\ earlier \in Nat /\ through \in Nat
      /\ earlier + q = through /\ through <= strip.n
  BY <1>1, Shares
<1>3. Width = IF strip.w = Len(fds) THEN strip.n - strip.start ELSE q
  BY DEF Width, Share
<1>4. strip.start = earlier
  BY <1>1 DEF AtStrip, InProduct, Running
<1>5. strip.w + 1 <= Len(fds) <=> strip.w # Len(fds)
  BY <1>1
<1> HIDE DEF q, earlier, through
<1>6. /\ strip.start \in Nat /\ Width \in Nat /\ strip.start + Width <= strip.n
      /\ strip.start + Width = IF strip.w + 1 <= Len(fds) THEN through ELSE strip.n
  BY <1>1, <1>2, <1>3, <1>4, <1>5
<1> QED
  BY <1>1, <1>6 DEF through, q

LEMMA ColumnsAreNumbers ==
  /\ Columns \subseteq Nat \ {0}
  /\ \A n \in Widths : n \in Nat \ {0} /\ 1..n \subseteq Columns
<1>1. \A j \in Columns : j \in Nat \ {0}
  BY GroupAssumption DEF Columns
<1>2. \A n \in Widths : n \in Nat \ {0} /\ 1..n \subseteq Columns
  BY GroupAssumption DEF Columns
<1> QED
  BY <1>1, <1>2

\* The running product never passes its last column.
LEMMA StartBounded ==
  ASSUME GroupTypeOK, AtStrip, Running
  PROVE  strip.start \in Nat /\ strip.start <= strip.n
<1>1. CASE InProduct
  BY <1>1, StripBounds
<1>2. CASE ~InProduct
  <2>1. strip.start = strip.n
    BY <1>2, Scalars DEF AtStrip, InProduct, Running
  <2> QED
    BY <2>1, Scalars
<1> QED
  BY <1>1, <1>2

\* The steps of a strip in their order.
LEMMA StepNames ==
  ASSUME strip.step \in 1..8
  PROVE  /\ Registers <=> strip.step <= 3
         /\ StepName = "uploadB" <=> strip.step = 5
         /\ StepName = "uploadC" <=> strip.step = 6
         /\ StepName = "gemm" <=> strip.step = 7
         /\ StepName = "readback" <=> strip.step = 8
<1>1. \/ strip.step = 1 \/ strip.step = 2 \/ strip.step = 3 \/ strip.step = 4
      \/ strip.step = 5 \/ strip.step = 6 \/ strip.step = 7 \/ strip.step = 8
  OBVIOUS
<1> QED
  BY <1>1 DEF Registers, StepName, Steps

LEMMA GroupInitInv == GroupInit => GroupInv
<1> SUFFICES ASSUME GroupInit PROVE GroupInv
  OBVIOUS
<1>1. GroupTypeOK
  <2>1. strip \in StripType
    BY DEF GroupInit, NoStrip, StripType
  <2> QED
    BY <2>1, GroupAssumption DEF GroupInit, GroupTypeOK
<1> QED
  BY <1>1, GroupAssumption
  DEF GroupInit, NoStrip, GroupInv, AddedOnce, Running, AtStrip, TableQuota, ThreeBuffersEach, StripContent,
      MergedSoFar, Updated

-----------------------------------------------------------------------------
(* The steps of the master.                                                *)

LEMMA MasterStep ==
  ASSUME GroupInv,
         \/ MasterCreate \/ MasterDestroy
         \/ \E k \in Workers : AddWorker(k) \/ AddWorkerFails(k) \/ WorkerCut(k)
  PROVE  GroupInv'
<1> USE DEF GroupInv
<1>1. CASE MasterCreate
  BY <1>1 DEF MasterCreate, GroupTypeOK, AddedOnce, Running, AtStrip, TableQuota, ThreeBuffersEach,
     StripContent, MergedSoFar, Updated
<1>2. CASE MasterDestroy
  <2>1. GroupTypeOK' /\ ThreeBuffersEach'
    BY <1>2, GroupAssumption DEF MasterDestroy, GroupTypeOK, ThreeBuffersEach
  <2> QED
    BY <1>2, <2>1 DEF MasterDestroy, AddedOnce, Running, AtStrip, TableQuota, StripContent, MergedSoFar,
       Updated
<1>3. ASSUME NEW k \in Workers, AddWorker(k) PROVE GroupInv'
  <2>1. GroupTypeOK' /\ AddedOnce'
    BY <1>3 DEF AddWorker, GroupTypeOK, AddedOnce
  <2> QED
    BY <1>3, <2>1 DEF AddWorker, Running, AtStrip, TableQuota, ThreeBuffersEach, StripContent, MergedSoFar,
       Updated
<1>4. ASSUME NEW k \in Workers, AddWorkerFails(k) PROVE GroupInv'
  BY <1>4 DEF AddWorkerFails, groupVars, GroupTypeOK, AddedOnce, Running, AtStrip, Quota, TableQuota,
     ThreeBuffersEach, StripContent, Width, Share, MergedSoFar, Updated
<1>5. ASSUME NEW k \in Workers, WorkerCut(k) PROVE GroupInv'
  <2>1. GroupTypeOK' /\ AddedOnce' /\ ThreeBuffersEach'
    BY <1>5, GroupAssumption DEF WorkerCut, GroupTypeOK, AddedOnce, ThreeBuffersEach
  <2>2. AtStrip' /\ StripContent' /\ MergedSoFar'
    BY <1>5 DEF WorkerCut, AtStrip, Running, StripContent, Width, Share, MergedSoFar, Updated
  <2>3. TableQuota'
    <3> SUFFICES ASSUME Running', NEW i \in DOMAIN fds PROVE table'[fds[i]] <= Quota(i)'
      BY <1>5 DEF TableQuota, WorkerCut
    <3>1. Running /\ Quota(i)' = Quota(i)
      BY <1>5 DEF WorkerCut, Quota, Running
    <3>2. Quota(i) >= 0
      <4>1. i \in Nat /\ strip.w \in Nat /\ strip.step \in 1..8 /\ products \in Nat \ {0}
        BY <3>1, Scalars DEF AtStrip
      <4> QED
        BY <4>1 DEF Quota
    <3>3. table[fds[i]] <= Quota(i)
      BY <3>1 DEF TableQuota
    <3>4. table' = [table EXCEPT ![k] = 0] /\ fds[i] \in Workers /\ table \in [Workers -> 0..TableSize]
      BY <1>5, Scalars DEF WorkerCut, GroupTypeOK
    <3> QED
      BY <3>1, <3>2, <3>3, <3>4
  <2> QED
    BY <2>1, <2>2, <2>3
<1> QED
  BY <1>1, <1>2, <1>3, <1>4, <1>5

-----------------------------------------------------------------------------
(* The steps of a product.                                                 *)

LEMMA ProductBegins ==
  ASSUME GroupInv, NEW n \in Widths, Product(n)
  PROVE  GroupInv'
<1> USE DEF GroupInv
<1>1. strip' = [n |-> n, w |-> 1, start |-> 0, step |-> 1, b |-> <<>>, c |-> <<>>, result |-> "success"]
  BY DEF Product, NoStrip
<1>2. n \in Nat \ {0}
  BY GroupAssumption
<1>3. GroupTypeOK'
  <2>1. strip' \in StripType
    BY <1>1, <1>2 DEF StripType
  <2> QED
    BY <2>1, GroupAssumption DEF Product, GroupTypeOK
<1>4. AddedOnce' /\ ThreeBuffersEach'
  BY DEF Product, AddedOnce, ThreeBuffersEach, GroupTypeOK
<1>5. AtStrip'
  <2>1. fds' = fds /\ fds # <<>> /\ Len(fds) \in Nat \ {0} /\ products' > 0
    BY Scalars DEF Product, GroupTypeOK
  <2>2. (1 - 1) * (n \div Len(fds)) = 0
    BY <1>2, <2>1
  <2> QED
    BY <1>1, <2>1, <2>2 DEF AtStrip
<1>6. TableQuota'
  BY <1>1, Scalars DEF Product, TableQuota, Quota, Running, ThreeBuffersEach
<1>7. StripContent'
  BY <1>1 DEF StripContent
<1>8. MergedSoFar'
  <2>1. strip'.start = 0
    BY <1>1
  <2>3. before' = cols /\ cols' = cols /\ master' = "product"
    BY DEF Product
  <2>2. \A j \in Columns : j > strip'.start /\ ~(j <= strip'.start)
    BY <2>1, ColumnsAreNumbers
  <2> QED
    BY <2>2, <2>3 DEF MergedSoFar, Running
<1> QED
  BY <1>3, <1>4, <1>5, <1>6, <1>7, <1>8

\* A strip that is over, with its columns merged or not, is followed by the next.
LEMMA StripOver ==
  ASSUME GroupInv, InProduct, NEW result \in {"success", "error"},
         strip' = NextStrip(result),
         UNCHANGED <<master, fds, session, table, before, products>>
  PROVE  /\ strip'.n = strip.n /\ strip'.w = strip.w + 1 /\ strip'.result = result
         /\ strip'.start = strip.start + Width
         /\ strip' \in StripType
         /\ AddedOnce' /\ AtStrip' /\ TableQuota' /\ ThreeBuffersEach' /\ StripContent'
<1> USE DEF GroupInv
<1>1. /\ strip.n \in Nat /\ strip.w \in 1..Len(fds) /\ Len(fds) \in Nat \ {0}
      /\ strip.start \in Nat /\ Width \in Nat
      /\ strip.start + Width = IF strip.w + 1 <= Len(fds) THEN strip.w * (strip.n \div Len(fds))
                               ELSE strip.n
  BY StripBounds
<1>2. strip' = [n |-> strip.n, w |-> strip.w + 1, start |-> strip.start + Width, step |-> 1,
                b |-> <<>>, c |-> <<>>, result |-> result]
  BY DEF NextStrip, NoStrip
<1>3. strip' \in StripType
  BY <1>1, <1>2 DEF StripType
<1>4. AddedOnce' /\ ThreeBuffersEach'
  BY DEF AddedOnce, ThreeBuffersEach
<1>5. AtStrip'
  <2>1. strip'.w - 1 = strip.w /\ strip'.w \in 1..(Len(fds) + 1) /\ strip'.step = 1
    BY <1>1, <1>2
  <2>2. strip'.n = strip.n /\ strip'.w = strip.w + 1 /\ strip'.start = strip.start + Width
    BY <1>2
  <2>3. Running /\ fds # <<>> /\ products > 0 /\ strip.n \in Widths
    BY DEF AtStrip, Running, InProduct
  <2>4. strip'.start = IF strip'.w <= Len(fds) THEN (strip'.w - 1) * (strip'.n \div Len(fds)) ELSE strip'.n
    BY <1>1, <2>1, <2>2
  <2> QED
    BY <2>1, <2>2, <2>3, <2>4 DEF AtStrip
<1>6. TableQuota'
  <2> SUFFICES ASSUME NEW i \in DOMAIN fds PROVE table[fds[i]] <= Quota(i)'
    BY DEF TableQuota
  <2>1. table[fds[i]] <= Quota(i)
    BY DEF TableQuota, Running, InProduct
  <2>2. Quota(i) <= Quota(i)' /\ Quota(i) \in Int /\ Quota(i)' \in Int
    <3>1. strip'.w = strip.w + 1 /\ strip'.step = 1 /\ products' = products
      BY <1>2
    <3>2. i \in Nat /\ strip.w \in Nat /\ strip.step \in 1..8 /\ products \in Nat
      BY Scalars DEF AtStrip, Running, InProduct
    <3> QED
      BY <3>1, <3>2 DEF Quota
  <2>3. table[fds[i]] \in Int
    BY Scalars
  <2> QED
    BY <2>1, <2>2, <2>3
<1>7. StripContent'
  BY <1>2 DEF StripContent
<1> QED
  BY <1>2, <1>3, <1>4, <1>5, <1>6, <1>7

LEMMA StripEmptyInv ==
  ASSUME GroupInv, StripEmpty
  PROVE  GroupInv'
<1> USE DEF GroupInv
<1>1. Width = 0 /\ strip.start \in Nat /\ strip.start + Width = strip.start
  BY StripBounds DEF StripEmpty
<1>2. strip' = NextStrip(strip.result)
  BY <1>1 DEF StripEmpty, NextStrip, NoStrip
<1>3. strip.result \in {"success", "error"}
  BY Scalars
<1>4. /\ strip'.n = strip.n /\ strip'.w = strip.w + 1 /\ strip'.result = strip.result
      /\ strip'.start = strip.start
      /\ strip' \in StripType
      /\ AddedOnce' /\ AtStrip' /\ TableQuota' /\ ThreeBuffersEach' /\ StripContent'
  BY <1>1, <1>2, <1>3, StripOver DEF StripEmpty
<1>5. GroupTypeOK'
  BY <1>4 DEF StripEmpty, GroupTypeOK
<1>6. MergedSoFar'
  BY <1>4 DEF StripEmpty, InProduct, MergedSoFar, Running, Updated
<1> QED
  BY <1>4, <1>5, <1>6

LEMMA StripFailsInv ==
  ASSUME GroupInv, StripFails
  PROVE  GroupInv'
<1> USE DEF GroupInv
<1>1. /\ strip'.n = strip.n /\ strip'.w = strip.w + 1 /\ strip'.result = "error"
      /\ strip'.start = strip.start + Width
      /\ strip' \in StripType
      /\ AddedOnce' /\ AtStrip' /\ TableQuota' /\ ThreeBuffersEach' /\ StripContent'
  BY StripOver DEF StripFails, ResultOfFailure
<1>2. strip.start \in Nat /\ Width \in Nat
  BY StripBounds DEF StripFails
<1>3. GroupTypeOK'
  BY <1>1 DEF StripFails, GroupTypeOK
<1>4. MergedSoFar'
  BY <1>1, <1>2, ColumnsAreNumbers DEF StripFails, InProduct, MergedSoFar, Running, Updated
<1> QED
  BY <1>1, <1>3, <1>4

LEMMA PartReadbackInv ==
  ASSUME GroupInv, StripStep, StepName = "readback"
  PROVE  GroupInv'
<1> USE DEF GroupInv
<1>1. strip.step = 8 /\ ~Registers /\ InProduct
  BY StepNames DEF StripStep, AtStrip, InProduct, Running
<1>2. /\ strip.start \in Nat /\ Width \in Nat /\ strip.start + Width <= strip.n /\ strip.n \in Nat
  BY <1>1, StripBounds
<1>3. /\ strip'.n = strip.n /\ strip'.w = strip.w + 1 /\ strip'.result = strip.result
      /\ strip'.start = strip.start + Width
      /\ strip' \in StripType
      /\ AddedOnce' /\ AtStrip' /\ TableQuota' /\ ThreeBuffersEach' /\ StripContent'
  <2>1. strip.result \in {"success", "error"}
    BY Scalars
  <2> QED
    BY <1>1, <2>1, StripOver DEF StripStep
<1>4. strip.c = [i \in 1..Width |-> Append(before[strip.start + i], strip.start + i)]
  BY <1>1 DEF StripContent, InProduct, Running
<1>5. \A j \in Columns :
        cols'[j] = IF strip.start < j /\ j <= strip.start + Width THEN Append(before[j], j) ELSE cols[j]
  <2> SUFFICES ASSUME NEW j \in Columns
               PROVE  cols'[j] = IF strip.start < j /\ j <= strip.start + Width
                                 THEN Append(before[j], j) ELSE cols[j]
    OBVIOUS
  <2>1. cols'[j] = IF j - strip.start \in 1..Width THEN strip.c[j - strip.start] ELSE cols[j]
    BY <1>4 DEF StripStep, Merged
  <2>2. j \in Nat
    BY ColumnsAreNumbers
  <2>3. j - strip.start \in 1..Width <=> strip.start < j /\ j <= strip.start + Width
    BY <1>2, <2>2
  <2>4. ASSUME j - strip.start \in 1..Width PROVE strip.c[j - strip.start] = Append(before[j], j)
    <3>1. strip.start + (j - strip.start) = j
      BY <1>2, <2>2
    <3> QED
      BY <1>4, <2>4, <3>1
  <2> QED
    BY <2>1, <2>3, <2>4
<1>6. cols' \in [Columns -> Seq(Columns)]
  <2>1. ASSUME NEW j \in Columns PROVE cols'[j] \in Seq(Columns)
    <3>1. cols[j] \in Seq(Columns) /\ before[j] \in Seq(Columns)
      BY Scalars
    <3>2. Append(before[j], j) \in Seq(Columns)
      BY <3>1
    <3> QED
      BY <1>5, <3>1, <3>2
  <2>2. cols' = [j \in Columns |-> cols'[j]]
    BY DEF StripStep, Merged
  <2> QED
    BY <2>1, <2>2
<1>7. GroupTypeOK'
  BY <1>1, <1>3, <1>6 DEF StripStep, GroupTypeOK
<1>8. MergedSoFar'
  <2>1. Running /\ Running' /\ before' = before
    BY <1>1 DEF StripStep, InProduct, Running
  <2> SUFFICES ASSUME NEW j \in Columns
               PROVE  /\ j > strip'.start => cols'[j] = before[j]
                      /\ j <= strip'.start => cols'[j] = before[j] \/ cols'[j] = Append(before[j], j)
                      /\ j <= strip'.start /\ strip'.result = "success" => cols'[j] = Append(before[j], j)
    BY <2>1 DEF MergedSoFar, Updated
  <2>2. /\ j > strip.start => cols[j] = before[j]
        /\ j <= strip.start => cols[j] = before[j] \/ cols[j] = Append(before[j], j)
        /\ j <= strip.start /\ strip.result = "success" => cols[j] = Append(before[j], j)
    BY <2>1 DEF MergedSoFar, Updated
  <2>3. j \in Nat /\ strip'.start = strip.start + Width /\ strip'.result = strip.result
    BY <1>3, ColumnsAreNumbers
  <2> DEFINE updated == Append(before[j], j)
  <2>4. cols'[j] = IF strip.start < j /\ j <= strip.start + Width THEN updated ELSE cols[j]
    BY <1>5
  <2> HIDE DEF updated
  <2>5. /\ j > strip.start => cols[j] = before[j]
        /\ j <= strip.start => cols[j] = before[j] \/ cols[j] = updated
        /\ j <= strip.start /\ strip.result = "success" => cols[j] = updated
    BY <2>2 DEF updated
  <2>6. /\ j > strip'.start => cols'[j] = before[j]
        /\ j <= strip'.start => cols'[j] = before[j] \/ cols'[j] = updated
        /\ j <= strip'.start /\ strip'.result = "success" => cols'[j] = updated
    BY <1>2, <2>3, <2>4, <2>5
  <2> QED
    BY <2>6 DEF updated
<1> QED
  BY <1>3, <1>7, <1>8

\* A strip field by field, and what a step makes of it.
StripOf(step, b, c) ==
  [n |-> strip.n, w |-> strip.w, start |-> strip.start, step |-> step, b |-> b, c |-> c,
   result |-> strip.result]

LEMMA StripFields ==
  ASSUME strip \in StripType
  PROVE  /\ strip = StripOf(strip.step, strip.b, strip.c)
         /\ strip.b \in Seq(Columns) /\ strip.c \in Seq(Seq(Columns))
  BY DEF StripType, StripOf

LEMMA StripUpdates ==
  ASSUME strip \in StripType, NEW x
  PROVE  /\ [[strip EXCEPT !.b = x] EXCEPT !.step = @ + 1] = StripOf(strip.step + 1, x, strip.c)
         /\ [[strip EXCEPT !.c = x] EXCEPT !.step = @ + 1] = StripOf(strip.step + 1, strip.b, x)
<1>1. strip = StripOf(strip.step, strip.b, strip.c)
  BY StripFields
<1>2. [strip EXCEPT !.b = x] = StripOf(strip.step, x, strip.c)
  BY <1>1 DEF StripOf
<1>3. [strip EXCEPT !.c = x] = StripOf(strip.step, strip.b, x)
  BY <1>1 DEF StripOf
<1>4. ASSUME NEW b, NEW c
      PROVE  [StripOf(strip.step, b, c) EXCEPT !.step = @ + 1] = StripOf(strip.step + 1, b, c)
  BY DEF StripOf
<1>5. [[strip EXCEPT !.b = x] EXCEPT !.step = @ + 1] = StripOf(strip.step + 1, x, strip.c)
  BY <1>2, <1>4, Zenon
<1>6. [[strip EXCEPT !.c = x] EXCEPT !.step = @ + 1] = StripOf(strip.step + 1, strip.b, x)
  BY <1>3, <1>4, Zenon
<1> QED
  BY <1>5, <1>6, Zenon

LEMMA StripOfType ==
  ASSUME strip \in StripType, NEW step \in 0..8, NEW b \in Seq(Columns), NEW c \in Seq(Seq(Columns))
  PROVE  /\ StripOf(step, b, c) \in StripType
         /\ StripOf(step, b, c).n = strip.n /\ StripOf(step, b, c).w = strip.w
         /\ StripOf(step, b, c).start = strip.start /\ StripOf(step, b, c).result = strip.result
         /\ StripOf(step, b, c).step = step /\ StripOf(step, b, c).b = b /\ StripOf(step, b, c).c = c
  BY DEF StripType, StripOf

\* What a remote call that is not the last makes of the strip.
LEMMA StripAdvances ==
  ASSUME GroupInv, StripStep, StepName # "readback"
  PROVE  /\ strip.step \in 1..7 /\ strip'.step = strip.step + 1
         /\ strip'.n = strip.n /\ strip'.w = strip.w /\ strip'.start = strip.start
         /\ strip'.result = strip.result
         /\ strip' \in StripType
         /\ StripContent'
<1> USE DEF GroupInv
<1>1. InProduct /\ Running /\ strip.w <= Len(fds) /\ strip.step \in 1..8
  BY DEF StripStep, AtStrip, InProduct, Running
<1>2. strip.step \in 1..7
  BY <1>1, StepNames
<1>3. /\ strip.start \in Nat /\ Width \in Nat /\ strip.start + Width <= strip.n
      /\ strip.n \in Widths /\ strip.n \in Nat
  BY <1>1, StripBounds DEF AtStrip
<1>4. \A i \in 1..Width : /\ strip.start + i \in Columns
                          /\ cols[strip.start + i] = before[strip.start + i]
                          /\ before[strip.start + i] \in Seq(Columns)
  <2> SUFFICES ASSUME NEW i \in 1..Width
               PROVE  /\ strip.start + i \in Columns
                      /\ cols[strip.start + i] = before[strip.start + i]
                      /\ before[strip.start + i] \in Seq(Columns)
    OBVIOUS
  <2>1. strip.start + i \in 1..strip.n /\ strip.start + i > strip.start
    BY <1>3
  <2>2. strip.start + i \in Columns
    BY <1>3, <2>1, ColumnsAreNumbers
  <2> QED
    BY <1>1, <2>1, <2>2 DEF MergedSoFar, GroupTypeOK
<1>5. strip \in StripType
  BY DEF GroupTypeOK
<1>6. CASE strip.step \in 1..4
  <2>1. StripAfter(StepName) = strip
    BY <1>1, <1>6, StepNames DEF StripAfter
  <2>2. strip' = [strip EXCEPT !.step = @ + 1]
    BY <2>1 DEF StripStep
  <2>3. /\ strip'.step = strip.step + 1 /\ strip'.n = strip.n /\ strip'.w = strip.w
        /\ strip'.start = strip.start /\ strip'.result = strip.result /\ strip' \in StripType
    <3>1. strip' = StripOf(strip.step + 1, strip.b, strip.c)
      BY <1>5, <2>2, StripFields DEF StripOf
    <3> QED
      BY <1>2, <1>5, <3>1, StripFields, StripOfType
  <2> QED
    BY <1>2, <1>6, <2>3 DEF StripContent
<1>7. CASE strip.step = 5
  <2>1. strip' = [[strip EXCEPT !.b = [i \in 1..Width |-> strip.start + i]] EXCEPT !.step = @ + 1]
    BY <1>1, <1>7, StepNames DEF StripStep, StripAfter
  <2>2. [i \in 1..Width |-> strip.start + i] \in Seq(Columns)
    BY <1>3, <1>4
  <2>3. /\ strip'.step = 6 /\ strip'.b = [i \in 1..Width |-> strip.start + i]
        /\ strip'.n = strip.n /\ strip'.w = strip.w /\ strip'.start = strip.start
        /\ strip'.result = strip.result
        /\ strip' \in StripType
    <3>1. strip' = StripOf(strip.step + 1, [i \in 1..Width |-> strip.start + i], strip.c)
      BY <1>5, <2>1, StripUpdates, Zenon
    <3> QED
      BY <1>5, <1>7, <2>2, <3>1, StripFields, StripOfType
  <2>4. Width' = Width
    BY <2>3 DEF StripStep, Width, Share
  <2> QED
    BY <1>7, <2>3, <2>4 DEF StripContent
<1>8. CASE strip.step = 6
  <2>1. strip' = [[strip EXCEPT !.c = [i \in 1..Width |-> cols[strip.start + i]]] EXCEPT !.step = @ + 1]
    BY <1>1, <1>8, StepNames DEF StripStep, StripAfter
  <2>2. /\ [i \in 1..Width |-> cols[strip.start + i]] = [i \in 1..Width |-> before[strip.start + i]]
        /\ [i \in 1..Width |-> before[strip.start + i]] \in Seq(Seq(Columns))
    BY <1>3, <1>4
  <2>3. strip.b = [i \in 1..Width |-> strip.start + i]
    BY <1>1, <1>8 DEF StripContent
  <2>4. /\ strip'.step = 7 /\ strip'.b = strip.b
        /\ strip'.c = [i \in 1..Width |-> before[strip.start + i]]
        /\ strip'.n = strip.n /\ strip'.w = strip.w /\ strip'.start = strip.start
        /\ strip'.result = strip.result
        /\ strip' \in StripType
    <3>1. strip' = StripOf(strip.step + 1, strip.b, [i \in 1..Width |-> before[strip.start + i]])
      BY <1>5, <2>1, <2>2, StripUpdates, Zenon
    <3> QED
      BY <1>5, <1>8, <2>2, <3>1, StripFields, StripOfType
  <2>5. Width' = Width /\ before' = before
    BY <2>4 DEF StripStep, Width, Share
  <2> QED
    BY <1>8, <2>3, <2>4, <2>5 DEF StripContent
<1>9. CASE strip.step = 7
  <2>1. strip' = [[strip EXCEPT !.c = [i \in DOMAIN @ |-> Append(@[i], strip.b[i])]] EXCEPT !.step = @ + 1]
    BY <1>1, <1>9, StepNames DEF StripStep, StripAfter
  <2>2. /\ strip.b = [i \in 1..Width |-> strip.start + i]
        /\ strip.c = [i \in 1..Width |-> before[strip.start + i]]
    BY <1>1, <1>9 DEF StripContent
  <2> DEFINE result == [i \in 1..Width |-> Append(before[strip.start + i], strip.start + i)]
  <2>3. [i \in DOMAIN strip.c |-> Append(strip.c[i], strip.b[i])] = result
    BY <2>2
  <2>4. result \in Seq(Seq(Columns))
    BY <1>3, <1>4
  <2> HIDE DEF result
  <2>5. /\ strip'.step = 8 /\ strip'.b = strip.b /\ strip'.c = result
        /\ strip'.n = strip.n /\ strip'.w = strip.w /\ strip'.start = strip.start
        /\ strip'.result = strip.result
        /\ strip' \in StripType
    <3>1. strip' = [[strip EXCEPT !.c = result] EXCEPT !.step = @ + 1]
      BY <2>1, <2>3
    <3>2. strip' = StripOf(strip.step + 1, strip.b, result)
      BY <1>5, <3>1, StripUpdates, Zenon
    <3> QED
      BY <1>5, <1>9, <2>4, <3>2, StripFields, StripOfType
  <2>6. Width' = Width /\ before' = before
    BY <2>5 DEF StripStep, Width, Share
  <2> QED
    BY <1>9, <2>2, <2>5, <2>6 DEF StripContent, result
<1> QED
  BY <1>2, <1>6, <1>7, <1>8, <1>9

LEMMA AdvanceInv ==
  ASSUME GroupInv, StripStep, StepName # "readback"
  PROVE  GroupInv'
<1> USE DEF GroupInv
<1>1. /\ strip.step \in 1..7 /\ strip'.step = strip.step + 1
      /\ strip'.n = strip.n /\ strip'.w = strip.w /\ strip'.start = strip.start
      /\ strip'.result = strip.result
      /\ strip' \in StripType
      /\ StripContent'
  BY StripAdvances
<1>2. /\ Running /\ strip.w \in DOMAIN fds /\ Worker \in Workers
      /\ UNCHANGED <<master, fds, session, cols, before, products>>
      /\ products \in Nat
  BY StripBounds DEF StripStep, InProduct, Running, Worker, GroupTypeOK
<1>3. /\ table' = IF strip.step <= 3 THEN [table EXCEPT ![Worker] = @ + 1] ELSE table
      /\ strip.step <= 3 => table[Worker] < TableSize
  <2>1. Registers <=> strip.step <= 3
    BY <1>1, StepNames
  <2> QED
    BY <1>2, <2>1, GroupAssumption DEF StripStep, TableFull, GroupTypeOK
<1>4. GroupTypeOK'
  BY <1>1, <1>2, <1>3, GroupAssumption DEF GroupTypeOK
<1>5. AddedOnce' /\ AtStrip' /\ MergedSoFar'
  BY <1>1, <1>2 DEF AddedOnce, AtStrip, Running, MergedSoFar, Updated
<1>6. \A i \in DOMAIN fds : table[fds[i]] <= Quota(i) /\ table[fds[i]] \in Nat
  BY <1>2 DEF TableQuota, GroupTypeOK
<1>7. TableQuota'
  <2> SUFFICES ASSUME NEW i \in DOMAIN fds PROVE table'[fds[i]] <= Quota(i)'
    BY <1>2 DEF TableQuota
  <2>1. CASE i = strip.w
    <3>1. table[Worker] <= Quota(i) /\ table[Worker] \in Nat
      BY <1>6, <2>1 DEF Worker
    <3>2. table'[Worker] = IF strip.step <= 3 THEN table[Worker] + 1 ELSE table[Worker]
      BY <1>2, <1>3 DEF GroupTypeOK
    <3>3. Quota(i) = IF strip.step > 3 THEN 3 * products ELSE 3 * products - 4 + strip.step
      BY <1>1, <1>2, <2>1, Scalars DEF Quota
    <3>4. Quota(i)' = IF strip.step + 1 > 3 THEN 3 * products ELSE 3 * products - 3 + strip.step
      BY <1>1, <1>2, <2>1, Scalars DEF Quota
    <3>5. table'[Worker] <= Quota(i)'
      BY <1>1, <1>2, <3>1, <3>2, <3>3, <3>4
    <3> QED
      BY <2>1, <3>5 DEF Worker
  <2>2. CASE i # strip.w
    <3>1. fds[i] # Worker
      BY <1>2, <2>2 DEF AddedOnce, Worker
    <3>2. table'[fds[i]] = table[fds[i]] /\ Quota(i)' = Quota(i)
      BY <1>1, <1>2, <1>3, <2>2, <3>1 DEF Quota, GroupTypeOK
    <3> QED
      BY <1>6, <3>2
  <2> QED
    BY <2>1, <2>2
<1>8. ThreeBuffersEach'
  <2> SUFFICES ASSUME NEW k \in Workers PROVE table'[k] <= 3 * products
    BY <1>2 DEF ThreeBuffersEach
  <2>1. CASE k = Worker /\ strip.step <= 3
    <3>1. table[k] <= 3 * products - 4 + strip.step
      <4>1. Quota(strip.w) = 3 * products - 4 + strip.step
        BY <1>1, <1>2, <2>1, Scalars DEF Quota
      <4> QED
        BY <1>2, <1>6, <2>1, <4>1 DEF Worker
    <3>2. table'[k] = table[k] + 1 /\ table[k] \in Nat
      BY <1>2, <1>3, <2>1 DEF GroupTypeOK
    <3>3. products \in Nat /\ strip.step \in 1..3
      BY <1>1, <1>2, <2>1
    <3> QED
      BY <3>1, <3>2, <3>3
  <2>2. CASE ~(k = Worker /\ strip.step <= 3)
    BY <1>1, <1>3, <2>2 DEF ThreeBuffersEach, GroupTypeOK
  <2> QED
    BY <2>1, <2>2
<1> QED
  BY <1>1, <1>4, <1>5, <1>7, <1>8

LEMMA ProductEnds ==
  ASSUME GroupInv, ProductDone
  PROVE  GroupInv'
<1> USE DEF GroupInv
<1>1. strip.start = strip.n /\ strip.n \in Widths
  BY Scalars DEF ProductDone, AtStrip, Running
<1>2. Running /\ ~Running' /\ UNCHANGED <<strip, cols, before>>
  BY DEF ProductDone, Running
<1>3. MergedSoFar'
  <2>1. \A j \in Columns : j \in Nat /\ (j \in 1..strip.n <=> j <= strip.n) /\ strip.n \in Nat
    BY <1>1, ColumnsAreNumbers
  <2>2. 1..strip.n \subseteq Columns
    BY <1>1, ColumnsAreNumbers
  <2> QED
    BY <1>1, <1>2, <2>1, <2>2 DEF MergedSoFar, Updated
<1> QED
  BY <1>2, <1>3 DEF ProductDone, GroupTypeOK, AddedOnce, AtStrip, TableQuota, ThreeBuffersEach, StripContent

LEMMA GroupStep == GroupInv /\ [GroupNext]_groupVars => GroupInv'
<1> SUFFICES ASSUME GroupInv, [GroupNext]_groupVars PROVE GroupInv'
  OBVIOUS
<1>1. CASE UNCHANGED groupVars
  <2>1. GroupTypeOK' /\ AddedOnce' /\ AtStrip' /\ ThreeBuffersEach'
    BY <1>1 DEF groupVars, GroupInv, GroupTypeOK, AddedOnce, Running, AtStrip, ThreeBuffersEach
  <2>2. TableQuota' /\ StripContent' /\ MergedSoFar'
    BY <1>1 DEF groupVars, GroupInv, Running, Quota, TableQuota, StripContent, Width, Share, MergedSoFar,
       Updated
  <2> QED
    BY <2>1, <2>2 DEF GroupInv
<1>2. CASE StripStep
  BY <1>2, PartReadbackInv, AdvanceInv
<1> QED
  BY <1>1, <1>2, MasterStep, ProductBegins, StripEmptyInv, StripFailsInv, ProductEnds DEF GroupNext

LEMMA GroupInvHolds == GroupSpec => []GroupInv
  BY GroupInitInv, GroupStep, PTL DEF GroupSpec

-----------------------------------------------------------------------------
(* The results.                                                            *)

\* The variables have their types: no worker's table passes its size.
THEOREM GroupTypes == GroupSpec => []GroupTypeOK
<1>1. GroupInv => GroupTypeOK
  BY DEF GroupInv
<1> QED
  BY <1>1, GroupInvHolds, PTL

\* The partition of vkdist_sgemm_partitioned is exact for every n and every
\* number of workers, also when n is less than the workers or no multiple of
\* them: no column is lost, done twice or torn, whatever fails.
THEOREM PartitionExact == GroupSpec => []ProductExact
<1>1. GroupInv => ProductExact
  <2> SUFFICES ASSUME GroupInv PROVE ProductExact
    OBVIOUS
  <2>1. CASE ~Running
    BY <2>1 DEF GroupInv, MergedSoFar, ProductExact, Finished
  <2>2. CASE Running
    <3>1. strip.start \in Nat /\ strip.start <= strip.n /\ strip.n \in Nat
      BY <2>2, StartBounded, Scalars DEF GroupInv
    <3>2. ~Finished
      BY <2>2 DEF Finished, Running
    <3> QED
      BY <2>2, <3>1, <3>2, ColumnsAreNumbers DEF GroupInv, MergedSoFar, ProductExact
  <2> QED
    BY <2>1, <2>2
<1> QED
  BY <1>1, GroupInvHolds, PTL

\* What the products of a master leave with a worker is three buffers each.
THEOREM BuffersBounded == GroupSpec => []ThreeBuffersEach
<1>1. GroupInv => ThreeBuffersEach
  BY DEF GroupInv
<1> QED
  BY <1>1, GroupInvHolds, PTL

\* The calls of a connection and the master that splits a product: each step is
\* one of the two's and leaves the other as it is.
THEOREM ClientTypes == ClientSpec => []TypesOK
<1>1. ClientInit => RpcInv /\ GroupInv
  BY RpcInit, GroupInitInv DEF ClientInit
<1>2. RpcInv /\ GroupInv /\ [ClientNext]_<<part, vars, groupVars>> => (RpcInv /\ GroupInv)'
  <2>1. ClientNext \/ UNCHANGED <<part, vars, groupVars>> => [Next]_vars /\ [GroupNext]_groupVars
    BY DEF ClientNext
  <2> QED BY <2>1, RpcStep, GroupStep
<1>3. RpcInv /\ GroupInv => TypesOK
  <2>1. RpcInv => TypeOK
    BY DEF RpcInv
  <2>2. GroupInv => GroupTypeOK
    BY DEF GroupInv
  <2> QED BY <2>1, <2>2 DEF TypesOK
<1> QED
  BY <1>1, <1>2, <1>3, PTL DEF ClientSpec
=============================================================================
