--------------------------- MODULE VkdistRpc_proofs ---------------------------
(***************************************************************************)
(* TLAPS proofs about VkdistRpc, for any number of buffers, any contents,  *)
(* any product and any failures: client and server stay in step, and the   *)
(* connection implements RemoteMemory.                                     *)
(***************************************************************************)
EXTENDS VkdistRpc, SequenceTheorems, TLAPS

-----------------------------------------------------------------------------
(* The inductive invariant.                                                *)

Buffers == [handle : Handles, val : Vals]
Messages == Requests \cup {Bye}
Results == [res : {"none", "ok", "err"}, val : Vals \cup 0..MaxBuffers]

\* A session hands out its handles in order.
TableInOrder ==
  server = "serving" =>
    nextHandle = Len(bufs) + 1 /\ \A i \in 1..Len(bufs) : bufs[i].handle = i

\* Only a closed client has sent BYE; it waits for nothing, and a server that
\* has closed has read what there was.
Farewell ==
  /\ c2s # <<>> /\ Head(c2s) = Bye => client = "closed"
  /\ client = "closed" => pending = NoCall
  /\ server = "closed" => c2s = <<>>

RpcInv == TypeOK /\ InStep /\ TableInOrder /\ Farewell /\ client # "desync"

-----------------------------------------------------------------------------
(* Lemmas about frames and queues.                                         *)

LEMMA RequestFields ==
  ASSUME NEW f \in Messages
  PROVE  /\ f.op \in {"register", "caps", "readback", "upload", "gemm", "bye"}
         /\ f.op = "bye" <=> f = Bye
         /\ f.op = "readback" => f.h \in Handles
         /\ f.op = "upload" => f.h \in Handles /\ f.v \in Vals
         /\ f.op = "gemm" => f.a \in Handles /\ f.b \in Handles /\ f.c \in Handles
  BY DEF Messages, Requests, Bye

LEMMA NoCallIsNone ==
  /\ NoCall.op = "none" /\ \A k \in Requests : k # NoCall /\ k # Bye /\ k.op # "bye"
  BY DEF NoCall, Bye, Requests

\* A queue with at most one frame.
LEMMA ShortQueue ==
  ASSUME NEW S, NEW q \in Seq(S)
  PROVE  /\ Len(q) \in Nat
         /\ q = <<>> <=> Len(q) = 0
         /\ q # <<>> => Head(q) \in S /\ Tail(q) \in Seq(S) /\ Len(Tail(q)) = Len(q) - 1
         /\ \A e \in S : /\ Append(q, e) \in Seq(S) /\ Append(q, e) # <<>> /\ Len(Append(q, e)) = Len(q) + 1
                         /\ q = <<>> => Head(Append(q, e)) = e
<1>1. Len(q) \in Nat /\ (q = <<>> <=> Len(q) = 0)
  BY EmptySeq, LenProperties
<1>2. q # <<>> => Head(q) \in S /\ Tail(q) \in Seq(S) /\ Len(Tail(q)) = Len(q) - 1
  BY HeadTailProperties
<1>3. ASSUME NEW e \in S
      PROVE  /\ Append(q, e) \in Seq(S) /\ Append(q, e) # <<>> /\ Len(Append(q, e)) = Len(q) + 1
             /\ q = <<>> => Head(Append(q, e)) = e
  BY <1>1, AppendProperties
<1> QED
  BY <1>1, <1>2, <1>3

\* Both directions.
LEMMA Queues ==
  ASSUME RpcInv
  PROVE  /\ Len(c2s) \in Nat /\ Len(s2c) \in Nat /\ Len(c2s) + Len(s2c) <= 1
         /\ c2s = <<>> <=> Len(c2s) = 0
         /\ s2c = <<>> <=> Len(s2c) = 0
         /\ c2s # <<>> => Head(c2s) \in Messages /\ Tail(c2s) = <<>> /\ s2c = <<>>
         /\ s2c # <<>> => Head(s2c) \in Frames /\ Tail(s2c) = <<>> /\ c2s = <<>> /\ pending # NoCall
<1>1. c2s \in Seq(Messages) /\ s2c \in Seq(Frames) /\ Len(c2s) + Len(s2c) <= 1
  BY DEF RpcInv, TypeOK, InStep, Messages
<1>2. /\ Len(c2s) \in Nat /\ (c2s = <<>> <=> Len(c2s) = 0)
      /\ c2s # <<>> => Head(c2s) \in Messages /\ Tail(c2s) \in Seq(Messages) /\ Len(Tail(c2s)) = Len(c2s) - 1
  BY <1>1, ShortQueue
<1>3. /\ Len(s2c) \in Nat /\ (s2c = <<>> <=> Len(s2c) = 0)
      /\ s2c # <<>> => Head(s2c) \in Frames /\ Tail(s2c) \in Seq(Frames) /\ Len(Tail(s2c)) = Len(s2c) - 1
  BY <1>1, ShortQueue
<1> DEFINE m == Len(c2s)
           n == Len(s2c)
<1>a. m \in Nat /\ n \in Nat /\ m + n <= 1
  BY <1>1, <1>2, <1>3
<1>4. c2s # <<>> => Len(Tail(c2s)) = 0 /\ s2c = <<>>
  <2> SUFFICES ASSUME c2s # <<>> PROVE Len(Tail(c2s)) = 0 /\ s2c = <<>>
    OBVIOUS
  <2>1. m # 0 /\ Len(Tail(c2s)) = m - 1 /\ (s2c = <<>> <=> n = 0)
    BY <1>2, <1>3
  <2> HIDE DEF m, n
  <2> QED
    BY <1>a, <2>1
<1>5. s2c # <<>> => Len(Tail(s2c)) = 0 /\ c2s = <<>>
  <2> SUFFICES ASSUME s2c # <<>> PROVE Len(Tail(s2c)) = 0 /\ c2s = <<>>
    OBVIOUS
  <2>1. n # 0 /\ Len(Tail(s2c)) = n - 1 /\ (c2s = <<>> <=> m = 0)
    BY <1>2, <1>3
  <2> HIDE DEF m, n
  <2> QED
    BY <1>a, <2>1
<1>6. c2s # <<>> => Tail(c2s) = <<>>
  BY <1>2, <1>4, EmptySeq
<1>7. s2c # <<>> => Tail(s2c) = <<>>
  BY <1>3, <1>5, EmptySeq
<1>8. s2c # <<>> => pending # NoCall
  <2> SUFFICES ASSUME s2c # <<>> PROVE pending # NoCall
    OBVIOUS
  <2>1. Head(s2c).op = pending.op /\ Head(s2c).op # "none"
    BY <1>3 DEF RpcInv, InStep, Frames
  <2> QED
    BY <2>1, NoCallIsNone
<1> QED
  BY <1>1, <1>2, <1>3, <1>4, <1>5, <1>6, <1>7, <1>8

\* A request that the server serves while the link stands is the pending call.
LEMMA Served ==
  ASSUME RpcInv, NEW op \in {"register", "caps", "readback", "upload", "gemm"}, Requested(op)
  PROVE  /\ Head(c2s) \in Messages /\ Head(c2s).op = op /\ Tail(c2s) = <<>> /\ s2c = <<>>
         /\ server = "serving" /\ Head(c2s) # Bye
         /\ ~cut => pending = Head(c2s) /\ pending # NoCall /\ pending \in Requests /\ client = "open"
<1>1. /\ c2s # <<>> /\ Head(c2s).op = op /\ server = "serving" /\ Head(c2s) \in Messages
      /\ Tail(c2s) = <<>> /\ s2c = <<>>
  BY Queues DEF Requested
<1>2. Head(c2s) # Bye
  BY <1>1 DEF Bye
<1>3. ~cut => pending # NoCall /\ pending = Head(c2s)
  BY <1>1, <1>2 DEF RpcInv, InStep
<1>4. ~cut => pending \in Requests /\ client = "open"
  BY <1>3 DEF RpcInv, TypeOK, Farewell
<1> QED
  BY <1>1, <1>2, <1>3, <1>4

\* What a reply does to the queues.
LEMMA Replied ==
  ASSUME RpcInv, NEW op \in {"register", "caps", "readback", "upload", "gemm"}, Requested(op),
         NEW r \in [res : {"ok", "err"}, val : Vals \cup 0..MaxBuffers], Reply(r)
  PROVE  /\ c2s' = <<>> /\ s2c' \in Seq(Frames) /\ Len(s2c') <= 1
         /\ s2c' # <<>> => ~cut /\ Head(s2c') = [op |-> op, r |-> r] /\ pending.op = op
         /\ cut => s2c' = <<>>
         /\ ~cut => s2c' # <<>>
<1>1. /\ Head(c2s) \in Messages /\ Head(c2s).op = op /\ Tail(c2s) = <<>> /\ s2c = <<>>
      /\ ~cut => pending = Head(c2s)
  BY Served
<1>2. c2s' = <<>>
  BY <1>1 DEF Reply, Rest
<1>3. CASE cut
  BY <1>1, <1>2, <1>3, EmptySeq DEF Reply
<1>4. CASE ~cut
  <2>1. [op |-> op, r |-> r] \in Frames
    BY DEF Frames
  <2>2. s2c' = <<[op |-> op, r |-> r]>>
    BY <1>1, <1>4 DEF Reply
  <2> QED
    BY <1>1, <1>2, <1>4, <2>1, <2>2
<1> QED
  BY <1>3, <1>4

\* The invariant after a reply, but for the buffers.
LEMMA RepliedInv ==
  ASSUME RpcInv, NEW op \in {"register", "caps", "readback", "upload", "gemm"}, Requested(op),
         NEW r \in [res : {"ok", "err"}, val : Vals \cup 0..MaxBuffers], Reply(r),
         server' \in {"serving", "closed"},
         bufs' \in Seq(Buffers), Len(bufs') <= MaxBuffers, nextHandle' \in 1..(MaxBuffers + 1),
         TableInOrder'
  PROVE  RpcInv'
<1>1. /\ c2s' = <<>> /\ s2c' \in Seq(Frames) /\ Len(s2c') <= 1
      /\ s2c' # <<>> => Head(s2c') = [op |-> op, r |-> r] /\ pending.op = op
  BY Replied
<1>2. UNCHANGED <<client, pending, ret, cut>>
  BY DEF Reply
<1>3. TypeOK'
  BY <1>1, <1>2, EmptySeq DEF RpcInv, TypeOK, Buffers
<1>4. InStep'
  <2>1. Len(c2s') = 0 /\ Len(s2c') \in Nat
    BY <1>1, LenProperties, EmptySeq
  <2> QED
    BY <1>1, <1>2, <2>1 DEF InStep
<1>5. Farewell'
  BY <1>1, <1>2 DEF RpcInv, Farewell
<1> QED
  BY <1>2, <1>3, <1>4, <1>5 DEF RpcInv

-----------------------------------------------------------------------------
(* The server's handlers.                                                  *)

\* Where a handle is.
LEMMA Found ==
  ASSUME RpcInv, server = "serving", NEW h
  PROVE  /\ Find(h) = {h} \cap (1..Len(bufs))
         /\ Len(bufs) \in 0..MaxBuffers
         /\ \A i \in 1..Len(bufs) : bufs[i] \in Buffers /\ bufs[i].val \in Vals
<1>1. bufs \in Seq(Buffers) /\ Len(bufs) <= MaxBuffers /\ MaxBuffers \in Nat
  BY RpcAssumption DEF RpcInv, TypeOK, Buffers
<1>2. \A i \in 1..Len(bufs) : bufs[i] \in Buffers
  BY <1>1, ElementOfSeq
<1>3. \A i \in 1..Len(bufs) : bufs[i].handle = i
  BY DEF RpcInv, TableInOrder
<1>4. Len(bufs) \in 0..MaxBuffers
  BY <1>1, LenProperties
<1> QED
  BY <1>2, <1>3, <1>4 DEF Find, Buffers

\* Writing a buffer.
LEMMA Written ==
  ASSUME RpcInv, server = "serving", NEW h, NEW v \in Vals, Write(h, v)
  PROVE  /\ bufs' \in Seq(Buffers) /\ Len(bufs') = Len(bufs)
         /\ \A i \in 1..Len(bufs) : /\ bufs'[i].handle = bufs[i].handle
                                    /\ bufs'[i].val = IF i = h THEN v ELSE bufs[i].val
<1>1. /\ Find(h) = {h} \cap (1..Len(bufs)) /\ Len(bufs) \in Nat
      /\ \A i \in 1..Len(bufs) : bufs[i] \in Buffers
  BY Found
<1> DEFINE new(i) == IF i \in Find(h) THEN [bufs[i] EXCEPT !.val = v] ELSE bufs[i]
<1>2. \A i \in 1..Len(bufs) : /\ new(i) \in Buffers /\ new(i).handle = bufs[i].handle
                              /\ new(i).val = IF i = h THEN v ELSE bufs[i].val
  BY <1>1 DEF Buffers
<1>3. bufs' = [i \in 1..Len(bufs) |-> new(i)]
  BY DEF Write
<1> HIDE DEF new
<1> QED
  BY <1>1, <1>2, <1>3

LEMMA Answers ==
  /\ Err \in [res : {"ok", "err"}, val : Vals \cup 0..MaxBuffers]
  /\ \A v \in Vals \cup 0..MaxBuffers : Ok(v) \in [res : {"ok", "err"}, val : Vals \cup 0..MaxBuffers]
  /\ 0 \in Vals \cup 0..MaxBuffers
  BY RpcAssumption DEF Err, Ok

LEMMA TableTypes ==
  ASSUME RpcInv
  PROVE  /\ server \in {"serving", "closed"} /\ bufs \in Seq(Buffers) /\ Len(bufs) <= MaxBuffers
         /\ nextHandle \in 1..(MaxBuffers + 1) /\ MaxBuffers \in Nat
  BY RpcAssumption DEF RpcInv, TypeOK, Buffers

LEMMA RegisterInv ==
  ASSUME RpcInv, ServeRegister
  PROVE  RpcInv'
<1>1. Requested("register") /\ server = "serving"
  BY DEF ServeRegister, Requested
<1>2. ASSUME SlotFree, NEW v \in Vals, bufs' = Append(bufs, [handle |-> nextHandle, val |-> v]),
             nextHandle' = nextHandle + 1, Reply(Ok(nextHandle)), UNCHANGED server
      PROVE  RpcInv'
  <2>1. /\ nextHandle = Len(bufs) + 1 /\ Len(bufs) \in 0..MaxBuffers /\ Len(bufs) < MaxBuffers
        /\ \A i \in 1..Len(bufs) : bufs[i].handle = i
    BY <1>1, <1>2, Found DEF RpcInv, TableInOrder, SlotFree
  <2>2. nextHandle \in Handles /\ nextHandle' \in 1..(MaxBuffers + 1)
    BY <1>2, <2>1, RpcAssumption DEF Handles
  <2>3. [handle |-> nextHandle, val |-> v] \in Buffers
    BY <2>2 DEF Buffers
  <2>4. /\ bufs' \in Seq(Buffers) /\ Len(bufs') = Len(bufs) + 1
        /\ \A i \in 1..Len(bufs) : bufs'[i] = bufs[i]
        /\ bufs'[Len(bufs) + 1] = [handle |-> nextHandle, val |-> v]
    BY <1>2, <2>3, TableTypes, AppendProperties
  <2>5. TableInOrder'
    BY <1>2, <2>1, <2>4 DEF TableInOrder
  <2>6. Ok(nextHandle) \in [res : {"ok", "err"}, val : Vals \cup 0..MaxBuffers]
    BY <2>2, Answers DEF Handles
  <2> QED
    BY <1>1, <1>2, <2>1, <2>2, <2>4, <2>5, <2>6, TableTypes, RepliedInv
<1>3. ASSUME Reply(Err), Stay PROVE RpcInv'
  <2>1. TableInOrder'
    BY <1>3 DEF Stay, RpcInv, TableInOrder
  <2> QED
    BY <1>1, <1>3, <2>1, TableTypes, Answers, RepliedInv DEF Stay
<1> QED
  BY <1>2, <1>3 DEF ServeRegister

\* A handler that writes a buffer or none.
LEMMA WriteInv ==
  ASSUME RpcInv, NEW op \in {"upload", "gemm"}, Requested(op),
         NEW r \in [res : {"ok", "err"}, val : Vals \cup 0..MaxBuffers], Reply(r),
         UNCHANGED <<server, nextHandle>>,
         NEW h, NEW v \in Vals, UNCHANGED bufs \/ Write(h, v)
  PROVE  RpcInv'
<1>1. server = "serving"
  BY DEF Requested
<1>2. /\ bufs' \in Seq(Buffers) /\ Len(bufs') = Len(bufs)
      /\ \A i \in 1..Len(bufs) : bufs'[i].handle = bufs[i].handle
  BY <1>1, Written, TableTypes
<1>3. TableInOrder'
  BY <1>2 DEF RpcInv, TableInOrder
<1> QED
  BY <1>2, <1>3, TableTypes, RepliedInv

LEMMA StayInv ==
  ASSUME RpcInv, NEW op \in {"register", "caps", "readback", "upload", "gemm"}, Requested(op),
         NEW r \in [res : {"ok", "err"}, val : Vals \cup 0..MaxBuffers], Reply(r),
         Stay \/ Finish
  PROVE  RpcInv'
<1>1. CASE Stay
  <2>1. TableInOrder'
    BY <1>1 DEF Stay, RpcInv, TableInOrder
  <2> QED
    BY <1>1, <2>1, TableTypes, RepliedInv DEF Stay
<1>2. CASE Finish
  <2>1. TableInOrder' /\ bufs' \in Seq(Buffers) /\ Len(bufs') = 0
    BY <1>2, EmptySeq DEF Finish, TableInOrder
  <2> QED
    BY <1>2, <2>1, TableTypes, RepliedInv DEF Finish
<1> QED
  BY <1>1, <1>2

\* The content that a gemm writes.
GemmValue ==
  LET f == Head(c2s)
      content(h) == bufs[CHOOSE i \in Find(h) : TRUE].val
  IN  Gemm(content(f.a), content(f.b), content(f.c))

LEMMA GemmContent ==
  ASSUME RpcInv, server = "serving",
         Find(Head(c2s).a) # {}, Find(Head(c2s).b) # {}, Find(Head(c2s).c) # {}
  PROVE  /\ Head(c2s).a \in 1..Len(bufs) /\ Head(c2s).b \in 1..Len(bufs) /\ Head(c2s).c \in 1..Len(bufs)
         /\ GemmValue = Gemm(bufs[Head(c2s).a].val, bufs[Head(c2s).b].val, bufs[Head(c2s).c].val)
         /\ GemmValue \in Vals
<1> DEFINE content(h) == bufs[CHOOSE i \in Find(h) : TRUE].val
<1>1. ASSUME NEW h, Find(h) # {}
      PROVE  h \in 1..Len(bufs) /\ content(h) = bufs[h].val /\ bufs[h].val \in Vals
  <2>1. Find(h) = {h} \cap (1..Len(bufs)) /\ \A i \in 1..Len(bufs) : bufs[i].val \in Vals
    BY Found
  <2>2. Find(h) = {h} /\ h \in 1..Len(bufs)
    BY <1>1, <2>1
  <2>3. (CHOOSE i \in Find(h) : TRUE) = h
    BY <2>2
  <2> QED
    BY <2>1, <2>2, <2>3
<1>2. GemmValue = Gemm(content(Head(c2s).a), content(Head(c2s).b), content(Head(c2s).c))
  BY DEF GemmValue
<1> HIDE DEF content
<1> QED
  BY <1>1, <1>2, RpcAssumption

LEMMA UploadInv ==
  ASSUME RpcInv, ServeUpload
  PROVE  RpcInv'
<1>1. Requested("upload") /\ server = "serving"
  BY DEF ServeUpload, Requested
<1>2. Head(c2s) \in Messages /\ Head(c2s).v \in Vals
  BY <1>1, Served, RequestFields
<1>3. CASE Find(Head(c2s).h) = {}
  BY <1>1, <1>3, StayInv, Answers DEF ServeUpload
<1>4. CASE Find(Head(c2s).h) # {}
  <2>1. UNCHANGED <<server, nextHandle>> /\ (UNCHANGED bufs \/ Write(Head(c2s).h, Head(c2s).v))
    BY <1>4 DEF ServeUpload
  <2>2. Reply(Ok(0)) \/ Reply(Err)
    BY <1>4 DEF ServeUpload
  <2> QED
    BY <1>1, <1>2, <2>1, <2>2, WriteInv, Answers
<1> QED
  BY <1>3, <1>4

LEMMA GemmInv ==
  ASSUME RpcInv, ServeGemm
  PROVE  RpcInv'
<1>1. Requested("gemm") /\ server = "serving"
  BY DEF ServeGemm, Requested
<1>2. CASE Find(Head(c2s).a) = {} \/ Find(Head(c2s).b) = {} \/ Find(Head(c2s).c) = {}
  BY <1>1, <1>2, StayInv, Answers DEF ServeGemm
<1>3. CASE ~(Find(Head(c2s).a) = {} \/ Find(Head(c2s).b) = {} \/ Find(Head(c2s).c) = {})
  <2>1. UNCHANGED <<server, nextHandle>> /\ (UNCHANGED bufs \/ Write(Head(c2s).c, GemmValue))
    BY <1>3 DEF ServeGemm, GemmValue, Target
  <2>2. Reply(Ok(0)) \/ Reply(Err)
    BY <1>3 DEF ServeGemm
  <2>3. GemmValue \in Vals
    BY <1>1, <1>3, GemmContent
  <2> QED
    BY <1>1, <2>1, <2>2, <2>3, WriteInv, Answers
<1> QED
  BY <1>2, <1>3

\* The session ends and what it had read goes unanswered.
LEMMA FinishInv ==
  ASSUME RpcInv, Finish, c2s' = <<>>, UNCHANGED <<client, pending, ret, s2c, cut>>
  PROVE  RpcInv'
<1>1. bufs' \in Seq(Buffers) /\ Len(bufs') = 0 /\ Len(c2s') = 0 /\ c2s' \in Seq(Messages)
  BY EmptySeq DEF Finish
<1>2. Len(s2c) \in Nat /\ Len(s2c) <= 1
  BY Queues
<1>3. TypeOK'
  BY <1>1, RpcAssumption DEF Finish, RpcInv, TypeOK, Buffers, Messages
<1>4. InStep'
  BY <1>1, <1>2 DEF RpcInv, InStep
<1>5. TableInOrder' /\ Farewell'
  BY DEF Finish, RpcInv, TableInOrder, Farewell
<1> QED
  BY <1>3, <1>4, <1>5 DEF RpcInv

LEMMA ReadbackInv ==
  ASSUME RpcInv, ServeReadback
  PROVE  RpcInv'
<1>1. Requested("readback") /\ server = "serving"
  BY DEF ServeReadback, Requested
<1>2. CASE Reply(Err) /\ (Stay \/ Finish)
  BY <1>1, <1>2, StayInv, Answers
<1>3. CASE Finish /\ c2s' = Rest /\ UNCHANGED <<client, pending, ret, s2c, cut>>
  <2>1. c2s' = <<>>
    BY <1>1, <1>3, Served DEF Rest
  <2> QED
    BY <1>3, <2>1, FinishInv
<1>4. ASSUME NEW i \in Find(Head(c2s).h), Reply(Ok(bufs[i].val)), StayIfSent
      PROVE  RpcInv'
  <2>1. bufs[i].val \in Vals
    BY <1>1, Found DEF Find
  <2> QED
    BY <1>1, <1>4, <2>1, StayInv, Answers DEF StayIfSent
<1> QED
  BY <1>2, <1>3, <1>4 DEF ServeReadback

LEMMA EndInv ==
  ASSUME RpcInv, ServeEnd
  PROVE  RpcInv'
<1>1. c2s' = <<>>
  <2>1. CASE Requested("bye") /\ c2s' = Rest
    BY <2>1, Queues DEF Requested, Rest
  <2>2. CASE c2s = <<>> /\ UNCHANGED c2s
    BY <2>2
  <2> QED
    BY <2>1, <2>2 DEF ServeEnd
<1> QED
  BY <1>1, FinishInv DEF ServeEnd

LEMMA ServerInv ==
  ASSUME RpcInv,
         ServeRegister \/ ServeUpload \/ ServeGemm \/ ServeReadback \/ ServeCaps \/ ServeEnd
  PROVE  RpcInv'
<1>1. CASE ServeCaps
  BY <1>1, StayInv, Answers DEF ServeCaps, StayIfSent
<1> QED
  BY <1>1, RegisterInv, UploadInv, GemmInv, ReadbackInv, EndInv

-----------------------------------------------------------------------------
(* The client's calls and the link.                                        *)

\* Nothing is on its way when no call is.
LEMMA Quiet ==
  ASSUME RpcInv, pending = NoCall, client # "closed"
  PROVE  s2c = <<>> /\ (~cut => c2s = <<>>)
<1>1. s2c = <<>>
  BY Queues
<1>2. ~cut => c2s = <<>>
  BY DEF RpcInv, InStep, Farewell
<1> QED
  BY <1>1, <1>2

\* A frame that the client sends when nothing is on its way.
LEMMA Delivered ==
  ASSUME RpcInv, pending = NoCall, client # "closed", NEW f \in Messages, Deliver(f)
  PROVE  /\ c2s' \in Seq(Messages) /\ Len(c2s') \in 0..1
         /\ cut => c2s' = c2s
         /\ server = "closed" => c2s' = <<>>
         /\ ~cut /\ c2s' # <<>> => Head(c2s') = f
<1>1. c2s \in Seq(Messages) /\ Len(c2s) \in 0..1 /\ (~cut => c2s = <<>>)
  <2>1. PICK m \in Nat, n \in Nat : Len(c2s) = m /\ Len(s2c) = n /\ m + n <= 1
    BY Queues
  <2>2. m \in 0..1
    BY <2>1
  <2>3. Len(c2s) \in 0..1
    BY <2>1, <2>2, Zenon
  <2> QED
    BY <2>3, Quiet DEF RpcInv, TypeOK, Messages
<1>2. CASE cut \/ server = "closed"
  BY <1>1, <1>2 DEF Deliver, RpcInv, Farewell
<1>3. CASE ~cut /\ server # "closed"
  <2>1. c2s' = Append(c2s, f) /\ c2s = <<>> /\ Len(c2s) = 0
    BY <1>1, <1>3, EmptySeq DEF Deliver
  <2>2. c2s' \in Seq(Messages) /\ c2s' # <<>> /\ Len(c2s') = 1 /\ Head(c2s') = f
    BY <1>1, <2>1, ShortQueue
  <2> QED
    BY <1>3, <2>2
<1> QED
  BY <1>2, <1>3

LEMMA CallInv ==
  ASSUME RpcInv, NEW k \in Requests, Call(k)
  PROVE  RpcInv'
<1>1. /\ pending = NoCall /\ client = "open" /\ k \in Messages /\ Deliver(k)
      /\ pending' = k /\ k # NoCall /\ k # Bye
      /\ UNCHANGED <<client, ret, s2c, cut, server, bufs, nextHandle>>
  <2>1. client = "open"
    BY DEF Call, RpcInv, TypeOK
  <2> QED BY <2>1, NoCallIsNone DEF Call, Messages
<1>2. /\ c2s' \in Seq(Messages) /\ Len(c2s') \in 0..1 /\ (cut => c2s' = c2s)
      /\ server = "closed" => c2s' = <<>>
      /\ ~cut /\ c2s' # <<>> => Head(c2s') = k
  BY <1>1, Delivered
<1>3. s2c = <<>> /\ Len(s2c) = 0
  BY <1>1, Quiet, EmptySeq
<1>4. TypeOK'
  BY <1>1, <1>2 DEF RpcInv, TypeOK, Messages
<1>5. InStep'
  <2>1. Len(c2s') + Len(s2c') <= 1
    <3>1. \A m \in 0..1, n \in {0} : m + n <= 1
      OBVIOUS
    <3>2. Len(s2c') = 0
      BY <1>1, <1>3
    <3> QED
      BY <1>2, <3>1, <3>2, Zenon
  <2>2. ~cut' /\ c2s' # <<>> => Head(c2s') = pending'
    BY <1>1, <1>2
  <2> QED
    BY <1>1, <1>3, <2>1, <2>2 DEF InStep
<1>6. Farewell' /\ TableInOrder'
  BY <1>1, <1>2 DEF RpcInv, Farewell, TableInOrder
<1> QED
  BY <1>1, <1>4, <1>5, <1>6 DEF RpcInv

LEMMA CloseInv ==
  ASSUME RpcInv, Close
  PROVE  RpcInv'
<1>1. /\ pending = NoCall /\ client # "closed" /\ Bye \in Messages /\ Deliver(Bye)
      /\ client' = "closed" /\ s2c' = <<>>
      /\ UNCHANGED <<pending, ret, cut, server, bufs, nextHandle>>
  BY DEF Close, Messages
<1>2. /\ c2s' \in Seq(Messages) /\ Len(c2s') \in 0..1 /\ (cut => c2s' = c2s)
      /\ server = "closed" => c2s' = <<>>
      /\ ~cut /\ c2s' # <<>> => Head(c2s') = Bye
  BY <1>1, Delivered
<1>3. s2c' \in Seq(Frames) /\ Len(s2c') = 0
  BY <1>1, EmptySeq
<1>4. TypeOK'
  BY <1>1, <1>2, <1>3 DEF RpcInv, TypeOK, Messages
<1>5. InStep'
  <2>1. Len(c2s') + Len(s2c') <= 1
    <3>1. \A m \in 0..1, n \in {0} : m + n <= 1
      OBVIOUS
    <3> QED
      BY <1>2, <1>3, <3>1, Zenon
  <2>2. ~cut' /\ c2s' # <<>> => Head(c2s') = Bye
    BY <1>1, <1>2
  <2> QED
    BY <1>1, <2>1, <2>2 DEF InStep
<1>6. Farewell' /\ TableInOrder'
  BY <1>1, <1>2 DEF RpcInv, Farewell, TableInOrder
<1> QED
  BY <1>1, <1>4, <1>5, <1>6 DEF RpcInv

\* Every reply is the one the client waits for.
LEMMA ReceiveInv ==
  ASSUME RpcInv, Receive
  PROVE  RpcInv' /\ Echoed /\ s2c' = <<>> /\ UNCHANGED client
<1>1. /\ pending # NoCall /\ s2c # <<>> /\ Head(s2c) \in Frames /\ s2c' = <<>> /\ c2s = <<>>
  BY Queues DEF Receive
<1>2. Echoed
  BY <1>1 DEF RpcInv, InStep, Echoed
<1>3. /\ ret' = Head(s2c).r /\ pending' = NoCall
      /\ UNCHANGED <<client, c2s, cut, server, bufs, nextHandle>>
  BY <1>2 DEF Receive, Returns
<1>4. s2c' \in Seq(Frames) /\ Len(s2c') = 0 /\ Len(c2s) = 0
  BY <1>1, EmptySeq
<1>5. TypeOK'
  BY <1>1, <1>3, <1>4 DEF RpcInv, TypeOK, Frames
<1>6. InStep' /\ Farewell' /\ TableInOrder'
  BY <1>1, <1>3, <1>4 DEF RpcInv, InStep, Farewell, TableInOrder
<1> QED
  BY <1>1, <1>2, <1>3, <1>5, <1>6 DEF RpcInv

LEMMA ReceiveClosedInv ==
  ASSUME RpcInv, ReceiveClosed
  PROVE  RpcInv'
<1>1. /\ s2c = <<>> /\ (cut \/ server = "closed") /\ ret' = Err /\ pending' = NoCall
      /\ UNCHANGED <<client, c2s, s2c, cut, server, bufs, nextHandle>>
  BY DEF ReceiveClosed, Returns
<1>2. TypeOK'
  BY <1>1, Answers DEF RpcInv, TypeOK
<1>3. InStep' /\ Farewell' /\ TableInOrder'
  BY <1>1 DEF RpcInv, InStep, Farewell, TableInOrder
<1> QED
  BY <1>1, <1>2, <1>3 DEF RpcInv

LEMMA CutInv ==
  ASSUME RpcInv, Cut
  PROVE  RpcInv'
<1>1. /\ cut' = TRUE /\ (c2s' = c2s \/ c2s' = <<>>) /\ (s2c' = s2c \/ s2c' = <<>>)
      /\ UNCHANGED <<client, pending, ret, server, bufs, nextHandle>>
  BY DEF Cut
<1>2. c2s' \in Seq(Messages) /\ s2c' \in Seq(Frames) /\ Len(c2s') + Len(s2c') <= 1
  <2>1. Len(c2s) \in Nat /\ Len(s2c) \in Nat /\ Len(c2s) + Len(s2c) <= 1
    BY Queues
  <2> QED
    BY <1>1, <2>1, EmptySeq DEF RpcInv, TypeOK, Messages
<1>3. TypeOK'
  BY <1>1, <1>2 DEF RpcInv, TypeOK, Messages
<1>4. InStep' /\ Farewell' /\ TableInOrder'
  BY <1>1, <1>2 DEF RpcInv, InStep, Farewell, TableInOrder
<1> QED
  BY <1>1, <1>3, <1>4 DEF RpcInv

LEMMA ReconnectInv ==
  ASSUME RpcInv, Reconnect
  PROVE  RpcInv'
<1>1. /\ c2s' = <<>> /\ s2c' = <<>> /\ bufs' = <<>> /\ nextHandle' = 1 /\ cut' = FALSE
      /\ client' = "open" /\ server' = "serving" /\ UNCHANGED <<pending, ret>>
  BY DEF Reconnect
<1>2. Len(c2s') = 0 /\ Len(s2c') = 0 /\ Len(bufs') = 0
  BY <1>1, EmptySeq
<1>3. TypeOK'
  <2>1. /\ bufs' \in Seq([handle : Handles, val : Vals]) /\ Len(bufs') <= MaxBuffers
        /\ nextHandle' \in 1..(MaxBuffers + 1) /\ c2s' \in Seq(Messages) /\ s2c' \in Seq(Frames)
    BY <1>1, <1>2, EmptySeq, RpcAssumption
  <2>2. /\ pending' \in Requests \cup {NoCall}
        /\ ret' \in [res : {"none", "ok", "err"}, val : Vals \cup 0..MaxBuffers]
    BY <1>1 DEF RpcInv, TypeOK
  <2> QED
    BY <1>1, <2>1, <2>2, Zenon DEF TypeOK, Messages
<1>4. InStep' /\ Farewell' /\ TableInOrder'
  BY <1>1, <1>2 DEF InStep, Farewell, TableInOrder
<1> QED
  BY <1>1, <1>3, <1>4 DEF RpcInv

LEMMA RpcInit == Init => RpcInv
<1> SUFFICES ASSUME Init PROVE RpcInv
  OBVIOUS
<1>1. Len(c2s) = 0 /\ Len(s2c) = 0 /\ Len(bufs) = 0
  BY EmptySeq DEF Init
<1>2. TypeOK
  <2>1. /\ bufs \in Seq([handle : Handles, val : Vals]) /\ Len(bufs) <= MaxBuffers
        /\ nextHandle \in 1..(MaxBuffers + 1) /\ c2s \in Seq(Messages) /\ s2c \in Seq(Frames)
    BY <1>1, EmptySeq, RpcAssumption DEF Init
  <2>2. ret \in [res : {"none", "ok", "err"}, val : Vals \cup 0..MaxBuffers]
    BY RpcAssumption DEF Init, None
  <2> QED
    BY <2>1, <2>2, Zenon DEF Init, TypeOK, Messages
<1> QED
  BY <1>1, <1>2 DEF Init, RpcInv, InStep, TableInOrder, Farewell

LEMMA RpcStep == RpcInv /\ [Next]_vars => RpcInv'
<1> SUFFICES ASSUME RpcInv, [Next]_vars PROVE RpcInv'
  OBVIOUS
<1>1. CASE UNCHANGED vars
  BY <1>1 DEF vars, RpcInv, TypeOK, InStep, TableInOrder, Farewell
<1> QED
  BY <1>1, ServerInv, CallInv, CloseInv, ReceiveInv, ReceiveClosedInv, CutInv, ReconnectInv DEF Next

LEMMA RpcInvHolds == Spec => []RpcInv
  BY RpcInit, RpcStep, PTL DEF Spec

-----------------------------------------------------------------------------
(* The results.                                                            *)

\* The variables have their types: a session registers no more than its table
\* holds, and no handle passes it.
THEOREM RpcTypes == Spec => []TypeOK
<1>1. RpcInv => TypeOK
  BY DEF RpcInv
<1> QED
  BY <1>1, RpcInvHolds, PTL

\* The protocol's two ends never drift apart, though either may stop anywhere.
THEOREM StaysInStep == Spec => []InStep
<1>1. RpcInv => InStep
  BY DEF RpcInv
<1> QED
  BY <1>1, RpcInvHolds, PTL

\* The check of the reply's opcode in the client's calls never fails.
THEOREM NeverOutOfStep == Spec => [](client # "desync")
<1>1. RpcInv => client # "desync"
  BY DEF RpcInv
<1> QED
  BY <1>1, RpcInvHolds, PTL

-----------------------------------------------------------------------------
(* The mapping, and the abstract steps in its terms.                       *)

Mem == IF Up THEN [i \in 1..Len(bufs) |-> bufs[i].val] ELSE <<>>
Outcome == IF s2c = <<>> THEN None ELSE Head(s2c).r

LEMMA PerformIs ==
  ASSUME Up, Up', pending # NoCall, Outcome = None, UNCHANGED <<pending, ret>>,
         NEW e \in Abstract!Effects(Mem, pending), Mem' = e.mem, Outcome' = Ok(e.val)
  PROVE  Abstract!Next
<1>1. Abstract!Perform
  BY DEF Abstract!Perform, Abstract!NoCall, Abstract!Unknown, Abstract!Done, Mem, Outcome, NoCall, None, Ok
<1> QED
  BY <1>1 DEF Abstract!Next

LEMMA RefuseIs ==
  ASSUME Up, pending # NoCall, Outcome = None, UNCHANGED <<pending, ret>>, Outcome' = Err,
         \/ Up' /\ Mem' = Mem
         \/ Up' /\ \E e \in Abstract!Effects(Mem, pending) : Mem' = e.mem
         \/ ~Up' /\ Mem' = <<>>
  PROVE  Abstract!Next
<1>1. Abstract!Refuse
  BY DEF Abstract!Refuse, Abstract!NoCall, Abstract!Unknown, Abstract!Failed, Mem, Outcome, NoCall, None, Err, Up
<1> QED
  BY <1>1 DEF Abstract!Next

LEMMA DropIs ==
  ASSUME Up, ~Up', Mem' = <<>>, Outcome' \in {Outcome, None}, UNCHANGED <<pending, ret>>
  PROVE  Abstract!Next
<1>1. Abstract!Drop
  BY DEF Abstract!Drop, Abstract!Unknown, Mem, Outcome, None, Up
<1> QED
  BY <1>1 DEF Abstract!Next

LEMMA DownIs ==
  ASSUME ~Up, ~Up', Outcome' \in {Outcome, None}, UNCHANGED <<pending, ret>>
  PROVE  [Abstract!Next]_(Abstract!vars)
<1>1. CASE Outcome' = Outcome
  BY <1>1 DEF Abstract!vars, Outcome, Up
<1>2. CASE Outcome' = None
  <2>1. Abstract!LoseAnswer
    BY <1>2 DEF Abstract!LoseAnswer, Abstract!Unknown, Outcome, None, Up
  <2> QED
    BY <2>1 DEF Abstract!Next
<1> QED
  BY <1>1, <1>2

-----------------------------------------------------------------------------
(* The handlers.                                                           *)

\* What a reply is to the client, who may have gone.
LEMMA ReplyOutcome ==
  ASSUME RpcInv, NEW op \in {"register", "caps", "readback", "upload", "gemm"}, Requested(op),
         NEW r \in [res : {"ok", "err"}, val : Vals \cup 0..MaxBuffers], Reply(r)
  PROVE  /\ Outcome = None /\ UNCHANGED <<client, pending, ret, cut>>
         /\ Up => /\ Outcome' = r /\ pending = Head(c2s) /\ pending # NoCall /\ pending.op = op
         /\ ~Up => Outcome' = None /\ ~Up'
<1>1. s2c = <<>> /\ server = "serving" /\ Head(c2s).op = op
  BY Served
<1>2. ~cut => client = "open" /\ pending = Head(c2s) /\ pending # NoCall
  BY Served
<1>3. UNCHANGED <<client, pending, ret, cut>>
  BY DEF Reply
<1>4. CASE Up
  <2>1. ~cut /\ s2c' # <<>> /\ Head(s2c') = [op |-> op, r |-> r]
    BY <1>4, Replied DEF Up
  <2> QED
    BY <1>1, <1>2, <1>3, <1>4, <2>1 DEF Outcome
<1>5. CASE ~Up
  <2>1. cut /\ s2c' = <<>>
    BY <1>1, <1>2, <1>5, Replied DEF Up
  <2> QED
    BY <1>1, <1>3, <1>5, <2>1 DEF Outcome, Up
<1> QED
  BY <1>4, <1>5

\* A reply when the client cannot be reached changes nothing for it.
LEMMA ReplyDown ==
  ASSUME RpcInv, NEW op \in {"register", "caps", "readback", "upload", "gemm"}, Requested(op),
         NEW r \in [res : {"ok", "err"}, val : Vals \cup 0..MaxBuffers], Reply(r), ~Up
  PROVE  [Abstract!Next]_(Abstract!vars)
  BY ReplyOutcome, DownIs

\* A refusal that leaves the buffers alone, or ends the session.
LEMMA RefusedStep ==
  ASSUME RpcInv, NEW op \in {"register", "caps", "readback", "upload", "gemm"}, Requested(op),
         Reply(Err), Stay \/ Finish
  PROVE  [Abstract!Next]_(Abstract!vars)
<1>1. CASE Up
  <2>1. /\ Outcome = None /\ Outcome' = Err /\ pending # NoCall
        /\ UNCHANGED <<client, pending, ret, cut>>
    BY <1>1, ReplyOutcome, Answers
  <2>2. CASE Stay
    BY <1>1, <2>1, <2>2, RefuseIs DEF Stay, Up, Mem
  <2>3. CASE Finish
    BY <1>1, <2>1, <2>3, RefuseIs DEF Finish, Up, Mem
  <2> QED
    BY <2>2, <2>3
<1>2. CASE ~Up
  BY <1>2, ReplyDown, Answers
<1> QED
  BY <1>1, <1>2

LEMMA RegisterStep ==
  ASSUME RpcInv, ServeRegister
  PROVE  [Abstract!Next]_(Abstract!vars)
<1>1. Requested("register") /\ server = "serving"
  BY DEF ServeRegister, Requested
<1>2. ASSUME SlotFree, NEW v \in Vals, bufs' = Append(bufs, [handle |-> nextHandle, val |-> v]),
             Reply(Ok(nextHandle)), UNCHANGED server
      PROVE  [Abstract!Next]_(Abstract!vars)
  <2>1. /\ nextHandle = Len(bufs) + 1 /\ Len(bufs) \in 0..MaxBuffers /\ Len(bufs) < MaxBuffers
        /\ MaxBuffers \in Nat
    BY <1>1, <1>2, Found, RpcAssumption DEF RpcInv, TableInOrder, SlotFree
  <2>2. nextHandle \in Handles
    BY <2>1 DEF Handles
  <2>3. Ok(nextHandle) \in [res : {"ok", "err"}, val : Vals \cup 0..MaxBuffers]
    BY <2>2, Answers DEF Handles
  <2>4. CASE Up
    <3>1. /\ Outcome = None /\ Outcome' = Ok(nextHandle) /\ pending # NoCall /\ pending.op = "register"
          /\ UNCHANGED <<client, pending, ret, cut>>
      BY <1>1, <1>2, <2>3, <2>4, ReplyOutcome
    <3>2. Up'
      BY <1>2, <2>4, <3>1 DEF Up
    <3>3. [handle |-> nextHandle, val |-> v] \in Buffers /\ bufs \in Seq(Buffers)
      BY <2>2, TableTypes DEF Buffers
    <3>4. /\ Len(bufs') = Len(bufs) + 1
          /\ \A i \in 1..Len(bufs) : bufs'[i] = bufs[i]
          /\ bufs'[Len(bufs) + 1] = [handle |-> nextHandle, val |-> v]
      BY <1>2, <3>3, AppendProperties
    <3>5. Mem = [i \in 1..Len(bufs) |-> bufs[i].val] /\ Mem \in Seq(Vals) /\ Len(Mem) = Len(bufs)
      <4>1. \A i \in 1..Len(bufs) : bufs[i].val \in Vals
        BY <1>1, Found
      <4> QED
        BY <2>1, <2>4, <4>1 DEF Mem
    <3>6. Mem' = [i \in 1..(Len(bufs) + 1) |-> IF i <= Len(bufs) THEN bufs[i].val ELSE v]
      BY <2>1, <3>2, <3>4 DEF Mem
    <3>7. Mem' = Append(Mem, v)
      <4>1. /\ Append(Mem, v) \in Seq(Vals) /\ Len(Append(Mem, v)) = Len(bufs) + 1
            /\ \A i \in 1..Len(bufs) : Append(Mem, v)[i] = bufs[i].val
            /\ Append(Mem, v)[Len(bufs) + 1] = v
        BY <3>5, AppendProperties
      <4>2. /\ Mem' \in Seq(Vals) /\ Len(Mem') = Len(bufs) + 1
            /\ \A i \in 1..Len(bufs) : Mem'[i] = bufs[i].val
            /\ Mem'[Len(bufs) + 1] = v
        <5>1. \A i \in 1..(Len(bufs) + 1) : (IF i <= Len(bufs) THEN bufs[i].val ELSE v) \in Vals
          BY <1>1, <2>1, Found
        <5> QED
          BY <2>1, <3>6, <5>1
      <4>3. \A i \in 1..(Len(bufs) + 1) : Mem'[i] = Append(Mem, v)[i]
        BY <2>1, <4>1, <4>2
      <4> QED
        BY <4>1, <4>2, <4>3, SeqEqual
    <3> DEFINE e == [mem |-> Append(Mem, v), val |-> Len(Mem) + 1]
    <3>8. e \in Abstract!Effects(Mem, pending)
      BY <2>1, <3>1, <3>5 DEF Abstract!Effects
    <3>9. Mem' = e.mem /\ Outcome' = Ok(e.val)
      BY <2>1, <3>1, <3>5, <3>7
    <3> QED
      BY <2>4, <3>1, <3>2, <3>8, <3>9, PerformIs
  <2>5. CASE ~Up
    BY <1>1, <1>2, <2>3, <2>5, ReplyDown
  <2> QED
    BY <2>4, <2>5
<1>3. ASSUME Reply(Err), Stay PROVE [Abstract!Next]_(Abstract!vars)
  BY <1>1, <1>3, RefusedStep
<1> QED
  BY <1>2, <1>3 DEF ServeRegister

\* A written buffer, as the client's memory shows it.
LEMMA WrittenMem ==
  ASSUME RpcInv, Up, Up', NEW h \in 1..Len(bufs), NEW v \in Vals, Write(h, v)
  PROVE  Mem' = [Mem EXCEPT ![h] = v]
<1>1. /\ Len(bufs') = Len(bufs)
      /\ \A i \in 1..Len(bufs) : bufs'[i].val = IF i = h THEN v ELSE bufs[i].val
  BY Written DEF Up
<1>2. Mem = [i \in 1..Len(bufs) |-> bufs[i].val]
  BY DEF Mem
<1>3. Mem' = [i \in 1..Len(bufs) |-> bufs'[i].val]
  BY <1>1 DEF Mem
<1> QED
  BY <1>1, <1>2, <1>3

\* A handler that writes one buffer, done or refused.
LEMMA WriteStep ==
  ASSUME RpcInv, NEW op \in {"upload", "gemm"}, Requested(op),
         NEW h \in 1..Len(bufs), NEW v \in Vals,
         Up => [mem |-> [Mem EXCEPT ![h] = v], val |-> 0] \in Abstract!Effects(Mem, Head(c2s)),
         UNCHANGED <<server, nextHandle>>,
         \/ Write(h, v) /\ Reply(Ok(0))
         \/ Reply(Err) /\ (UNCHANGED bufs \/ Write(h, v))
  PROVE  [Abstract!Next]_(Abstract!vars)
<1>1. CASE ~Up
  BY <1>1, ReplyDown, Answers
<1>2. CASE Up
  <2> DEFINE e == [mem |-> [Mem EXCEPT ![h] = v], val |-> 0]
  <2>1. /\ Outcome = None /\ UNCHANGED <<client, pending, ret, cut>> /\ pending # NoCall
        /\ pending = Head(c2s)
    BY <1>2, ReplyOutcome, Answers
  <2>2. Up' /\ e \in Abstract!Effects(Mem, pending)
    BY <1>2, <2>1 DEF Up
  <2>3. Write(h, v) => Mem' = e.mem
    BY <1>2, <2>2, WrittenMem
  <2>4. UNCHANGED bufs => Mem' = Mem
    BY <1>2, <2>2 DEF Mem
  <2> HIDE DEF e
  <2>5. CASE Write(h, v) /\ Reply(Ok(0))
    <3>1. Outcome' = Ok(0)
      BY <1>2, <2>5, ReplyOutcome, Answers
    <3> QED
      BY <1>2, <2>1, <2>2, <2>3, <2>5, <3>1, PerformIs DEF e
  <2>6. CASE Reply(Err) /\ (UNCHANGED bufs \/ Write(h, v))
    <3>1. Outcome' = Err
      BY <1>2, <2>6, ReplyOutcome, Answers
    <3> QED
      BY <1>2, <2>1, <2>2, <2>3, <2>4, <2>6, <3>1, RefuseIs
  <2> QED
    BY <2>5, <2>6
<1> QED
  BY <1>1, <1>2

LEMMA UploadStep ==
  ASSUME RpcInv, ServeUpload
  PROVE  [Abstract!Next]_(Abstract!vars)
<1>1. Requested("upload") /\ server = "serving"
  BY DEF ServeUpload, Requested
<1>2. Head(c2s).op = "upload" /\ Head(c2s).v \in Vals
  BY <1>1, Served, RequestFields
<1>3. CASE Find(Head(c2s).h) = {}
  BY <1>1, <1>3, RefusedStep DEF ServeUpload
<1>4. CASE Find(Head(c2s).h) # {}
  <2>1. Head(c2s).h \in 1..Len(bufs) /\ Len(bufs) \in Nat
    BY <1>1, <1>4, Found
  <2>2. Up => [mem |-> [Mem EXCEPT ![Head(c2s).h] = Head(c2s).v], val |-> 0]
                \in Abstract!Effects(Mem, Head(c2s))
    <3>1. Up => Len(Mem) = Len(bufs)
      BY <2>1 DEF Mem
    <3> QED
      BY <1>2, <2>1, <3>1 DEF Abstract!Effects
  <2>3. /\ UNCHANGED <<server, nextHandle>>
        /\ \/ Write(Head(c2s).h, Head(c2s).v) /\ Reply(Ok(0))
           \/ Reply(Err) /\ (UNCHANGED bufs \/ Write(Head(c2s).h, Head(c2s).v))
    BY <1>4 DEF ServeUpload
  <2> QED
    BY <1>1, <1>2, <2>1, <2>2, <2>3, WriteStep
<1> QED
  BY <1>3, <1>4

LEMMA GemmStep ==
  ASSUME RpcInv, ServeGemm
  PROVE  [Abstract!Next]_(Abstract!vars)
<1>1. Requested("gemm") /\ server = "serving" /\ Head(c2s).op = "gemm"
  BY DEF ServeGemm, Requested
<1>2. CASE Find(Head(c2s).a) = {} \/ Find(Head(c2s).b) = {} \/ Find(Head(c2s).c) = {}
  BY <1>1, <1>2, RefusedStep DEF ServeGemm
<1>3. CASE ~(Find(Head(c2s).a) = {} \/ Find(Head(c2s).b) = {} \/ Find(Head(c2s).c) = {})
  <2> DEFINE f == Head(c2s)
  <2>1. /\ f.a \in 1..Len(bufs) /\ f.b \in 1..Len(bufs) /\ f.c \in 1..Len(bufs)
        /\ GemmValue = Gemm(bufs[f.a].val, bufs[f.b].val, bufs[f.c].val)
        /\ GemmValue \in Vals /\ Len(bufs) \in Nat
    BY <1>1, <1>3, GemmContent, Found
  <2>2. Up => [mem |-> [Mem EXCEPT ![f.c] = GemmValue], val |-> 0] \in Abstract!Effects(Mem, f)
    <3> SUFFICES ASSUME Up
                 PROVE  [mem |-> [Mem EXCEPT ![f.c] = GemmValue], val |-> 0] \in Abstract!Effects(Mem, f)
      OBVIOUS
    <3>1. /\ Len(Mem) = Len(bufs) /\ Mem[f.a] = bufs[f.a].val /\ Mem[f.b] = bufs[f.b].val
          /\ Mem[f.c] = bufs[f.c].val
      BY <2>1 DEF Mem
    <3>2. GemmValue = Gemm(Mem[f.a], Mem[f.b], Mem[f.c])
      BY <2>1, <3>1
    <3>3. {f.a, f.b, f.c} \subseteq 1..Len(Mem)
      BY <2>1, <3>1
    <3> QED
      BY <1>1, <3>2, <3>3 DEF Abstract!Effects
  <2>3. /\ UNCHANGED <<server, nextHandle>>
        /\ \/ Write(f.c, GemmValue) /\ Reply(Ok(0))
           \/ Reply(Err) /\ (UNCHANGED bufs \/ Write(f.c, GemmValue))
    BY <1>3 DEF ServeGemm, GemmValue, Target
  <2> QED
    BY <1>1, <2>1, <2>2, <2>3, WriteStep
<1> QED
  BY <1>2, <1>3

LEMMA ReadbackStep ==
  ASSUME RpcInv, ServeReadback
  PROVE  [Abstract!Next]_(Abstract!vars)
<1>1. Requested("readback") /\ server = "serving"
  BY DEF ServeReadback, Requested
<1>2. CASE Reply(Err) /\ (Stay \/ Finish)
  BY <1>1, <1>2, RefusedStep
<1>3. CASE Finish /\ c2s' = Rest /\ UNCHANGED <<client, pending, ret, s2c, cut>>
  <2>1. ~Up' /\ Mem' = <<>> /\ Outcome' = Outcome
    BY <1>3 DEF Finish, Up, Mem, Outcome
  <2> QED
    BY <1>3, <2>1, DropIs, DownIs
<1>4. ASSUME NEW i \in Find(Head(c2s).h), Reply(Ok(bufs[i].val)), StayIfSent
      PROVE  [Abstract!Next]_(Abstract!vars)
  <2>1. i = Head(c2s).h /\ i \in 1..Len(bufs) /\ bufs[i].val \in Vals /\ Len(bufs) \in Nat
    BY <1>1, Found
  <2>2. CASE ~Up
    BY <1>1, <1>4, <2>1, <2>2, ReplyDown, Answers
  <2>3. CASE Up
    <3>1. /\ Outcome = None /\ Outcome' = Ok(bufs[i].val) /\ pending # NoCall /\ pending.op = "readback"
          /\ pending = Head(c2s) /\ UNCHANGED <<client, pending, ret, cut>>
      BY <1>1, <1>4, <2>1, <2>3, ReplyOutcome, Answers
    <3>2. Up' /\ UNCHANGED bufs
      BY <1>4, <2>3, <3>1 DEF StayIfSent, Stay, Up
    <3>3. Mem' = Mem /\ Len(Mem) = Len(bufs) /\ Mem[i] = bufs[i].val
      BY <2>1, <2>3, <3>2 DEF Mem
    <3> DEFINE e == [mem |-> Mem, val |-> Mem[i]]
    <3>4. e \in Abstract!Effects(Mem, pending)
      BY <2>1, <3>1, <3>3 DEF Abstract!Effects
    <3>5. Mem' = e.mem /\ Outcome' = Ok(e.val)
      BY <3>1, <3>3
    <3> QED
      BY <2>3, <3>1, <3>2, <3>4, <3>5, PerformIs
  <2> QED
    BY <2>2, <2>3
<1> QED
  BY <1>2, <1>3, <1>4 DEF ServeReadback

LEMMA CapsStep ==
  ASSUME RpcInv, ServeCaps
  PROVE  [Abstract!Next]_(Abstract!vars)
<1>1. Requested("caps") /\ Reply(Ok(0)) /\ StayIfSent
  BY DEF ServeCaps
<1>2. CASE ~Up
  BY <1>1, <1>2, ReplyDown, Answers
<1>3. CASE Up
  <2>1. /\ Outcome = None /\ Outcome' = Ok(0) /\ pending # NoCall /\ pending.op = "caps"
        /\ UNCHANGED <<client, pending, ret, cut>>
    BY <1>1, <1>3, ReplyOutcome, Answers
  <2>2. Up' /\ Mem' = Mem
    BY <1>1, <1>3, <2>1 DEF StayIfSent, Stay, Up, Mem
  <2> DEFINE e == [mem |-> Mem, val |-> 0]
  <2>3. e \in Abstract!Effects(Mem, pending)
    BY <2>1 DEF Abstract!Effects
  <2>4. Mem' = e.mem /\ Outcome' = Ok(e.val)
    BY <2>1, <2>2
  <2> QED
    BY <1>3, <2>1, <2>2, <2>3, <2>4, PerformIs
<1> QED
  BY <1>2, <1>3

\* A session ends because the client or the link has gone.
LEMMA EndStep ==
  ASSUME RpcInv, ServeEnd
  PROVE  [Abstract!Next]_(Abstract!vars)
<1>1. cut \/ client = "closed"
  <2>1. CASE Requested("bye")
    <3>1. c2s # <<>> /\ Head(c2s) = Bye
      BY <2>1, Queues, RequestFields DEF Requested
    <3> QED
      BY <3>1 DEF RpcInv, Farewell
  <2> QED
    BY <2>1 DEF ServeEnd
<1>2. ~Up /\ ~Up' /\ Outcome' = Outcome /\ UNCHANGED <<pending, ret>>
  BY <1>1 DEF ServeEnd, Finish, Up, Outcome
<1> QED
  BY <1>2, DownIs

-----------------------------------------------------------------------------
(* The client and the link.                                                *)

LEMMA CallStep ==
  ASSUME RpcInv, NEW k \in Requests, Call(k)
  PROVE  [Abstract!Next]_(Abstract!vars)
<1>1. /\ pending = NoCall /\ pending' = k
      /\ UNCHANGED <<client, ret, s2c, cut, server, bufs>>
  BY DEF Call
<1>2. Abstract!Invoke(k)
  BY <1>1 DEF Abstract!Invoke, Abstract!NoCall, NoCall, Up
<1>3. k \in Abstract!Calls
  BY DEF Abstract!Calls, Requests, Abstract!Handles, Handles
<1> QED
  BY <1>2, <1>3 DEF Abstract!Next

LEMMA ReceiveStep ==
  ASSUME RpcInv, Receive
  PROVE  [Abstract!Next]_(Abstract!vars)
<1>1. /\ Echoed /\ s2c' = <<>> /\ UNCHANGED client
  BY ReceiveInv
<1>2. /\ pending # NoCall /\ s2c # <<>> /\ ret' = Head(s2c).r /\ pending' = NoCall
      /\ UNCHANGED <<cut, server, bufs>>
  BY <1>1 DEF Receive, Returns
<1>3. Head(s2c).r # None
  BY <1>2, Queues DEF Frames, None
<1>4. Abstract!Return
  BY <1>1, <1>2, <1>3 DEF Abstract!Return, Abstract!NoCall, Abstract!Unknown, NoCall, None, Up
<1> QED
  BY <1>4 DEF Abstract!Next

LEMMA ReceiveClosedStep ==
  ASSUME RpcInv, ReceiveClosed
  PROVE  [Abstract!Next]_(Abstract!vars)
<1>1. /\ pending # NoCall /\ s2c = <<>> /\ ~Up /\ ret' = Err /\ pending' = NoCall
      /\ UNCHANGED <<client, s2c, cut, server, bufs>>
  BY DEF ReceiveClosed, Returns, Up
<1>2. Abstract!Return
  BY <1>1 DEF Abstract!Return, Abstract!NoCall, Abstract!Unknown, Abstract!Failed, NoCall, None, Err, Up
<1> QED
  BY <1>2 DEF Abstract!Next

LEMMA CloseStep ==
  ASSUME RpcInv, Close
  PROVE  [Abstract!Next]_(Abstract!vars)
<1>1. ~Up' /\ Mem' = <<>> /\ Outcome' = None /\ UNCHANGED <<pending, ret>>
  BY DEF Close, Up, Mem, Outcome
<1> QED
  BY <1>1, DropIs, DownIs

LEMMA CutStep ==
  ASSUME RpcInv, Cut
  PROVE  [Abstract!Next]_(Abstract!vars)
<1>1. ~Up' /\ Mem' = <<>> /\ Outcome' \in {Outcome, None} /\ UNCHANGED <<pending, ret>>
  BY DEF Cut, Up, Mem, Outcome
<1> QED
  BY <1>1, DropIs, DownIs

LEMMA ReconnectStep ==
  ASSUME RpcInv, Reconnect
  PROVE  [Abstract!Next]_(Abstract!vars)
<1>1. pending = NoCall /\ s2c = <<>> /\ ~Up
  BY Queues DEF Reconnect, RpcInv, Farewell, Up
<1>2. Up' /\ s2c' = <<>> /\ bufs' = <<>> /\ UNCHANGED <<pending, ret>>
  BY DEF Reconnect, Up
<1>3. [i \in 1..Len(bufs') |-> bufs'[i].val] = <<>>
  BY <1>2
<1>4. Abstract!Connect
  BY <1>1, <1>2, <1>3 DEF Abstract!Connect, Abstract!NoCall, NoCall
<1> QED
  BY <1>4 DEF Abstract!Next

-----------------------------------------------------------------------------
(* The result.                                                             *)

LEMMA RefinesInit == Init => Abstract!Init
<1> SUFFICES ASSUME Init PROVE Abstract!Init
  OBVIOUS
<1>1. [i \in 1..Len(bufs) |-> bufs[i].val] = <<>> /\ Up
  BY DEF Init, Up
<1> QED
  BY <1>1 DEF Init, Abstract!Init, Abstract!NoCall, Abstract!Unknown, NoCall, None

LEMMA RefinesNext == RpcInv /\ [Next]_vars => [Abstract!Next]_(Abstract!vars)
<1> SUFFICES ASSUME RpcInv, [Next]_vars PROVE [Abstract!Next]_(Abstract!vars)
  OBVIOUS
<1>1. CASE UNCHANGED vars
  BY <1>1 DEF vars, Abstract!vars, Up
<1> QED
  BY <1>1, RegisterStep, UploadStep, GemmStep, ReadbackStep, CapsStep, EndStep, CallStep, ReceiveStep,
     ReceiveClosedStep, CloseStep, CutStep, ReconnectStep DEF Next

\* A call that returns success took effect once, between its start and its
\* return, and one that fails took effect once or not at all, however many
\* buffers there are and wherever the server, the client or the link fails.
THEOREM RefinesRemoteMemory == Spec => ImplementsRemoteMemory
  BY RefinesInit, RefinesNext, RpcInvHolds, PTL DEF Spec, ImplementsRemoteMemory, Abstract!Spec
=============================================================================
