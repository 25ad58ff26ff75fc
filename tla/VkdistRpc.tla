----------------------------- MODULE VkdistRpc -----------------------------
(***************************************************************************)
(* One vkdist connection (src/vkdist/vkdist.c) after its HELLO: the client *)
(* entry points, the two directions of the socket as queues of frames, and *)
(* the handlers of vkdist_server_run_ex with the session's buffer table.   *)
(*                                                                         *)
(* A buffer is one value, so every copy has the same size; a call that is  *)
(* refused locally sends nothing and is a stuttering step.  Of a reply     *)
(* whose opcode is not the expected one the client takes the header and    *)
(* not the payload: the call fails, the socket stays usable, and what the  *)
(* next calls take for a header is anything ("desync").                    *)
(***************************************************************************)
EXTENDS Naturals, Sequences, SequencesExt

CONSTANTS
  MaxBuffers,     \* VKDIST_MAX_BUFFERS
  Vals,           \* contents of a buffer
  Gemm(_, _, _),  \* content of C after alpha*A*B + beta*C
  Faults          \* what may fail

\* "device": vkr_malloc, staging, recording or submitting fails, with the work
\* done or not when the handler replies; "memory": malloc in the server; "cut":
\* the connection breaks.
AllFaults == {"device", "memory", "cut"}

ASSUME RpcAssumption ==
  /\ MaxBuffers \in Nat
  /\ Vals \subseteq Nat
  /\ \A a, b, c \in Vals : Gemm(a, b, c) \in Vals
  /\ Faults \subseteq AllFaults

VARIABLES
  client,  \* "open", "desync" or "closed"
  pending, \* the call in progress, or NoCall
  ret,     \* what the last finished call returned
  c2s,     \* requests on their way
  s2c,     \* replies on their way
  cut,     \* the connection is broken
  server,  \* "serving" or "closed"
  bufs,    \* st.buffers: handle and content
  nextHandle \* st.next_handle

vars == <<client, pending, ret, c2s, s2c, cut, server, bufs, nextHandle>>

Handles == 1..MaxBuffers

Requests ==
  [op : {"register", "caps"}] \cup [op : {"readback"}, h : Handles]
    \cup [op : {"upload"}, h : Handles, v : Vals]
    \cup [op : {"gemm"}, a : Handles, b : Handles, c : Handles]

NoCall == [op |-> "none"]
Bye    == [op |-> "bye"]

None    == [res |-> "none", val |-> 0]
Err     == [res |-> "err", val |-> 0]
Ok(v)   == [res |-> "ok", val |-> v]

Init ==
  /\ client = "open" /\ pending = NoCall /\ ret = None
  /\ c2s = <<>> /\ s2c = <<>> /\ cut = FALSE
  /\ server = "serving" /\ bufs = <<>> /\ nextHandle = 1

-----------------------------------------------------------------------------
(* The server: one handler per opcode.                                     *)

\* vkdist_server_find_buffer.
Find(h) == {i \in 1..Len(bufs) : bufs[i].handle = h}

Fails(f) == f \in Faults

Requested(op) == server = "serving" /\ c2s # <<>> /\ Head(c2s).op = op

\* Mutant: a request stays in the receive buffer and is served again.
Unread == c2s
\* frame_recv has taken the request from the stream.
Rest == Tail(c2s)

\* The reply is sent - nobody gets it once the connection is cut.
Reply(r) ==
  /\ c2s' = Rest
  /\ s2c' = IF cut THEN s2c ELSE Append(s2c, [op |-> Head(c2s).op, r |-> r])
  /\ UNCHANGED <<client, pending, ret, cut>>

Stay   == UNCHANGED <<server, bufs, nextHandle>>
Finish == server' = "closed" /\ bufs' = <<>> /\ UNCHANGED nextHandle

\* Mutant: the limit is checked after the slot is taken.
SlotAny == Len(bufs) <= MaxBuffers
\* buffer_count < VKDIST_MAX_BUFFERS.
SlotFree == Len(bufs) < MaxBuffers

\* REGISTER_BUFFER: device memory comes with any content.
ServeRegister ==
  /\ Requested("register")
  /\ \/ /\ SlotFree
        /\ \E v \in Vals : bufs' = Append(bufs, [handle |-> nextHandle, val |-> v])
        /\ nextHandle' = nextHandle + 1
        /\ Reply(Ok(nextHandle)) /\ UNCHANGED server
     \/ /\ ~SlotFree \/ Fails("device")
        /\ Reply(Err) /\ Stay

\* Mutant: the handles of C and B are swapped.
WritesB(f) == f.b
\* The buffer a dispatch writes: C is used in place.
Target(f) == f.c

Write(h, v) == bufs' = [i \in 1..Len(bufs) |->
                          IF i \in Find(h) THEN [bufs[i] EXCEPT !.val = v] ELSE bufs[i]]

\* UPLOAD: vkr_upload copies, or fails with the copy done or not.
ServeUpload ==
  /\ Requested("upload")
  /\ LET f == Head(c2s)
     IN  IF Find(f.h) = {} THEN Reply(Err) /\ Stay
         ELSE /\ UNCHANGED <<server, nextHandle>>
              /\ \/ Write(f.h, f.v) /\ Reply(Ok(0))
                 \/ Fails("device") /\ Reply(Err) /\ (UNCHANGED bufs \/ Write(f.h, f.v))

\* DISPATCH_GEMM: C is read and written in place.
ServeGemm ==
  /\ Requested("gemm")
  /\ LET f == Head(c2s)
         content(h) == bufs[CHOOSE i \in Find(h) : TRUE].val
         run == Write(Target(f), Gemm(content(f.a), content(f.b), content(f.c)))
     IN  IF Find(f.a) = {} \/ Find(f.b) = {} \/ Find(f.c) = {} THEN Reply(Err) /\ Stay
         ELSE /\ UNCHANGED <<server, nextHandle>>
              /\ \/ run /\ Reply(Ok(0))
                 \/ Fails("device") /\ Reply(Err) /\ (UNCHANGED bufs \/ run)

\* The session goes on, unless the reply could not be sent.
StayIfSent == Stay \/ (cut /\ Finish)

\* READBACK: bad handle or no host memory, and the session goes on; a failed
\* download, no memory for the reply, or a reply not sent, and it ends.
ServeReadback ==
  /\ Requested("readback")
  /\ LET found == Find(Head(c2s).h)
     IN  \/ found = {} /\ Reply(Err) /\ Stay
         \/ found # {} /\ Fails("memory") /\ Reply(Err) /\ Stay
         \/ found # {} /\ Fails("device") /\ Reply(Err) /\ Finish
         \/ /\ found # {} /\ Fails("memory") /\ Finish
            /\ c2s' = Rest /\ UNCHANGED <<client, pending, ret, s2c, cut>>
         \/ \E i \in found : Reply(Ok(bufs[i].val)) /\ StayIfSent

\* CAPS.
ServeCaps == Requested("caps") /\ Reply(Ok(0)) /\ StayIfSent

\* BYE, or frame_recv finds the connection closed or broken.
ServeEnd ==
  /\ server = "serving"
  /\ \/ Requested("bye") /\ c2s' = Rest
     \/ c2s = <<>> /\ (cut \/ client = "closed") /\ UNCHANGED c2s
  /\ Finish
  /\ UNCHANGED <<client, pending, ret, s2c, cut>>

-----------------------------------------------------------------------------
(* The client.                                                             *)

Deliver(f) == c2s' = IF cut \/ server = "closed" THEN c2s ELSE Append(c2s, f)

\* A client function sends its request and blocks in recv.
Call(k) ==
  /\ client # "closed" /\ pending = NoCall
  /\ pending' = k
  /\ Deliver(k)
  /\ UNCHANGED <<client, ret, s2c, cut, server, bufs, nextHandle>>

Returns(r) == ret' = r /\ pending' = NoCall

\* The opcode of the reply is the expected one.
Echoed == Head(s2c).op = pending.op

Receive ==
  /\ client = "open" /\ pending # NoCall /\ s2c # <<>>
  /\ s2c' = Tail(s2c)
  /\ \/ Echoed /\ Returns(Head(s2c).r) /\ UNCHANGED client
     \/ ~Echoed /\ Returns(Err) /\ client' = "desync"
  /\ UNCHANGED <<c2s, cut, server, bufs, nextHandle>>

\* Inside a frame, the bytes there are pass for a header, and may even fit.
ReceiveAdrift ==
  /\ client = "desync" /\ pending # NoCall /\ s2c # <<>>
  /\ s2c' \in {s2c, Tail(s2c)}
  /\ \E r \in {Err} \cup {Ok(v) : v \in Vals \cup 0..MaxBuffers} : Returns(r)
  /\ UNCHANGED <<client, c2s, cut, server, bufs, nextHandle>>

\* recv finds the connection closed or broken, or send fails.
ReceiveClosed ==
  /\ pending # NoCall /\ s2c = <<>> /\ (cut \/ server = "closed")
  /\ Returns(Err)
  /\ UNCHANGED <<client, c2s, s2c, cut, server, bufs, nextHandle>>

\* vkdist_readback sends its request, then fails to allocate the reply buffer.
ReadbackGivesUp ==
  /\ pending.op = "readback"
  /\ Returns(Err)
  /\ UNCHANGED <<client, c2s, s2c, cut, server, bufs, nextHandle>>

\* vkdist_close.
Close ==
  /\ client # "closed" /\ pending = NoCall
  /\ client' = "closed"
  /\ Deliver(Bye)
  /\ s2c' = <<>>
  /\ UNCHANGED <<pending, ret, cut, server, bufs, nextHandle>>

\* The network or a process dies: frames not yet read may be lost.
Cut ==
  /\ Fails("cut") /\ ~cut
  /\ cut' = TRUE
  /\ c2s' \in {c2s, <<>>} /\ s2c' \in {s2c, <<>>}
  /\ UNCHANGED <<client, pending, ret, server, bufs, nextHandle>>

\* The next connection, once both ends of this one are closed.
Reconnect ==
  /\ client = "closed" /\ server = "closed"
  /\ client' = "open" /\ server' = "serving"
  /\ c2s' = <<>> /\ s2c' = <<>> /\ cut' = FALSE
  /\ bufs' = <<>> /\ nextHandle' = 1
  /\ UNCHANGED <<pending, ret>>

Next ==
  \/ ServeRegister \/ ServeUpload \/ ServeGemm \/ ServeReadback \/ ServeCaps \/ ServeEnd
  \/ \E k \in Requests : Call(k)
  \/ Receive \/ ReceiveClosed
  \/ Close \/ Cut \/ Reconnect

Spec == Init /\ [][Next]_vars

\* The same with a client that can run out of memory in vkdist_readback, and
\* then out of step.
SpecGivesUp == Init /\ [][Next \/ ReadbackGivesUp \/ ReceiveAdrift]_vars

-----------------------------------------------------------------------------
(* Properties.                                                             *)

Frames == [op : {"register", "caps", "readback", "upload", "gemm"},
           r : [res : {"ok", "err"}, val : Vals \cup 0..MaxBuffers]]

\* The variables have their types; the buffer table does not overflow.
TypeOK ==
  /\ client \in {"open", "desync", "closed"}
  /\ pending \in Requests \cup {NoCall}
  /\ ret \in [res : {"none", "ok", "err"}, val : Vals \cup 0..MaxBuffers]
  /\ c2s \in Seq(Requests \cup {Bye})
  /\ s2c \in Seq(Frames)
  /\ cut \in BOOLEAN
  /\ server \in {"serving", "closed"}
  /\ bufs \in Seq([handle : Handles, val : Vals]) /\ Len(bufs) <= MaxBuffers
  /\ nextHandle \in 1..(MaxBuffers + 1)

\* Client and server stay in step: at most one frame is on its way in both
\* directions together; a request that an unbroken connection carries is the
\* client's pending call or the final BYE; a reply is the pending call's.
InStep ==
  /\ Len(c2s) + Len(s2c) <= 1
  /\ ~cut /\ c2s # <<>> => Head(c2s) = IF pending = NoCall THEN Bye ELSE pending
  /\ s2c # <<>> => Head(s2c).op = pending.op

\* The connection is usable: both ends and the link are up.
Up == client = "open" /\ server = "serving" /\ ~cut

\* The connection implements a sequential memory.
Abstract == INSTANCE RemoteMemory WITH
  up      <- Up,
  mem     <- IF Up THEN [i \in 1..Len(bufs) |-> bufs[i].val] ELSE <<>>,
  call    <- pending,
  outcome <- IF s2c = <<>> THEN None ELSE Head(s2c).r

\* Every call of the client behaves as one step on a sequential memory, though
\* requests and replies cross a wire and either end or the link may fail.
ImplementsRemoteMemory == Abstract!Spec

\* vkdist_readback returns the bytes of the buffer it was asked for (vkdist.h):
\* as the client is the only writer, its content when the call returns.
ReadbackIsCurrent ==
  [][pending.op = "readback" /\ pending' = NoCall /\ ret'.res = "ok" /\ Up =>
       \E i \in Find(pending.h) : ret'.val = bufs[i].val]_vars
=============================================================================
