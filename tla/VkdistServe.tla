---------------------------- MODULE VkdistServe ----------------------------
(***************************************************************************)
(* vkdist_server_serve_many (src/vkdist/vkdist.c): the main thread starts  *)
(* one session thread per accepted connection and joins them all.  Every   *)
(* session runs the request/reply loop of vkdist_server_run_ex against one *)
(* client, and all of them share one VkBLASContext (guarded by blas_lock), *)
(* one VkDevice and - because each calls vkGetDeviceQueue(dev, 0, 0) - one *)
(* VkQueue.                                                                *)
(*                                                                         *)
(* A request is abstracted to what its handler does to the shared state:   *)
(*   "info"      answered at once (HELLO, CAPS, REGISTER_BUFFER)           *)
(*   "reject"    answered with an error, the session goes on               *)
(*   "malformed" answered with VK_ERROR_UNKNOWN, the session ends          *)
(*   "oversize"  a frame longer than VKDIST_MAX_FRAME: no answer, it ends  *)
(*   "mismatch"  HELLO of another version: INCOMPATIBLE_DRIVER, it ends    *)
(*   "upload", "readback"  a staging copy, submitted and waited for idle   *)
(*   "gemm"      a dispatch, submitted with the session's fence            *)
(* Device work completes in any order; the driver, the operating system    *)
(* and the clients fail as Faults allows.                                  *)
(***************************************************************************)
EXTENDS Naturals, FiniteSets

CONSTANTS
  N,        \* connections handed to vkdist_server_serve_many
  MaxReq,   \* bound: requests one client sends
  MaxSets,  \* descriptor sets in the pool of the shared VkBLASContext (256)
  Kinds,    \* the kinds of request the clients send
  Faults    \* what may fail

AllKinds == {"info", "reject", "malformed", "oversize", "mismatch",
             "upload", "readback", "gemm"}

(***************************************************************************)
(* "thread": pthread_create; "setup": a call of the setup ladder;          *)
(* "record": staging or host allocation, vkBegin/vkEnd, vkCreate*Pipeline; *)
(* "submit": vkQueueSubmit; "wait": vkWaitForFences or vkQueueWaitIdle     *)
(* gives up while the work still runs; "lost": the device is lost;         *)
(* "die": a client process dies.                                           *)
(***************************************************************************)
AllFaults == {"thread", "setup", "record", "submit", "wait", "lost", "die"}

ASSUME ServeAssumption ==
  /\ N \in Nat \ {0}
  /\ MaxReq \in Nat
  /\ MaxSets \in Nat
  /\ Kinds \subseteq AllKinds
  /\ Faults \subseteq AllFaults

Conns == 1..N

\* The rungs of the setup ladder in the order they are taken: 1 the runtime,
\* 2 the command pool, 3 the command buffer, 4 the fence, 5 the receive buffer.
\* Label k of the teardown gives rung k back and falls through to label k - 1:
\* out_fence is 4, out_socket is 0, and 5 the end of the loop.
Rungs == 1..5
NoConn == 0

VARIABLES
  main,      \* where serve_many is: "spawn", "join", "abort", "returned"
  next,      \* its loop index
  started,   \* threads created so far
  retval,    \* its VkResult
  thread,    \* where each session thread is
  status,    \* args[i].result of each session
  held,      \* what each session holds of the setup ladder, see Rungs
  label,     \* the out_* label at which its teardown goes on
  closed,    \* how many times the server closed each conn_fd
  outcome,   \* the result each session is about to reply
  client,    \* "idle", "waiting" for a reply, or "gone"
  sent,      \* requests each client has sent
  frame,     \* the request on its way to or being handled by the session
  reply,     \* the reply on its way to the client
  link,      \* how the client left the socket: "open" as long as it has not,
             \* "bye", "fin" (a close between two frames), "cut" (within one),
             \* "reset", and "closed" when the server had closed it before
  lockOwner, \* blas_lock
  cached,    \* the sgemm pipeline is in the context's cache
  missed,    \* each session's last cache lookup found nothing
  created,   \* how often the pipeline was created
  setsUsed,  \* descriptor sets taken from the pool, never given back
  pending,   \* sessions whose command buffer the device has not finished
  awaited,   \* per session, the submissions its vkQueueWaitIdle waits for
  lost       \* the device is lost

mainVars   == <<main, next, started, retval>>
sessVars   == <<thread, status, held, label, closed, outcome>>
clientVars == <<client, sent, frame, reply, link>>
ctxVars    == <<lockOwner, cached, missed, created, setsUsed>>
gpuVars    == <<pending, awaited, lost>>
vars       == <<mainVars, sessVars, clientVars, ctxVars, gpuVars>>

Results == {"SUCCESS", "UNKNOWN", "INCOMPATIBLE", "HOST_MEMORY"}

Init ==
  /\ main = "spawn" /\ next = 1 /\ started = 0 /\ retval = "SUCCESS"
  /\ thread  = [c \in Conns |-> "off"]
  /\ status  = [c \in Conns |-> "UNKNOWN"]
  /\ held    = [c \in Conns |-> {}]
  /\ label   = [c \in Conns |-> 0]
  /\ closed  = [c \in Conns |-> 0]
  /\ outcome = [c \in Conns |-> "ok"]
  /\ client  = [c \in Conns |-> "idle"]
  /\ sent    = [c \in Conns |-> 0]
  /\ frame   = [c \in Conns |-> "none"]
  /\ reply   = [c \in Conns |-> "none"]
  /\ link    = [c \in Conns |-> "open"]
  /\ lockOwner = NoConn /\ cached = FALSE /\ created = 0 /\ setsUsed = 0
  /\ missed  = [c \in Conns |-> FALSE]
  /\ pending = {}
  /\ awaited = [c \in Conns |-> {}]
  /\ lost = FALSE

-----------------------------------------------------------------------------
(* The main thread.                                                        *)

\* pthread_create succeeds for connection `next'.
SpawnThread ==
  /\ main = "spawn"
  /\ thread' = [thread EXCEPT ![next] = "setup"]
  /\ started' = started + 1
  /\ main' = IF next = N THEN "join" ELSE "spawn"
  /\ next' = IF next = N THEN 1 ELSE next + 1
  /\ UNCHANGED <<retval, status, held, label, closed, outcome,
                 clientVars, ctxVars, gpuVars>>

\* Mutant: the roll-back closes the descriptors of running sessions too.
ClosesAll(i) == Conns
\* The descriptors a failed pthread_create(i) closes: those never started.
RollBackCloses(i) == {j \in Conns : j >= i}

\* pthread_create fails: close what was never started, then join the rest.
SpawnFails ==
  /\ main = "spawn" /\ "thread" \in Faults
  /\ retval' = "HOST_MEMORY"
  /\ closed' = [c \in Conns |->
                  IF c \in RollBackCloses(next) THEN closed[c] + 1 ELSE closed[c]]
  /\ main' = IF started = 0 THEN "returned" ELSE "abort"
  /\ next' = 1
  /\ UNCHANGED <<started, thread, status, held, label, outcome,
                 clientVars, ctxVars, gpuVars>>

\* Mutant: the last session's result overwrites the earlier ones.
LastResult(c) == status[c]
\* The result after joining session c: the first error wins.
JoinedResult(c) == IF retval = "SUCCESS" THEN status[c] ELSE retval

\* Mutant: the loop goes on without waiting for the session to end.
NoJoin(c) == TRUE
\* What pthread_join(threads[c]) waits for.
Joinable(c) == thread[c] = "done"

\* pthread_join of thread `next', in the normal and in the abort path.
JoinThread ==
  /\ main \in {"join", "abort"}
  /\ Joinable(next)
  /\ retval' = IF main = "join" THEN JoinedResult(next) ELSE retval
  /\ main' = IF next = started THEN "returned" ELSE main
  /\ next' = IF next = started THEN next ELSE next + 1
  /\ UNCHANGED <<started, sessVars, clientVars, ctxVars, gpuVars>>

-----------------------------------------------------------------------------
(* A session: setup, the RPC loop, teardown.                               *)

Goto(c, pc) == thread' = [thread EXCEPT ![c] = pc]

\* Mutant: the goto of a failed call enters the ladder one label too low.
LeakyLadder(k) == IF k \in {0, 5} THEN k ELSE k - 1
\* The label that the failure of call k + 1 jumps to, with k rungs taken.
ExitLabel(k) == k

\* Any of the five calls may fail.
Setup(c) ==
  /\ thread[c] = "setup"
  /\ \E k \in (IF "setup" \in Faults THEN 0..5 ELSE {5}) :
       /\ held' = [held EXCEPT ![c] = 1..k]
       /\ label' = [label EXCEPT ![c] = ExitLabel(k)]
       /\ Goto(c, IF k = 5 THEN "recv" ELSE "teardown")
  /\ UNCHANGED <<mainVars, status, closed, outcome, clientVars, ctxVars, gpuVars>>

\* What frame_recv takes for the end of the session: BYE, or a close between two
\* frames or within one.
Left(c) == link[c] \in {"bye", "fin", "cut"}

\* frame_recv finds the client gone or an oversize frame: BYE and a close -
\* even one that cuts a frame short - end the session with success, a reset
\* and an oversize frame with an error.
SessionEnds(c) ==
  /\ thread[c] = "recv"
  /\ \/ /\ Left(c) /\ frame[c] = "none"
        /\ status' = [status EXCEPT ![c] = "SUCCESS"]
     \/ /\ link[c] = "reset" \/ frame[c] = "oversize"
        /\ status' = [status EXCEPT ![c] = "UNKNOWN"]
  /\ Goto(c, "teardown")
  /\ UNCHANGED <<mainVars, held, label, closed, outcome, clientVars, ctxVars, gpuVars>>

\* The requests answered without the device, and those that fail before it.
AnswerDirectly(c) ==
  /\ thread[c] = "recv"
  /\ \/ frame[c] = "info" /\ outcome' = [outcome EXCEPT ![c] = "ok"]
     \/ /\ \/ frame[c] \in {"reject", "malformed", "mismatch"}
           \/ frame[c] \in {"upload", "readback", "gemm"} /\ "record" \in Faults
        /\ outcome' = [outcome EXCEPT ![c] = "err"]
  /\ Goto(c, "reply")
  /\ UNCHANGED <<mainVars, status, held, label, closed, clientVars, ctxVars, gpuVars>>

\* Upload and readback: staging buffer, copy recorded, entering vkQueueSubmit.
BeginCopy(c) ==
  /\ thread[c] = "recv" /\ frame[c] \in {"upload", "readback"}
  /\ Goto(c, "copySubmit")
  /\ UNCHANGED <<mainVars, status, held, label, closed, outcome,
                 clientVars, ctxVars, gpuVars>>

\* Gemm: vkBeginCommandBuffer, then the lock.
BeginGemm(c) ==
  /\ thread[c] = "recv" /\ frame[c] = "gemm"
  /\ Goto(c, "lock")
  /\ UNCHANGED <<mainVars, status, held, label, closed, outcome,
                 clientVars, ctxVars, gpuVars>>

\* Mutant: a dispatch that does not take the mutex.
LockIgnored == TRUE
\* pthread_mutex_lock returns.
LockFree == lockOwner = NoConn

LockBlas(c) ==
  /\ thread[c] = "lock" /\ LockFree
  /\ lockOwner' = c
  /\ Goto(c, "lookup")
  /\ UNCHANGED <<mainVars, status, held, label, closed, outcome, clientVars,
                 cached, missed, created, setsUsed, gpuVars>>

\* vkblas_sgemm: vkblas_ensure_pipeline searches the cache ...
LookupPipeline(c) ==
  /\ thread[c] = "lookup"
  /\ missed' = [missed EXCEPT ![c] = ~cached]
  /\ Goto(c, "build")
  /\ UNCHANGED <<mainVars, status, held, label, closed, outcome, clientVars,
                 lockOwner, cached, created, setsUsed, gpuVars>>

\* Mutant: the pool hands out one set too many.
SetGiven == setsUsed <= MaxSets
\* The descriptor pool of maxSets = MaxSets still has a set.
SetLeft == setsUsed < MaxSets

\* ... creates and caches what it did not find, takes a descriptor set (none
\* is ever freed) and records the dispatch.
BuildDispatch(c) ==
  /\ thread[c] = "build"
  /\ \/ /\ missed[c] /\ "record" \in Faults
        /\ outcome' = [outcome EXCEPT ![c] = "err"]
        /\ UNCHANGED <<cached, created, setsUsed>>
     \/ /\ cached' = TRUE
        /\ created' = IF missed[c] THEN created + 1 ELSE created
        /\ IF SetLeft
           THEN setsUsed' = setsUsed + 1 /\ outcome' = [outcome EXCEPT ![c] = "ok"]
           ELSE UNCHANGED setsUsed /\ outcome' = [outcome EXCEPT ![c] = "err"]
  /\ missed' = [missed EXCEPT ![c] = FALSE]
  /\ Goto(c, "unlock")
  /\ UNCHANGED <<mainVars, status, held, label, closed, clientVars, lockOwner, gpuVars>>

\* Mutant: an early return between lock and unlock keeps the mutex.
KeepsLockOnError(c) == IF outcome[c] = "ok" THEN NoConn ELSE c
\* blas_lock after pthread_mutex_unlock: free whatever sgemm returned.
LockAfter(c) == NoConn

\* Unlock, vkEndCommandBuffer, and on an error the reset and the reply.
UnlockBlas(c) ==
  /\ thread[c] = "unlock"
  /\ lockOwner' = LockAfter(c)
  /\ \/ outcome[c] = "ok" /\ Goto(c, "submit") /\ UNCHANGED outcome
     \/ /\ outcome[c] = "err" \/ "record" \in Faults
        /\ outcome' = [outcome EXCEPT ![c] = "err"]
        /\ Goto(c, "reply")
  /\ UNCHANGED <<mainVars, status, held, label, closed, clientVars,
                 cached, missed, created, setsUsed, gpuVars>>

\* vkQueueSubmit returns: the work is on the queue, or the call failed.
SubmitFails(c) ==
  /\ thread[c] \in {"submit", "copySubmit"}
  /\ lost \/ "submit" \in Faults
  /\ outcome' = [outcome EXCEPT ![c] = "err"]
  /\ Goto(c, "reply")
  /\ UNCHANGED <<mainVars, status, held, label, closed, clientVars, ctxVars, gpuVars>>

SubmitGemm(c) ==
  /\ thread[c] = "submit" /\ ~lost
  /\ pending' = pending \cup {c}
  /\ Goto(c, "fence")
  /\ UNCHANGED <<mainVars, status, held, label, closed, outcome, clientVars, ctxVars,
                 awaited, lost>>

\* The copy is submitted without a fence and vkQueueWaitIdle waits for all
\* that was submitted to the queue so far, by any session.
SubmitCopy(c) ==
  /\ thread[c] = "copySubmit" /\ ~lost
  /\ pending' = pending \cup {c}
  /\ awaited' = [awaited EXCEPT ![c] = pending \cup {c}]
  /\ Goto(c, "waitIdle")
  /\ UNCHANGED <<mainVars, status, held, label, closed, outcome, clientVars, ctxVars, lost>>

\* Mutant: the session replies without waiting for its fence.
FenceNotAwaited(c) == TRUE
\* vkWaitForFences returns VK_SUCCESS.
FenceSignaled(c) == c \notin pending

\* Mutant: vkr_copy_and_sync does not wait for the queue.
QueueNotAwaited(c) == TRUE
\* vkQueueWaitIdle returns VK_SUCCESS.
QueueIdle(c) == awaited[c] = {}

WaitDone(c) ==
  /\ \/ thread[c] = "fence" /\ FenceSignaled(c)
     \/ thread[c] = "waitIdle" /\ QueueIdle(c)
  /\ outcome' = [outcome EXCEPT ![c] = "ok"]
  /\ Goto(c, "reply")
  /\ UNCHANGED <<mainVars, status, held, label, closed, clientVars, ctxVars, gpuVars>>

\* The wait itself fails; the code resets fence and command buffer (gemm) or
\* returns at once (copy), and replies the error.
WaitFails(c) ==
  /\ thread[c] \in {"fence", "waitIdle"}
  /\ lost \/ "wait" \in Faults
  /\ outcome' = [outcome EXCEPT ![c] = "err"]
  /\ Goto(c, "reply")
  /\ awaited' = [awaited EXCEPT ![c] = {}]
  /\ UNCHANGED <<mainVars, status, held, label, closed, clientVars, ctxVars, pending, lost>>

\* The sessions that end after this reply, whether or not it was sent.
EndsAfterReply(c) ==
  \/ frame[c] \in {"malformed", "mismatch"}
  \/ frame[c] = "readback" /\ outcome[c] = "err"

\* Mutant: the reply of a request is not sent when it reports an error.
NoErrorReply(c) == IF outcome[c] = "err" THEN reply[c] ELSE outcome[c]
\* What the client finds in its socket.
ReplySent(c) == outcome[c]

\* The session's next step once its reply is out or lost.
AfterReply(c, ends) ==
  /\ frame' = [frame EXCEPT ![c] = "none"]
  /\ outcome' = [outcome EXCEPT ![c] = "ok"]
  /\ Goto(c, IF ends THEN "teardown" ELSE "recv")
  /\ status' = [status EXCEPT ![c] =
                  IF ~ends THEN @
                  ELSE IF frame[c] = "mismatch" THEN "INCOMPATIBLE" ELSE "UNKNOWN"]
  /\ UNCHANGED <<mainVars, held, label, closed, client, sent, link, ctxVars, gpuVars>>

\* send succeeds; what the client no longer reads is lost.
SendReply(c) ==
  /\ thread[c] = "reply"
  /\ reply' = [reply EXCEPT ![c] = IF link[c] = "open" THEN ReplySent(c) ELSE @]
  /\ AfterReply(c, EndsAfterReply(c))

\* No reply leaves: the peer is gone, or the copy of a readback's data cannot
\* be allocated. HELLO, CAPS and READBACK then end the session; REGISTER_BUFFER,
\* UPLOAD and DISPATCH_GEMM ignore it.
SendFails(c) ==
  /\ thread[c] = "reply"
  /\ \/ link[c] # "open"
     \/ frame[c] = "readback" /\ outcome[c] = "ok" /\ "record" \in Faults
  /\ \/ AfterReply(c, EndsAfterReply(c) \/ frame[c] \in {"info", "readback"})
     \/ frame[c] = "info" /\ AfterReply(c, FALSE)
  /\ UNCHANGED reply

\* The labels, top down; the end of the loop also destroys the remote buffers.
ReleaseRung(c) ==
  /\ thread[c] = "teardown" /\ label[c] > 0
  /\ held' = [held EXCEPT ![c] = @ \ {label[c]}]
  /\ label' = [label EXCEPT ![c] = @ - 1]
  /\ UNCHANGED <<mainVars, thread, status, closed, outcome, clientVars, ctxVars, gpuVars>>

\* out_socket.
CloseSocket(c) ==
  /\ thread[c] = "teardown" /\ label[c] = 0
  /\ closed' = [closed EXCEPT ![c] = @ + 1]
  /\ Goto(c, "done")
  /\ UNCHANGED <<mainVars, status, held, label, outcome, clientVars, ctxVars, gpuVars>>

-----------------------------------------------------------------------------
(* The device and the clients.                                             *)

Complete(c) ==
  /\ c \in pending
  /\ pending' = pending \ {c}
  /\ awaited' = [d \in Conns |-> awaited[d] \ {c}]
  /\ UNCHANGED <<mainVars, sessVars, clientVars, ctxVars, lost>>

\* After a loss every submission counts as finished and every call fails.
LoseDevice ==
  /\ "lost" \in Faults /\ ~lost
  /\ lost' = TRUE /\ pending' = {} /\ awaited' = [c \in Conns |-> {}]
  /\ UNCHANGED <<mainVars, sessVars, clientVars, ctxVars>>

\* A client call sends its request and blocks for the reply.
ClientSend(c) ==
  /\ client[c] = "idle" /\ sent[c] < MaxReq
  /\ \E k \in Kinds : frame' = [frame EXCEPT ![c] = k]
  /\ client' = [client EXCEPT ![c] = "waiting"]
  /\ sent' = [sent EXCEPT ![c] = @ + 1]
  /\ UNCHANGED <<mainVars, sessVars, reply, link, ctxVars, gpuVars>>

ClientReceive(c) ==
  /\ client[c] = "waiting" /\ reply[c] # "none"
  /\ client' = [client EXCEPT ![c] = "idle"]
  /\ reply' = [reply EXCEPT ![c] = "none"]
  /\ UNCHANGED <<mainVars, sessVars, sent, frame, link, ctxVars, gpuVars>>

\* recv finds the server's close: the call fails and the client gives up.
ClientSeesClose(c) ==
  /\ client[c] = "waiting" /\ reply[c] = "none" /\ closed[c] > 0
  /\ client' = [client EXCEPT ![c] = "gone"]
  /\ link' = [link EXCEPT ![c] = "closed"]
  /\ UNCHANGED <<mainVars, sessVars, sent, frame, reply, ctxVars, gpuVars>>

\* vkdist_close: BYE, then close.
ClientClose(c) ==
  /\ client[c] = "idle"
  /\ client' = [client EXCEPT ![c] = "gone"]
  /\ link' = [link EXCEPT ![c] = "bye"]
  /\ UNCHANGED <<mainVars, sessVars, sent, frame, reply, ctxVars, gpuVars>>

\* The client process dies: at a frame boundary, within a frame, or so that
\* the server's recv fails.
ClientDies(c) ==
  /\ "die" \in Faults /\ client[c] # "gone"
  /\ \E how \in {"fin", "cut", "reset"} :
       /\ how = "cut" => client[c] = "idle"
       /\ link' = [link EXCEPT ![c] = how]
  /\ client' = [client EXCEPT ![c] = "gone"]
  /\ reply' = [reply EXCEPT ![c] = "none"]
  /\ UNCHANGED <<mainVars, sessVars, sent, frame, ctxVars, gpuVars>>

-----------------------------------------------------------------------------

MainStep == SpawnThread \/ SpawnFails \/ JoinThread

SessionStep(c) ==
  \/ Setup(c) \/ SessionEnds(c) \/ AnswerDirectly(c) \/ BeginCopy(c) \/ BeginGemm(c)
  \/ LockBlas(c) \/ LookupPipeline(c) \/ BuildDispatch(c) \/ UnlockBlas(c)
  \/ SubmitFails(c) \/ SubmitGemm(c) \/ SubmitCopy(c) \/ WaitDone(c) \/ WaitFails(c)
  \/ SendReply(c) \/ SendFails(c) \/ ReleaseRung(c) \/ CloseSocket(c)

ClientStep(c) ==
  ClientSend(c) \/ ClientReceive(c) \/ ClientSeesClose(c) \/ ClientClose(c) \/ ClientDies(c)

\* serve_many has returned and every client has left: nothing is left to do.
Terminated ==
  /\ main = "returned" /\ \A c \in Conns : client[c] = "gone"
  /\ UNCHANGED vars

Next ==
  \/ MainStep
  \/ \E c \in Conns : SessionStep(c) \/ ClientStep(c) \/ Complete(c)
  \/ LoseDevice
  \/ Terminated

\* Threads are scheduled, the device finishes its work and a client that waits
\* in recv wakes up; nobody has to send, to leave or to fail.
Fairness ==
  /\ WF_vars(MainStep)
  /\ \A c \in Conns : /\ WF_vars(SessionStep(c))
                      /\ WF_vars(Complete(c))
                      /\ WF_vars(ClientReceive(c) \/ ClientSeesClose(c))

SafetySpec == Init /\ [][Next]_vars
Spec == SafetySpec /\ Fairness

-----------------------------------------------------------------------------
(* The type invariant.                                                     *)

ThreadPCs == {"off", "setup", "recv", "copySubmit", "lock", "lookup", "build",
              "unlock", "submit", "fence", "waitIdle", "reply", "teardown", "done"}

MainType ==
  /\ main \in {"spawn", "join", "abort", "returned"}
  /\ next \in Conns /\ started \in 0..N /\ retval \in Results

SessionType ==
  /\ thread \in [Conns -> ThreadPCs]
  /\ status \in [Conns -> Results]
  /\ held \in [Conns -> SUBSET Rungs]
  /\ label \in [Conns -> 0..5]
  /\ closed \in [Conns -> Nat]
  /\ outcome \in [Conns -> {"ok", "err"}]

ClientType ==
  /\ client \in [Conns -> {"idle", "waiting", "gone"}]
  /\ sent \in [Conns -> 0..MaxReq]
  /\ frame \in [Conns -> AllKinds \cup {"none"}]
  /\ reply \in [Conns -> {"none", "ok", "err"}]
  /\ link \in [Conns -> {"open", "bye", "fin", "cut", "reset", "closed"}]

ContextType ==
  /\ lockOwner \in Conns \cup {NoConn}
  /\ cached \in BOOLEAN /\ created \in Nat /\ setsUsed \in 0..MaxSets
  /\ missed \in [Conns -> BOOLEAN]

DeviceType ==
  /\ pending \subseteq Conns
  /\ awaited \in [Conns -> SUBSET Conns]
  /\ lost \in BOOLEAN

\* The variables have their types, and the two loop counters their ranges.
TypeOK == MainType /\ SessionType /\ ClientType /\ ContextType /\ DeviceType

-----------------------------------------------------------------------------
(* The inductive invariants behind the safety properties below.            *)

\* The loop index of the main thread and the threads it has created.
LoopInv ==
  /\ main = "spawn" => started = next - 1
  /\ main \in {"join", "abort"} => next <= started
  /\ main = "join" => started = N
  /\ \A c \in Conns : thread[c] = "off" <=> c > started

\* The mutex is held exactly between its lock and its unlock.
LockInv == \A c \in Conns : thread[c] \in {"lookup", "build", "unlock"} <=> lockOwner = c

\* Nothing is created behind the back of the session that holds the mutex.
CacheInv ==
  /\ created = IF cached THEN 1 ELSE 0
  /\ \A c \in Conns : thread[c] = "build" => missed[c] = ~cached

\* Device work belongs to a session that waits for it.
DeviceInv ==
  /\ \A c \in pending : /\ thread[c] \in {"fence", "waitIdle"}
                        /\ thread[c] = "waitIdle" => c \in awaited[c]
  /\ lost => pending = {}

\* Who is over, what is held, what is closed.
CleanInv ==
  /\ \A c \in Conns : main \in {"join", "abort"} /\ c < next => thread[c] = "done"
  /\ \A c \in Conns : main = "returned" /\ c <= started => thread[c] = "done"
  /\ \A c \in Conns : thread[c] \in {"off", "setup", "done"} => held[c] = {}
  /\ \A c \in Conns : thread[c] \notin {"off", "setup", "done"} => held[c] = 1..label[c]
  /\ \A c \in Conns :
       thread[c] \notin {"off", "setup", "teardown", "done"} => label[c] = 5
  /\ \A c \in Conns :
       closed[c] = IF \/ thread[c] = "done"
                      \/ thread[c] = "off" /\ main \in {"abort", "returned"} THEN 1 ELSE 0

\* What the results of the joined sessions and of serve_many say.
ResultInv ==
  /\ \A c \in Conns : link[c] = "open" <=> client[c] # "gone"
  /\ \A c \in Conns : status[c] = "SUCCESS" => Left(c)
  /\ main = "abort" => retval # "SUCCESS"
  /\ main = "returned" /\ retval = "SUCCESS" => started = N
  /\ \A c \in Conns :
       /\ retval = "SUCCESS"
       /\ (main = "join" /\ c < next) \/ (main = "returned" /\ c <= started)
       => status[c] = "SUCCESS"

-----------------------------------------------------------------------------
(* Properties.                                                             *)

\* The shared VkBLASContext is not thread-safe: at most one session is inside
\* vkblas_sgemm (vkdist.c, vkdist_server_dispatch).
BlasExclusive ==
  \A c, d \in Conns :
    thread[c] \in {"lookup", "build"} /\ thread[d] \in {"lookup", "build"} => c = d

\* Check-then-create on the pipeline cache is atomic: however the dispatches
\* of the sessions interleave, the pipeline is created at most once.
PipelineCreatedOnce == created <= 1

\* Between requests the device has finished with a session's command buffer,
\* fence and buffers: they are begun, reset and destroyed only then.
CommandBufferIdle ==
  \A c \in pending : thread[c] \in {"fence", "waitIdle"}

\* When serve_many returns - all sessions served, or pthread_create failed half
\* way - every thread is over, all they allocated is released, every conn_fd
\* was closed exactly once and the mutex it destroys is free.
ReturnsClean ==
  main = "returned" =>
    /\ lockOwner = NoConn
    /\ \A c \in Conns : /\ thread[c] \in {"off", "done"}
                        /\ held[c] = {}
                        /\ closed[c] = 1

\* No error is swallowed: VK_SUCCESS from serve_many means that every connection
\* was served and none of the sessions ended by a failed setup, a request the
\* server gave up on or a reset; its client had left before.  A client that
\* leaves within a frame counts here, see SuccessMeansClean.
SuccessMeansServed ==
  main = "returned" /\ retval = "SUCCESS" =>
    \A c \in Conns : thread[c] = "done" /\ Left(c)

\* "A truncated frame mid-payload is detected by the read-exactly-N helper and
\* treated as an error" (specs/VKDIST-DESIGN.md): VK_SUCCESS means that every
\* client left with BYE, or closed between two frames.
SuccessMeansClean ==
  main = "returned" /\ retval = "SUCCESS" =>
    \A c \in Conns : link[c] \in {"bye", "fin"}

\* A blocked client call always returns: it gets its reply, or the close.
CallsReturn == \A c \in Conns : client[c] = "waiting" ~> client[c] # "waiting"

\* Once every client has left, serve_many returns.
ServeReturns == (\A c \in Conns : client[c] = "gone") ~> main = "returned"

\* "Queue submits ... are safe to use concurrently" (vkdist.h): a VkQueue is
\* externally synchronized, so no two sessions may be inside vkQueueSubmit or
\* vkQueueWaitIdle on it at once.
QueueCallsExclusive ==
  \A c, d \in Conns :
    /\ thread[c] \in {"submit", "copySubmit", "waitIdle"}
    /\ thread[d] \in {"submit", "copySubmit", "waitIdle"}
    => c = d
=============================================================================
