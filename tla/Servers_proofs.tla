---------------------------- MODULE Servers_proofs ----------------------------
(***************************************************************************)
(* TLAPS proofs about the two servers.  VkdistServe, for any number of     *)
(* connections, requests and descriptor sets: each safety property follows *)
(* from an inductive invariant, and each invariant from the ones before    *)
(* it.  HttpServe, for any number of clients and of starts.                *)
(***************************************************************************)
EXTENDS VkdistServe, HttpServe, TLAPS

-----------------------------------------------------------------------------
(* Which actions can change which variables.                               *)

\* The main thread's variables are its own.
LEMMA MainFrame ==
  ASSUME [Next]_vars
  PROVE  MainStep \/ UNCHANGED mainVars
<1>1. ASSUME NEW c \in Conns, SessionStep(c) PROVE UNCHANGED mainVars
  BY <1>1, Zenon DEF SessionStep, Setup, SessionEnds, AnswerDirectly, BeginCopy, BeginGemm, LockBlas,
     LookupPipeline, BuildDispatch, UnlockBlas, SubmitFails, SubmitGemm, SubmitCopy,
     WaitDone, WaitFails, SendReply, SendFails, AfterReply, ReleaseRung, CloseSocket
<1>2. ASSUME NEW c \in Conns, ClientStep(c) PROVE UNCHANGED mainVars
  BY <1>2, Zenon DEF ClientStep, ClientSend, ClientReceive, ClientSeesClose, ClientClose, ClientDies
<1> QED
  BY <1>1, <1>2 DEF Next, Complete, LoseDevice, Terminated, vars

\* The context is used only by the session that dispatches.
LEMMA ContextFrame ==
  ASSUME [Next]_vars
  PROVE  \/ \E c \in Conns : \/ LockBlas(c) \/ LookupPipeline(c)
                             \/ BuildDispatch(c) \/ UnlockBlas(c)
         \/ UNCHANGED ctxVars
<1>1. ASSUME NEW c \in Conns, SessionStep(c)
      PROVE  \/ LockBlas(c) \/ LookupPipeline(c) \/ BuildDispatch(c) \/ UnlockBlas(c)
             \/ UNCHANGED ctxVars
  BY <1>1, Zenon DEF SessionStep, Setup, SessionEnds, AnswerDirectly, BeginCopy, BeginGemm,
     SubmitFails, SubmitGemm, SubmitCopy,
     WaitDone, WaitFails, SendReply, SendFails, AfterReply, ReleaseRung, CloseSocket
<1>2. ASSUME NEW c \in Conns, ClientStep(c) PROVE UNCHANGED ctxVars
  BY <1>2, Zenon DEF ClientStep, ClientSend, ClientReceive, ClientSeesClose, ClientClose, ClientDies
<1>3. ASSUME MainStep PROVE UNCHANGED ctxVars
  BY <1>3 DEF MainStep, SpawnThread, SpawnFails, JoinThread
<1> QED
  BY <1>1, <1>2, <1>3 DEF Next, Complete, LoseDevice, Terminated, vars

\* The device's work changes when it is submitted, finished, given up or lost.
LEMMA DeviceFrame ==
  ASSUME [Next]_vars
  PROVE  \/ \E c \in Conns : SubmitGemm(c) \/ SubmitCopy(c) \/ WaitFails(c) \/ Complete(c)
         \/ LoseDevice
         \/ UNCHANGED gpuVars
<1>1. ASSUME NEW c \in Conns, SessionStep(c)
      PROVE  SubmitGemm(c) \/ SubmitCopy(c) \/ WaitFails(c) \/ UNCHANGED gpuVars
  BY <1>1, Zenon DEF SessionStep, Setup, SessionEnds, AnswerDirectly, BeginCopy, BeginGemm, LockBlas,
     LookupPipeline, BuildDispatch, UnlockBlas, SubmitFails,
     WaitDone, SendReply, SendFails, AfterReply, ReleaseRung, CloseSocket
<1>2. ASSUME NEW c \in Conns, ClientStep(c) PROVE UNCHANGED gpuVars
  BY <1>2, Zenon DEF ClientStep, ClientSend, ClientReceive, ClientSeesClose, ClientClose, ClientDies
<1>3. ASSUME MainStep PROVE UNCHANGED gpuVars
  BY <1>3 DEF MainStep, SpawnThread, SpawnFails, JoinThread
<1> QED
  BY <1>1, <1>2, <1>3 DEF Next, Terminated, vars

\* The socket and the client change when either end uses it.
LEMMA ClientFrame ==
  ASSUME [Next]_vars
  PROVE  \/ \E c \in Conns : SendReply(c) \/ SendFails(c) \/ ClientStep(c)
         \/ UNCHANGED clientVars
<1>1. ASSUME NEW c \in Conns, SessionStep(c)
      PROVE  SendReply(c) \/ SendFails(c) \/ UNCHANGED clientVars
  BY <1>1, Zenon DEF SessionStep, Setup, SessionEnds, AnswerDirectly, BeginCopy, BeginGemm, LockBlas,
     LookupPipeline, BuildDispatch, UnlockBlas, SubmitFails, SubmitGemm, SubmitCopy,
     WaitDone, WaitFails, ReleaseRung, CloseSocket
<1>2. ASSUME MainStep PROVE UNCHANGED clientVars
  BY <1>2 DEF MainStep, SpawnThread, SpawnFails, JoinThread
<1> QED
  BY <1>1, <1>2 DEF Next, Complete, LoseDevice, Terminated, vars

\* A session's own variables change by its steps or by those of the main thread.
LEMMA SessionFrame ==
  ASSUME [Next]_vars
  PROVE  \/ SpawnThread \/ SpawnFails
         \/ \E c \in Conns : SessionStep(c)
         \/ UNCHANGED sessVars
<1>1. ASSUME NEW c \in Conns, ClientStep(c) PROVE UNCHANGED sessVars
  BY <1>1, Zenon DEF ClientStep, ClientSend, ClientReceive, ClientSeesClose, ClientClose, ClientDies
<1> QED
  BY <1>1 DEF Next, MainStep, JoinThread, Complete, LoseDevice, Terminated, vars

-----------------------------------------------------------------------------
(* Types.                                                                  *)

\* A session's next program counter is one.
LEMMA SessionTyped ==
  ASSUME SessionType, ClientType, NEW c \in Conns, SessionStep(c)
  PROVE  /\ SessionType'
         /\ thread[c] # "off" /\ \E pc \in ThreadPCs \ {"off"} : thread' = [thread EXCEPT ![c] = pc]
<1> USE DEF SessionType, Results, ThreadPCs, Goto, sessVars
<1>1. CASE Setup(c)
  <2>0. (IF "setup" \in Faults THEN 0..5 ELSE {5}) \subseteq 0..5
    OBVIOUS
  <2>1. PICK k \in 0..5 : /\ held' = [held EXCEPT ![c] = 1..k]
                          /\ label' = [label EXCEPT ![c] = k]
                          /\ Goto(c, IF k = 5 THEN "recv" ELSE "teardown")
    BY <1>1, <2>0, Zenon DEF Setup, ExitLabel
  <2>2. held' \in [Conns -> SUBSET Rungs] /\ label' \in [Conns -> 0..5]
    <3>1. 1..k \in SUBSET Rungs
      BY DEF Rungs
    <3> QED BY <2>1, <3>1
  <2>3. PICK pc \in {"recv", "teardown"} : thread' = [thread EXCEPT ![c] = pc]
    BY <2>1
  <2> QED BY <1>1, <2>2, <2>3 DEF Setup
<1>2. CASE SessionEnds(c)
  BY <1>2 DEF SessionEnds
<1>3. CASE AnswerDirectly(c)
  BY <1>3 DEF AnswerDirectly
<1>4. CASE BeginCopy(c) \/ BeginGemm(c)
  BY <1>4 DEF BeginCopy, BeginGemm
<1>5. CASE LockBlas(c) \/ LookupPipeline(c)
  BY <1>5 DEF LockBlas, LookupPipeline
<1>6. CASE BuildDispatch(c)
  BY <1>6 DEF BuildDispatch
<1>7. CASE UnlockBlas(c)
  BY <1>7 DEF UnlockBlas
<1>8. CASE SubmitFails(c)
  BY <1>8 DEF SubmitFails
<1>9. CASE SubmitGemm(c) \/ SubmitCopy(c)
  BY <1>9 DEF SubmitGemm, SubmitCopy
<1>10. CASE WaitDone(c)
  BY <1>10 DEF WaitDone
<1>11. CASE WaitFails(c)
  BY <1>11 DEF WaitFails
<1>12. CASE SendReply(c)
  BY <1>12 DEF SendReply, AfterReply
<1>13. CASE SendFails(c)
  BY <1>13 DEF SendFails, AfterReply
<1>14. CASE ReleaseRung(c)
  <2>1. held' \in [Conns -> SUBSET Rungs] /\ label' \in [Conns -> 0..5]
    BY <1>14 DEF ReleaseRung
  <2>2. thread' = [thread EXCEPT ![c] = "teardown"]
    BY <1>14 DEF ReleaseRung
  <2> QED BY <1>14, <2>1, <2>2 DEF ReleaseRung
<1>15. CASE CloseSocket(c)
  <2>1. closed' \in [Conns -> Nat]
    BY <1>15 DEF CloseSocket
  <2> QED BY <1>15, <2>1 DEF CloseSocket
<1> QED
  BY <1>1, <1>2, <1>3, <1>4, <1>5, <1>6, <1>7, <1>8, <1>9, <1>10, <1>11, <1>12, <1>13, <1>14, <1>15
     DEF SessionStep

\* Types alone are not kept: the main loop must know how far it has got.
TypedInv == TypeOK /\ LoopInv

\* Every variable keeps its type, and the main loop its bounds.
THEOREM ServeTyped == SafetySpec => []TypedInv
<1>1. Init => TypedInv
  <2> SUFFICES ASSUME Init PROVE TypedInv
    OBVIOUS
  <2>1. N \in Nat \ {0} /\ MaxSets \in Nat /\ MaxReq \in Nat
    BY ServeAssumption
  <2>2. MainType /\ LoopInv
    BY <2>1 DEF Init, MainType, LoopInv, Conns, Results
  <2>3. SessionType
    BY DEF Init, SessionType, ThreadPCs, Results
  <2>4. ClientType
    BY <2>1 DEF Init, ClientType
  <2>5. ContextType
    <3>1. 0 \in Nat /\ 0 \in 0..MaxSets
      BY <2>1
    <3> QED BY <3>1, Zenon DEF Init, ContextType
  <2>6. DeviceType
    BY Zenon DEF Init, DeviceType
  <2> QED BY <2>2, <2>3, <2>4, <2>5, <2>6 DEF TypedInv, TypeOK
<1>2. TypedInv /\ [Next]_vars => TypedInv'
  <2> SUFFICES ASSUME TypedInv, [Next]_vars PROVE TypedInv'
    OBVIOUS
  <2>1. /\ MainType /\ SessionType /\ ClientType /\ ContextType /\ DeviceType /\ LoopInv
        /\ N \in Nat \ {0} /\ MaxSets \in Nat /\ MaxReq \in Nat
    BY ServeAssumption DEF TypedInv, TypeOK
  <2>2. MainType'
    <3>1. CASE SpawnThread
      BY <2>1, <3>1 DEF SpawnThread, MainType, LoopInv, Conns
    <3>2. CASE SpawnFails
      BY <2>1, <3>2 DEF SpawnFails, MainType, Conns, Results
    <3>3. CASE JoinThread
      BY <2>1, <3>3 DEF JoinThread, JoinedResult, MainType, SessionType, LoopInv, Conns
    <3>4. CASE UNCHANGED mainVars
      BY <2>1, <3>4 DEF mainVars, MainType
    <3> QED BY <3>1, <3>2, <3>3, <3>4, MainFrame DEF MainStep
  <2>3. SessionType'
    <3>1. CASE SpawnThread
      BY <2>1, <3>1 DEF SpawnThread, MainType, SessionType, ThreadPCs
    <3>2. CASE SpawnFails
      BY <2>1, <3>2 DEF SpawnFails, SessionType
    <3>3. CASE UNCHANGED sessVars
      BY <2>1, <3>3 DEF sessVars, SessionType
    <3> QED BY <2>1, <3>1, <3>2, <3>3, SessionFrame, SessionTyped
  <2>4. ClientType'
    <3>1. ASSUME NEW c \in Conns, SendReply(c) PROVE ClientType'
      BY <2>1, <3>1 DEF SendReply, AfterReply, ReplySent, ClientType, SessionType
    <3>2. ASSUME NEW c \in Conns, SendFails(c) PROVE ClientType'
      BY <2>1, <3>2 DEF SendFails, AfterReply, ClientType
    <3>3. ASSUME NEW c \in Conns, ClientSend(c) PROVE ClientType'
      BY <2>1, <3>3, ServeAssumption DEF ClientSend, ClientType
    <3>4. ASSUME NEW c \in Conns, ClientReceive(c) \/ ClientSeesClose(c) \/ ClientClose(c)
          PROVE  ClientType'
      BY <2>1, <3>4 DEF ClientReceive, ClientSeesClose, ClientClose, ClientType
    <3>5. ASSUME NEW c \in Conns, ClientDies(c) PROVE ClientType'
      BY <2>1, <3>5 DEF ClientDies, ClientType
    <3>6. CASE UNCHANGED clientVars
      BY <2>1, <3>6 DEF clientVars, ClientType
    <3> QED BY <3>1, <3>2, <3>3, <3>4, <3>5, <3>6, ClientFrame DEF ClientStep
  <2>5. ContextType'
    <3>1. ASSUME NEW c \in Conns, LockBlas(c) \/ LookupPipeline(c) PROVE ContextType'
      BY <2>1, <3>1 DEF LockBlas, LookupPipeline, ContextType
    <3>2. ASSUME NEW c \in Conns, BuildDispatch(c) PROVE ContextType'
      <4>1. setsUsed' \in 0..MaxSets
        BY <2>1, <3>2 DEF BuildDispatch, SetLeft, ContextType
      <4>2. cached' \in BOOLEAN /\ created' \in {created, created + 1}
        BY <2>1, <3>2, Zenon DEF BuildDispatch, ContextType
      <4>3. created' \in Nat
        BY <2>1, <4>2 DEF ContextType
      <4>4. missed' \in [Conns -> BOOLEAN]
        BY <2>1, <3>2 DEF BuildDispatch, ContextType
      <4> QED BY <2>1, <3>2, <4>1, <4>2, <4>3, <4>4, Zenon DEF BuildDispatch, ContextType
    <3>3. ASSUME NEW c \in Conns, UnlockBlas(c) PROVE ContextType'
      BY <2>1, <3>3 DEF UnlockBlas, LockAfter, ContextType
    <3>4. CASE UNCHANGED ctxVars
      BY <2>1, <3>4 DEF ctxVars, ContextType
    <3> QED BY <3>1, <3>2, <3>3, <3>4, ContextFrame
  <2>6. DeviceType'
    <3>1. ASSUME NEW c \in Conns, SubmitGemm(c) \/ SubmitCopy(c) PROVE DeviceType'
      BY <2>1, <3>1 DEF SubmitGemm, SubmitCopy, DeviceType
    <3>2. ASSUME NEW c \in Conns, WaitFails(c) \/ Complete(c) PROVE DeviceType'
      BY <2>1, <3>2 DEF WaitFails, Complete, DeviceType
    <3>3. CASE LoseDevice
      BY <2>1, <3>3 DEF LoseDevice, DeviceType
    <3>4. CASE UNCHANGED gpuVars
      BY <2>1, <3>4 DEF gpuVars, DeviceType
    <3> QED BY <3>1, <3>2, <3>3, <3>4, DeviceFrame
  <2>7. LoopInv'
    <3>1. CASE SpawnThread
      BY <2>1, <3>1 DEF SpawnThread, MainType, SessionType, LoopInv, Conns
    <3>2. CASE SpawnFails
      BY <2>1, <3>2 DEF SpawnFails, MainType, LoopInv, Conns
    <3>3. CASE JoinThread
      BY <2>1, <3>3 DEF JoinThread, MainType, LoopInv, Conns, sessVars
    <3>4. ASSUME UNCHANGED mainVars, NEW c \in Conns, SessionStep(c) PROVE LoopInv'
      BY <2>1, <3>4, SessionTyped DEF mainVars, SessionType, LoopInv
    <3>5. CASE UNCHANGED mainVars /\ UNCHANGED sessVars
      BY <2>1, <3>5 DEF mainVars, sessVars, LoopInv
    <3> QED BY <3>1, <3>2, <3>3, <3>4, <3>5, MainFrame, SessionFrame DEF MainStep
  <2> QED BY <2>2, <2>3, <2>4, <2>5, <2>6, <2>7 DEF TypedInv, TypeOK
<1> QED BY <1>1, <1>2, PTL DEF SafetySpec

-----------------------------------------------------------------------------
(* The shared context.                                                     *)

Inside == {"lookup", "build", "unlock"}

\* A session enters and leaves the context by its four actions only.
LEMMA OutsideContext ==
  ASSUME SessionType, NEW c \in Conns, SessionStep(c),
         ~(LockBlas(c) \/ LookupPipeline(c) \/ BuildDispatch(c) \/ UnlockBlas(c))
  PROVE  /\ \E pc \in ThreadPCs \ Inside : thread' = [thread EXCEPT ![c] = pc]
         /\ thread[c] \notin Inside
         /\ UNCHANGED ctxVars
<1> USE DEF Inside, ThreadPCs, Goto
<1>1. CASE Setup(c)
  <2>1. \E pc \in {"recv", "teardown"} : thread' = [thread EXCEPT ![c] = pc]
    BY <1>1, Zenon DEF Setup
  <2> QED BY <1>1, <2>1 DEF Setup
<1>2. CASE SessionEnds(c)
  BY <1>2 DEF SessionEnds
<1>3. CASE AnswerDirectly(c) \/ BeginCopy(c) \/ BeginGemm(c)
  BY <1>3 DEF AnswerDirectly, BeginCopy, BeginGemm
<1>4. CASE SubmitFails(c) \/ SubmitGemm(c) \/ SubmitCopy(c)
  BY <1>4 DEF SubmitFails, SubmitGemm, SubmitCopy
<1>5. CASE WaitDone(c) \/ WaitFails(c)
  BY <1>5 DEF WaitDone, WaitFails
<1>6. CASE SendReply(c) \/ SendFails(c)
  BY <1>6 DEF SendReply, SendFails, AfterReply
<1>7. CASE ReleaseRung(c) \/ CloseSocket(c)
  <2>1. CASE ReleaseRung(c)
    <3>1. thread' = [thread EXCEPT ![c] = "teardown"]
      BY <2>1 DEF ReleaseRung, SessionType
    <3> QED BY <2>1, <3>1 DEF ReleaseRung
  <2>2. CASE CloseSocket(c)
    BY <2>2 DEF CloseSocket
  <2> QED BY <1>7, <2>1, <2>2
<1> QED
  BY <1>1, <1>2, <1>3, <1>4, <1>5, <1>6, <1>7 DEF SessionStep

\* The mutex makes looking a pipeline up and creating it one step.
THEOREM ContextGuarded == SafetySpec => [](LockInv /\ CacheInv)
<1>1. Init => LockInv /\ CacheInv
  BY ServeAssumption DEF Init, LockInv, CacheInv, Conns, NoConn
<1>2. TypedInv /\ LockInv /\ CacheInv /\ [Next]_vars => (LockInv /\ CacheInv)'
  <2> SUFFICES ASSUME TypedInv, LockInv, CacheInv, [Next]_vars PROVE (LockInv /\ CacheInv)'
    OBVIOUS
  <2>1. /\ MainType /\ SessionType /\ ContextType /\ LoopInv
        /\ thread \in [Conns -> ThreadPCs] /\ missed \in [Conns -> BOOLEAN]
        /\ cached \in BOOLEAN /\ created \in Nat
    BY DEF TypedInv, TypeOK, SessionType, ContextType
  <2>2. ASSUME NEW c \in Conns, LockBlas(c) PROVE (LockInv /\ CacheInv)'
    <3>1. /\ lockOwner = NoConn /\ lockOwner' = c /\ NoConn \notin Conns
          /\ thread' = [thread EXCEPT ![c] = "lookup"]
          /\ UNCHANGED <<cached, created, missed>>
      BY <2>2 DEF LockBlas, LockFree, Goto, Conns, NoConn
    <3>2. LockInv'
      BY <2>1, <3>1 DEF LockInv
    <3>3. \A d \in Conns : thread'[d] = "build" => thread[d] = "build"
      BY <2>1, <3>1
    <3> QED BY <3>1, <3>2, <3>3, Zenon DEF CacheInv
  <2>3. ASSUME NEW c \in Conns, LookupPipeline(c) PROVE (LockInv /\ CacheInv)'
    <3>1. /\ thread[c] = "lookup" /\ thread' = [thread EXCEPT ![c] = "build"]
          /\ missed' = [missed EXCEPT ![c] = ~cached]
          /\ UNCHANGED <<lockOwner, cached, created>>
      BY <2>3 DEF LookupPipeline, Goto
    <3>2. LockInv'
      BY <2>1, <3>1 DEF LockInv
    <3>3. \A d \in Conns : thread'[d] = "build" => d = c
      BY <2>1, <3>1 DEF LockInv
    <3>4. missed'[c] = ~cached'
      BY <2>1, <3>1, Zenon
    <3>5. \A d \in Conns : thread'[d] = "build" => missed'[d] = ~cached'
      BY <3>3, <3>4, Zenon
    <3>6. created' = IF cached' THEN 1 ELSE 0
      BY <3>1, Zenon DEF CacheInv
    <3> QED BY <3>2, <3>5, <3>6, Zenon DEF CacheInv
  <2>4. ASSUME NEW c \in Conns, BuildDispatch(c) PROVE (LockInv /\ CacheInv)'
    <3>1. /\ thread[c] = "build" /\ thread' = [thread EXCEPT ![c] = "unlock"]
          /\ lockOwner' = lockOwner
      BY <2>4 DEF BuildDispatch, Goto
    <3>2. LockInv'
      BY <2>1, <3>1 DEF LockInv
    <3>3. \A d \in Conns : thread'[d] # "build"
      BY <2>1, <3>1 DEF LockInv
    <3>4. \/ cached' = cached /\ created' = created
          \/ cached' = TRUE /\ created' = IF missed[c] THEN created + 1 ELSE created
      BY <2>4, Zenon DEF BuildDispatch
    <3>5. missed[c] = ~cached /\ created = IF cached THEN 1 ELSE 0
      BY <3>1, Zenon DEF CacheInv
    <3>6. created' = IF cached' THEN 1 ELSE 0
      <4>1. CASE cached
        BY <3>4, <3>5, <4>1
      <4>2. CASE ~cached
        <5>1. created = 0 /\ missed[c]
          BY <3>5, <4>2, Zenon
        <5>2. CASE cached' = cached /\ created' = created
          BY <4>2, <5>1, <5>2, Zenon
        <5>3. CASE cached' = TRUE /\ created' = IF missed[c] THEN created + 1 ELSE created
          <6>1. created' = 0 + 1
            BY <5>1, <5>3, Zenon
          <6>2. created' = 1
            BY <6>1
          <6> QED BY <5>3, <6>2, Zenon
        <5> QED BY <3>4, <5>2, <5>3, Zenon
      <4> QED BY <4>1, <4>2
    <3> QED BY <3>2, <3>3, <3>6, Zenon DEF CacheInv
  <2>5. ASSUME NEW c \in Conns, UnlockBlas(c) PROVE (LockInv /\ CacheInv)'
    <3>1. /\ thread[c] = "unlock" /\ lockOwner' = NoConn /\ NoConn \notin Conns
          /\ \E pc \in {"submit", "reply"} : thread' = [thread EXCEPT ![c] = pc]
          /\ UNCHANGED <<cached, created, missed>>
      BY <2>5 DEF UnlockBlas, LockAfter, Goto, Conns, NoConn
    <3>2. LockInv'
      BY <2>1, <3>1 DEF LockInv
    <3>3. \A d \in Conns : thread'[d] = "build" => thread[d] = "build"
      BY <2>1, <3>1
    <3> QED BY <3>1, <3>2, <3>3, Zenon DEF CacheInv
  <2>6. ASSUME NEW c \in Conns, NEW pc \in ThreadPCs \ Inside,
               thread' = [thread EXCEPT ![c] = pc], thread[c] \notin Inside, UNCHANGED ctxVars
        PROVE  (LockInv /\ CacheInv)'
    <3>1. LockInv'
      BY <2>1, <2>6 DEF LockInv, Inside, ctxVars
    <3>2. \A d \in Conns : thread'[d] = "build" => thread[d] = "build"
      BY <2>1, <2>6 DEF Inside
    <3>3. UNCHANGED <<cached, created, missed>>
      BY <2>6 DEF ctxVars
    <3> QED BY <3>1, <3>2, <3>3, Zenon DEF CacheInv
  <2>7. ASSUME NEW c \in Conns, SessionStep(c) PROVE (LockInv /\ CacheInv)'
    BY <2>1, <2>2, <2>3, <2>4, <2>5, <2>6, <2>7, OutsideContext
  <2>8. CASE SpawnThread
    <3>1. /\ next \in Conns /\ thread' = [thread EXCEPT ![next] = "setup"]
          /\ UNCHANGED ctxVars /\ "setup" \in ThreadPCs \ Inside
      BY <2>1, <2>8 DEF SpawnThread, MainType, ThreadPCs, Inside
    <3>2. thread[next] \notin Inside
      BY <2>1, <2>8 DEF SpawnThread, MainType, LoopInv, Conns, Inside
    <3> QED BY <2>6, <3>1, <3>2
  <2>9. CASE thread' = thread /\ UNCHANGED ctxVars
    BY <2>9 DEF LockInv, CacheInv, ctxVars
  <2>10. CASE SpawnFails \/ UNCHANGED sessVars
    <3>1. thread' = thread
      BY <2>10 DEF SpawnFails, sessVars
    <3>2. CASE UNCHANGED ctxVars
      BY <2>9, <3>1, <3>2
    <3>3. ASSUME NEW c \in Conns, LockBlas(c) \/ LookupPipeline(c)
                                  \/ BuildDispatch(c) \/ UnlockBlas(c)
          PROVE  (LockInv /\ CacheInv)'
      BY <2>2, <2>3, <2>4, <2>5, <3>3
    <3> QED BY <3>2, <3>3, ContextFrame
  <2> QED BY <2>7, <2>8, <2>10, SessionFrame
<1> QED BY <1>1, <1>2, ServeTyped, PTL DEF SafetySpec

\* Two sessions are never inside vkblas_sgemm at once.
THEOREM ContextExclusive == SafetySpec => []BlasExclusive
<1>1. LockInv => BlasExclusive
  BY DEF LockInv, BlasExclusive
<1> QED BY <1>1, ContextGuarded, PTL

\* The pipeline is created at most once, whatever the interleaving.
THEOREM OnePipeline == SafetySpec => []PipelineCreatedOnce
<1>1. CacheInv => PipelineCreatedOnce
  BY DEF CacheInv, PipelineCreatedOnce
<1> QED BY <1>1, ContextGuarded, PTL

-----------------------------------------------------------------------------
(* The device.                                                             *)

\* Away from the device a session leaves the queue alone, and it leaves a wait
\* only when its own work is over.
LEMMA AwayFromDevice ==
  ASSUME "wait" \notin Faults, SessionType, ClientType, DeviceInv, NEW c \in Conns, SessionStep(c)
  PROVE  \/ SubmitGemm(c) \/ SubmitCopy(c)
         \/ /\ c \notin pending /\ UNCHANGED <<pending, lost>>
            /\ \A d \in Conns \ {c} : awaited'[d] = awaited[d] /\ thread'[d] = thread[d]
<1>1. \A d \in Conns \ {c} : thread'[d] = thread[d]
  BY SessionTyped DEF SessionType
<1>2. CASE thread[c] \notin {"fence", "waitIdle"}
  <2>1. SubmitGemm(c) \/ SubmitCopy(c) \/ UNCHANGED gpuVars
    BY <1>2 DEF SessionStep, Setup, SessionEnds, AnswerDirectly, BeginCopy, BeginGemm, LockBlas,
       LookupPipeline, BuildDispatch, UnlockBlas, SubmitFails,
       WaitDone, WaitFails, SendReply, SendFails, AfterReply, ReleaseRung, CloseSocket
  <2>2. c \notin pending
    BY <1>2 DEF DeviceInv
  <2> QED BY <1>1, <2>1, <2>2 DEF gpuVars
<1>3. CASE thread[c] \in {"fence", "waitIdle"}
  <2>1. WaitDone(c) \/ WaitFails(c)
    BY <1>3 DEF SessionStep, Setup, SessionEnds, AnswerDirectly, BeginCopy, BeginGemm, LockBlas,
       LookupPipeline, BuildDispatch, UnlockBlas, SubmitFails, SubmitGemm, SubmitCopy,
       SendReply, SendFails, ReleaseRung, CloseSocket
  <2>2. CASE WaitDone(c)
    BY <1>1, <2>2 DEF WaitDone, FenceSignaled, QueueIdle, DeviceInv, gpuVars
  <2>3. CASE WaitFails(c)
    BY <1>1, <2>3 DEF WaitFails, DeviceInv
  <2> QED BY <2>1, <2>2, <2>3
<1> QED BY <1>2, <1>3

\* As long as a wait does not give up on running work (it may fail once the
\* device is lost), whatever the device still works on has a session waiting.
THEOREM DeviceWaits ==
  ASSUME "wait" \notin Faults
  PROVE  SafetySpec => []DeviceInv
<1>1. Init => DeviceInv
  BY DEF Init, DeviceInv
<1>2. TypedInv /\ DeviceInv /\ [Next]_vars => DeviceInv'
  <2> SUFFICES ASSUME TypedInv, DeviceInv, [Next]_vars PROVE DeviceInv'
    OBVIOUS
  <2>1. MainType /\ SessionType /\ ClientType /\ DeviceType /\ LoopInv
    BY DEF TypedInv, TypeOK
  <2>2. ASSUME NEW c \in Conns, SessionStep(c) PROVE DeviceInv'
    <3>1. CASE SubmitGemm(c) \/ SubmitCopy(c)
      BY <2>1, <3>1 DEF SubmitGemm, SubmitCopy, Goto, DeviceInv, SessionType, DeviceType
    <3>2. CASE /\ c \notin pending /\ UNCHANGED <<pending, lost>>
               /\ \A d \in Conns \ {c} : awaited'[d] = awaited[d] /\ thread'[d] = thread[d]
      BY <2>1, <3>2 DEF DeviceInv, DeviceType
    <3> QED BY <2>1, <2>2, <3>1, <3>2, AwayFromDevice
  <2>3. ASSUME NEW c \in Conns, Complete(c) PROVE DeviceInv'
    BY <2>1, <2>3 DEF Complete, DeviceInv, DeviceType, sessVars
  <2>4. CASE LoseDevice
    BY <2>4 DEF LoseDevice, DeviceInv
  <2>5. CASE SpawnThread
    BY <2>1, <2>5 DEF SpawnThread, MainType, LoopInv, Conns, DeviceInv, DeviceType, SessionType, gpuVars
  <2>6. CASE UNCHANGED <<thread, gpuVars>>
    BY <2>6 DEF DeviceInv, gpuVars
  <2>7. ASSUME NEW c \in Conns, ClientStep(c) PROVE UNCHANGED <<thread, gpuVars>>
    BY <2>7, Zenon DEF ClientStep, ClientSend, ClientReceive, ClientSeesClose, ClientClose, ClientDies,
       sessVars
  <2> QED
    BY <2>2, <2>3, <2>4, <2>5, <2>6, <2>7
       DEF Next, MainStep, SpawnFails, JoinThread, Terminated, vars, sessVars
<1> QED BY <1>1, <1>2, ServeTyped, PTL DEF SafetySpec

\* The command buffer, fence and buffers of a session are idle between requests.
THEOREM CommandBufferIsIdle ==
  ASSUME "wait" \notin Faults
  PROVE  SafetySpec => []CommandBufferIdle
<1>1. DeviceInv => CommandBufferIdle
  BY DEF DeviceInv, CommandBufferIdle
<1> QED BY <1>1, DeviceWaits, PTL

-----------------------------------------------------------------------------
(* The end of serve_many.                                                  *)

\* A session takes its rungs in Setup, gives them back label by label, and then
\* the socket; nothing follows that.
LEMMA Holdings ==
  ASSUME SessionType, ClientType, NEW c \in Conns, SessionStep(c)
  PROVE  /\ thread[c] \notin {"off", "done"}
         /\ \/ Setup(c) \/ ReleaseRung(c) \/ CloseSocket(c)
            \/ /\ UNCHANGED <<closed, held, label>>
               /\ thread[c] \notin {"setup", "teardown"}
               /\ \E pc \in ThreadPCs \ {"off", "setup", "done"} :
                    thread' = [thread EXCEPT ![c] = pc]
<1> USE DEF SessionType, ThreadPCs, Goto, sessVars
<1>1. CASE Setup(c) \/ ReleaseRung(c) \/ CloseSocket(c)
  BY <1>1 DEF Setup, ReleaseRung, CloseSocket
<1>2. CASE SessionEnds(c)
  BY <1>2 DEF SessionEnds
<1>3. CASE AnswerDirectly(c) \/ BeginCopy(c) \/ BeginGemm(c)
  BY <1>3 DEF AnswerDirectly, BeginCopy, BeginGemm
<1>4. CASE LockBlas(c) \/ LookupPipeline(c)
  BY <1>4 DEF LockBlas, LookupPipeline
<1>5. CASE BuildDispatch(c)
  BY <1>5 DEF BuildDispatch
<1>6. CASE UnlockBlas(c)
  BY <1>6 DEF UnlockBlas
<1>7. CASE SubmitFails(c) \/ SubmitGemm(c) \/ SubmitCopy(c)
  BY <1>7 DEF SubmitFails, SubmitGemm, SubmitCopy
<1>8. CASE WaitDone(c) \/ WaitFails(c)
  BY <1>8 DEF WaitDone, WaitFails
<1>9. CASE SendReply(c)
  BY <1>9 DEF SendReply, AfterReply
<1>10. CASE SendFails(c)
  BY <1>10 DEF SendFails, AfterReply
<1> QED
  BY <1>1, <1>2, <1>3, <1>4, <1>5, <1>6, <1>7, <1>8, <1>9, <1>10 DEF SessionStep

\* One session's part of CleanInv.
Held(c) ==
  /\ thread[c] \in {"off", "setup", "done"} => held[c] = {}
  /\ thread[c] \notin {"off", "setup", "done"} => held[c] = 1..label[c]
  /\ thread[c] \notin {"off", "setup", "teardown", "done"} => label[c] = 5

\* Each of its steps takes or gives back what the ladder says.
LEMMA LadderStep ==
  ASSUME SessionType, ClientType, NEW c \in Conns, SessionStep(c), \A d \in Conns : Held(d)
  PROVE  \A d \in Conns : Held(d)'
<1> USE DEF SessionType, ThreadPCs, Goto
<1>1. CASE Setup(c)
  <2>0. (IF "setup" \in Faults THEN 0..5 ELSE {5}) \subseteq 0..5
    OBVIOUS
  <2>1. PICK k \in 0..5 : /\ held' = [held EXCEPT ![c] = 1..k]
                          /\ label' = [label EXCEPT ![c] = k]
                          /\ Goto(c, IF k = 5 THEN "recv" ELSE "teardown")
    BY <1>1, <2>0, Zenon DEF Setup, ExitLabel
  <2>2. Held(c)'
    <3>1. held'[c] = 1..k /\ label'[c] = k /\ thread'[c] = IF k = 5 THEN "recv" ELSE "teardown"
      BY <2>1
    <3> QED BY <3>1 DEF Held
  <2>3. \A d \in Conns \ {c} : Held(d)'
    BY <2>1 DEF Held
  <2> QED BY <2>2, <2>3
<1>2. CASE ReleaseRung(c)
  <2>1. /\ thread' = thread /\ thread[c] = "teardown" /\ label[c] \in 1..5
        /\ held' = [held EXCEPT ![c] = @ \ {label[c]}]
        /\ label' = [label EXCEPT ![c] = @ - 1]
    BY <1>2 DEF ReleaseRung
  <2>2. held'[c] = (1..label[c]) \ {label[c]} /\ label'[c] = label[c] - 1
    BY <2>1 DEF Held
  <2>3. (1..label[c]) \ {label[c]} = 1..(label[c] - 1)
    BY <2>1
  <2>4. Held(c)'
    BY <2>1, <2>2, <2>3 DEF Held
  <2>5. \A d \in Conns \ {c} : Held(d)'
    BY <2>1 DEF Held
  <2> QED BY <2>4, <2>5
<1>3. CASE CloseSocket(c)
  <2>1. /\ thread' = [thread EXCEPT ![c] = "done"] /\ thread[c] = "teardown" /\ label[c] = 0
        /\ UNCHANGED <<held, label>>
    BY <1>3 DEF CloseSocket
  <2>2. 1..0 = {}
    OBVIOUS
  <2> QED BY <2>1, <2>2 DEF Held
<1>4. CASE /\ UNCHANGED <<closed, held, label>>
           /\ thread[c] \notin {"off", "setup", "teardown", "done"}
           /\ \E pc \in ThreadPCs \ {"off", "setup", "done"} : thread' = [thread EXCEPT ![c] = pc]
  BY <1>4 DEF Held
<1> QED
  BY <1>1, <1>2, <1>3, <1>4, Holdings

\* Joined threads are over; what is over is released and closed, once.
THEOREM Cleaned == SafetySpec => []CleanInv
<1>1. Init => CleanInv
  BY DEF Init, CleanInv
<1>2. TypedInv /\ CleanInv /\ [Next]_vars => CleanInv'
  <2> SUFFICES ASSUME TypedInv, CleanInv, [Next]_vars PROVE CleanInv'
    OBVIOUS
  <2> DEFINE Joined == /\ \A c \in Conns : main \in {"join", "abort"} /\ c < next => thread[c] = "done"
                       /\ \A c \in Conns : main = "returned" /\ c <= started => thread[c] = "done"
             Closed == \A c \in Conns :
                         closed[c] = IF \/ thread[c] = "done"
                                        \/ thread[c] = "off" /\ main \in {"abort", "returned"}
                                     THEN 1 ELSE 0
  <2>1. MainType /\ SessionType /\ ClientType /\ LoopInv /\ N \in Nat \ {0}
    BY ServeAssumption DEF TypedInv, TypeOK
  <2>2. Joined /\ Closed /\ \A c \in Conns : Held(c)
    BY DEF CleanInv, Held
  <2>3. (\A c \in Conns : Held(c)') /\ Joined' /\ Closed' => CleanInv'
    BY DEF CleanInv, Held
  <2>4. CASE SpawnThread
    <3>1. Joined' /\ Closed'
      BY <2>1, <2>2, <2>4 DEF SpawnThread, MainType, SessionType, LoopInv, Conns
    <3>2. \A c \in Conns : Held(c)'
      BY <2>1, <2>2, <2>4 DEF SpawnThread, MainType, SessionType, LoopInv, Conns, Held
    <3> QED BY <2>3, <3>1, <3>2
  <2>5. CASE SpawnFails
    <3>1. Joined' /\ Closed'
      BY <2>1, <2>2, <2>5 DEF SpawnFails, RollBackCloses, MainType, SessionType, LoopInv, Conns
    <3>2. \A c \in Conns : Held(c)'
      BY <2>2, <2>5 DEF SpawnFails, Held
    <3> QED BY <2>3, <3>1, <3>2
  <2>6. CASE JoinThread
    <3>1. Joined' /\ Closed'
      BY <2>1, <2>2, <2>6 DEF JoinThread, Joinable, MainType, SessionType, LoopInv, Conns, sessVars
    <3>2. \A c \in Conns : Held(c)'
      BY <2>2, <2>6 DEF JoinThread, sessVars, Held
    <3> QED BY <2>3, <3>1, <3>2
  <2>7. ASSUME UNCHANGED mainVars, NEW c \in Conns, SessionStep(c) PROVE CleanInv'
    <3>1. \A d \in Conns : Held(d)'
      BY <2>1, <2>2, <2>7, LadderStep
    <3>2. CASE CloseSocket(c)
      BY <2>1, <2>2, <2>3, <2>7, <3>1, <3>2 DEF CloseSocket, Goto, mainVars, SessionType
    <3>3. CASE /\ closed' = closed /\ thread[c] \notin {"off", "done"}
               /\ \E pc \in ThreadPCs \ {"off", "done"} : thread' = [thread EXCEPT ![c] = pc]
      BY <2>1, <2>2, <2>3, <2>7, <3>1, <3>3 DEF mainVars, SessionType
    <3>4. CASE Setup(c)
      <4>1. \E pc \in {"recv", "teardown"} : thread' = [thread EXCEPT ![c] = pc]
        BY <3>4, Zenon DEF Setup, Goto
      <4> QED BY <2>1, <2>7, <3>3, <3>4, <4>1, Holdings DEF Setup, ThreadPCs
    <3>5. CASE ReleaseRung(c)
      BY <2>1, <2>2, <2>3, <2>7, <3>1, <3>5 DEF ReleaseRung, mainVars
    <3> QED BY <2>1, <2>7, <3>2, <3>3, <3>4, <3>5, Holdings
  <2>8. CASE UNCHANGED mainVars /\ UNCHANGED sessVars
    BY <2>8 DEF mainVars, sessVars, CleanInv
  <2> QED BY <2>4, <2>5, <2>6, <2>7, <2>8, MainFrame, SessionFrame DEF MainStep
<1> QED BY <1>1, <1>2, ServeTyped, PTL DEF SafetySpec

\* However it comes to return, serve_many returns clean.
THEOREM ServeReturnsClean == SafetySpec => []ReturnsClean
<1>1. TypedInv /\ LockInv /\ CleanInv => ReturnsClean
  <2> SUFFICES ASSUME TypedInv, LockInv, CleanInv, main = "returned" PROVE ReturnsClean
    BY DEF ReturnsClean
  <2>1. /\ LoopInv /\ MainType /\ lockOwner \in Conns \cup {NoConn} /\ N \in Nat
    BY ServeAssumption DEF TypedInv, TypeOK, ContextType
  <2>2. \A c \in Conns : thread[c] \in {"off", "done"}
    BY <2>1 DEF LoopInv, MainType, CleanInv, Conns
  <2>3. lockOwner = NoConn
    BY <2>1, <2>2 DEF LockInv
  <2> QED BY <2>2, <2>3 DEF ReturnsClean, CleanInv
<1> QED BY <1>1, ServeTyped, ContextGuarded, Cleaned, PTL

-----------------------------------------------------------------------------
(* The results.                                                            *)

\* The outcome of a client call is its own: a client that leaves, leaves once.
LEMMA LinkStep ==
  ASSUME ClientType, [Next]_vars, \A c \in Conns : link[c] = "open" <=> client[c] # "gone"
  PROVE  /\ \A c \in Conns : link'[c] = "open" <=> client'[c] # "gone"
         /\ \A c \in Conns : link[c] # "open" => link'[c] = link[c]
<1>1. ASSUME NEW c \in Conns, SendReply(c) \/ SendFails(c)
      PROVE  UNCHANGED <<client, link>>
  BY <1>1, Zenon DEF SendReply, SendFails, AfterReply
<1>2. ASSUME NEW c \in Conns, ClientSend(c) \/ ClientReceive(c)
      PROVE  /\ link' = link
             /\ \A d \in Conns : client[d] # "gone" <=> client'[d] # "gone"
  BY <1>2 DEF ClientSend, ClientReceive, ClientType
<1>3. ASSUME NEW c \in Conns, ClientSeesClose(c) \/ ClientClose(c) \/ ClientDies(c)
      PROVE  /\ client[c] # "gone" /\ client' = [client EXCEPT ![c] = "gone"]
             /\ \E how \in {"bye", "fin", "cut", "reset", "closed"} : link' = [link EXCEPT ![c] = how]
  BY <1>3 DEF ClientSeesClose, ClientClose, ClientDies
<1>4. CASE UNCHANGED <<client, link>>
  BY <1>4
<1> QED
  BY <1>1, <1>2, <1>3, <1>4, ClientFrame DEF ClientStep, ClientType, clientVars

\* A session reports success only of a socket its client has left.
LEMMA StatusStep ==
  ASSUME SessionType, NEW c \in Conns, SessionStep(c), NEW d \in Conns,
         status'[d] = "SUCCESS", status[d] # "SUCCESS"
  PROVE  Left(d)
<1> USE DEF SessionType
<1>1. CASE SessionEnds(c)
  BY <1>1 DEF SessionEnds
<1>2. CASE SendReply(c) \/ SendFails(c)
  BY <1>2 DEF SendReply, SendFails, AfterReply
<1>3. CASE status' = status
  BY <1>3
<1>4. SessionEnds(c) \/ SendReply(c) \/ SendFails(c) \/ status' = status
  BY Zenon DEF SessionStep, Setup, AnswerDirectly, BeginCopy, BeginGemm, LockBlas,
     LookupPipeline, BuildDispatch, UnlockBlas, SubmitFails, SubmitGemm, SubmitCopy,
     WaitDone, WaitFails, ReleaseRung, CloseSocket
<1> QED BY <1>1, <1>2, <1>3, <1>4

\* The status of another session is left alone.
LEMMA StatusKept ==
  ASSUME SessionType, NEW c \in Conns, SessionStep(c), NEW d \in Conns \ {c}
  PROVE  status'[d] = status[d]
<1> USE DEF SessionType
<1>1. CASE SessionEnds(c)
  BY <1>1 DEF SessionEnds
<1>2. CASE SendReply(c) \/ SendFails(c)
  BY <1>2 DEF SendReply, SendFails, AfterReply
<1>3. SessionEnds(c) \/ SendReply(c) \/ SendFails(c) \/ status' = status
  BY Zenon DEF SessionStep, Setup, AnswerDirectly, BeginCopy, BeginGemm, LockBlas,
     LookupPipeline, BuildDispatch, UnlockBlas, SubmitFails, SubmitGemm, SubmitCopy,
     WaitDone, WaitFails, ReleaseRung, CloseSocket
<1> QED BY <1>1, <1>2, <1>3

\* What serve_many returns sums up what its sessions returned.
THEOREM ResultsSummed == SafetySpec => []ResultInv
<1>1. Init => ResultInv
  BY ServeAssumption DEF Init, ResultInv, Conns
<1>2. TypedInv /\ CleanInv /\ ResultInv /\ [Next]_vars => ResultInv'
  <2> SUFFICES ASSUME TypedInv, CleanInv, ResultInv, [Next]_vars PROVE ResultInv'
    OBVIOUS
  <2> DEFINE Ended(c) == (main = "join" /\ c < next) \/ (main = "returned" /\ c <= started)
             Said == /\ main = "abort" => retval # "SUCCESS"
                     /\ main = "returned" /\ retval = "SUCCESS" => started = N
                     /\ \A c \in Conns : retval = "SUCCESS" /\ Ended(c) => status[c] = "SUCCESS"
  <2>1. MainType /\ SessionType /\ ClientType /\ LoopInv /\ N \in Nat \ {0}
    BY ServeAssumption DEF TypedInv, TypeOK
  <2>2. /\ \A c \in Conns : link'[c] = "open" <=> client'[c] # "gone"
        /\ \A c \in Conns : link[c] # "open" => link'[c] = link[c]
    BY <2>1, LinkStep DEF ResultInv
  <2>3. status' = status \/ \E c \in Conns : SessionStep(c)
    BY SessionFrame DEF SpawnThread, SpawnFails, sessVars
  <2>4. \A c \in Conns : status'[c] = "SUCCESS" => Left(c)
    BY <2>1, <2>3, StatusStep DEF ResultInv
  <2>5. \A c \in Conns : status'[c] = "SUCCESS" => Left(c)'
    BY <2>2, <2>4 DEF Left
  <2>6. Said'
    <3>1. CASE SpawnThread
      BY <2>1, <3>1 DEF SpawnThread, ResultInv, MainType, LoopInv, Conns
    <3>2. CASE SpawnFails
      BY <2>1, <3>2 DEF SpawnFails, ResultInv
    <3>3. CASE JoinThread
      BY <2>1, <3>3 DEF JoinThread, JoinedResult, ResultInv, MainType, LoopInv, Conns, sessVars
    <3>4. ASSUME UNCHANGED mainVars, NEW c \in Conns, SessionStep(c) PROVE Said'
      <4>1. thread[c] # "done"
        BY <2>1, <3>4, Holdings
      <4>2. \A d \in Conns : Ended(d) => d # c
        BY <4>1 DEF CleanInv
      <4> QED BY <2>1, <3>4, <4>2, StatusKept DEF mainVars, ResultInv
    <3>5. CASE UNCHANGED mainVars /\ UNCHANGED sessVars
      BY <3>5 DEF mainVars, sessVars, ResultInv
    <3> QED BY <3>1, <3>2, <3>3, <3>4, <3>5, MainFrame, SessionFrame DEF MainStep
  <2> QED BY <2>2, <2>5, <2>6 DEF ResultInv
<1> QED BY <1>1, <1>2, ServeTyped, Cleaned, PTL DEF SafetySpec

\* VK_SUCCESS is returned only when every session was served and its client was
\* the one to leave: no error of a setup, a request or the socket is swallowed.
THEOREM SuccessIsServed == SafetySpec => []SuccessMeansServed
<1>1. TypedInv /\ CleanInv /\ ResultInv => SuccessMeansServed
  BY DEF TypedInv, TypeOK, CleanInv, ResultInv, SuccessMeansServed, Conns
<1> QED BY <1>1, ServeTyped, Cleaned, ResultsSummed, PTL

\* The type invariant on its own.
THEOREM ServeTypeOK == SafetySpec => []TypeOK
<1>1. TypedInv => TypeOK
  BY DEF TypedInv
<1> QED BY <1>1, ServeTyped, PTL

-----------------------------------------------------------------------------
(* The HTTP server: its inductive invariant.                               *)

\* A server that was not destroyed counts itself once per start.
Counted ==
  /\ refcount <= starts /\ winsock <= starts
  /\ caller \notin {"gone", "terminated"} => refcount >= 0

\* A caller that is not serving any more knows what the listener did.
ListenerKnown ==
  /\ caller = "idle" => listener = "none"
  /\ caller \in {"joined", "gone"} => listener \in {"none", "exited"}

\* The listener holds the one connection it has accepted and not handed over.
OneAccepted ==
  /\ \A c \in Clients : conn[c] = "accepted" => listener = "spawn"
  /\ \A c, d \in Clients : conn[c] = "accepted" /\ conn[d] = "accepted" => c = d

ServerInv == HttpTypeOK /\ Counted /\ ListenerKnown /\ OneAccepted

LEMMA InitInv == HttpInit => ServerInv
<1> SUFFICES ASSUME HttpInit PROVE ServerInv
  OBVIOUS
<1>1. refcount \in -1..MaxStarts /\ winsock \in 0..MaxStarts /\ starts \in 0..MaxStarts
  BY HttpAssumption DEF HttpInit
<1>2. HttpTypeOK
  BY <1>1, Zenon DEF HttpInit, HttpTypeOK
<1> QED
  BY <1>2 DEF HttpInit, ServerInv, Counted, ListenerKnown, OneAccepted

\* What the two calls make of the count of Winsock.
LEMMA WinsockCount ==
  ASSUME NEW count \in Int, NEW w \in Nat
  PROVE  /\ CleanupWinsock(count, w) \in 0..w
         /\ count > 1 => CleanupWinsock(count, w) = w
  BY DEF CleanupWinsock, StopsWinsock

LEMMA CallerStep ==
  ASSUME ServerInv,
         \/ Start \/ StartupFails \/ StartFails \/ Stop \/ DestroyRunning \/ CloseListenFd
         \/ CallJoin \/ JoinReturns \/ Destroy
  PROVE  ServerInv'
<1> USE DEF ServerInv
<1>1. CASE Start
  <2>1. InitWinsock(winsock) \in 0..(winsock + 1)
    BY DEF InitWinsock, StartsWinsock, HttpTypeOK
  <2> QED
    BY <1>1, <2>1, HttpAssumption DEF Start, webVars, HttpTypeOK, Counted, ListenerKnown, OneAccepted
<1>2. CASE StartFails
  <2>1. InitWinsock(winsock) \in 0..(winsock + 1)
    BY DEF InitWinsock, StartsWinsock, HttpTypeOK
  <2>2. winsock' \in 0..(winsock + 1)
    BY <1>2, <2>1 DEF StartFails, CleanupWinsock, StopsWinsock, HttpTypeOK
  <2> QED
    BY <1>2, <2>2, HttpAssumption DEF StartFails, webVars, HttpTypeOK, Counted, ListenerKnown, OneAccepted
<1>7. CASE StartupFails
  BY <1>7, HttpAssumption DEF StartupFails, webVars, HttpTypeOK, Counted, ListenerKnown, OneAccepted
<1>3. CASE Stop \/ DestroyRunning \/ CallJoin
  BY <1>3 DEF Stop, DestroyRunning, CallJoin, NotRunning, webVars, HttpTypeOK, Counted, ListenerKnown,
     OneAccepted
<1>4. CASE CloseListenFd
  <2>1. /\ conn' \in [Clients -> {"away", "backlog", "accepted", "reading", "routing", "generating",
                                  "answering", "closed"}]
        /\ \A c \in Clients : conn'[c] = "accepted" => conn[c] = "accepted"
    BY <1>4 DEF CloseListenFd, Dropped, HttpTypeOK
  <2> QED
    BY <1>4, <2>1 DEF CloseListenFd, HttpTypeOK, Counted, ListenerKnown, OneAccepted
<1>5. CASE JoinReturns
  BY <1>5 DEF JoinReturns, ListenerGone, webVars, HttpTypeOK, Counted, ListenerKnown, OneAccepted
<1>6. CASE Destroy
  <2>1. winsock' \in 0..winsock
    BY <1>6, WinsockCount DEF Destroy, HttpTypeOK
  <2>2. caller \notin {"gone", "terminated"} /\ caller' \in {"gone", "terminated"}
    BY <1>6 DEF Destroy
  <2>3. refcount' \in -1..MaxStarts /\ refcount' <= starts
    BY <1>6, <2>2, HttpAssumption DEF Destroy, Counted, HttpTypeOK
  <2>4. HttpTypeOK' /\ Counted'
    BY <1>6, <2>1, <2>2, <2>3, HttpAssumption DEF Destroy, webVars, HttpTypeOK, Counted
  <2>5. ListenerKnown' /\ OneAccepted'
    BY <1>6 DEF Destroy, webVars, ListenerGone, ListenerKnown, OneAccepted
  <2> QED
    BY <2>4, <2>5
<1> QED
  BY <1>1, <1>2, <1>3, <1>4, <1>5, <1>6, <1>7

LEMMA ListenerStep ==
  ASSUME ServerInv,
         \/ ListenerChecks \/ AcceptFails
         \/ \E c \in Clients : Accept(c) \/ Spawn(c)
  PROVE  ServerInv'
<1> USE DEF ServerInv
<1>1. CASE ListenerChecks \/ AcceptFails
  BY <1>1 DEF ListenerChecks, AcceptFails, callerVars, webVars, HttpTypeOK, Counted, ListenerKnown,
     OneAccepted
<1>2. ASSUME NEW c \in Clients, Accept(c) PROVE ServerInv'
  BY <1>2 DEF Accept, callerVars, HttpTypeOK, Counted, ListenerKnown, OneAccepted
<1>3. ASSUME NEW c \in Clients, Spawn(c) PROVE ServerInv'
  BY <1>3 DEF Spawn, callerVars, HttpTypeOK, Counted, ListenerKnown, OneAccepted
<1> QED
  BY <1>1, <1>2, <1>3

\* The threads of the connections and the clients change what is theirs, and
\* nothing becomes "accepted" or "reading" by it.
LEMMA WebStep ==
  ASSUME HttpTypeOK, NEW c \in Clients,
         \/ ConnectionStep(c)
         \/ Connect(c) \/ Leave(c, "shut") \/ Leave(c, "reset")
         \/ \E r \in AllRequests : Send(c, r)
  PROVE  /\ UNCHANGED callerVars \/ ReadThrows(c)
         /\ UNCHANGED listener /\ HttpTypeOK'
         /\ \A d \in Clients : conn'[d] \in {"accepted", "reading"} => conn'[d] = conn[d]
<1>1. CASE ReadRequest(c) \/ ReadFails(c) \/ Route(c) \/ Generate(c) \/ AnswerAndClose(c)
  BY <1>1 DEF ReadRequest, ReadFails, Route, Generate, AnswerAndClose, Moves, callerVars, HttpTypeOK
<1>5. CASE ReadThrows(c)
  BY <1>5 DEF ReadThrows, webVars, HttpTypeOK
<1>2. CASE Connect(c)
  BY <1>2 DEF Connect, callerVars, HttpTypeOK
<1>3. CASE Leave(c, "shut") \/ Leave(c, "reset")
  BY <1>3 DEF Leave, callerVars, HttpTypeOK
<1>4. ASSUME NEW r \in AllRequests, Send(c, r)
      PROVE  /\ UNCHANGED callerVars /\ UNCHANGED listener /\ HttpTypeOK'
             /\ UNCHANGED conn
  BY <1>4 DEF Send, callerVars, HttpTypeOK
<1> QED
  BY <1>1, <1>2, <1>3, <1>4, <1>5 DEF ConnectionStep

LEMMA StepInv == ServerInv /\ [HttpNext]_httpVars => ServerInv'
<1> SUFFICES ASSUME ServerInv, [HttpNext]_httpVars PROVE ServerInv'
  OBVIOUS
<1>1. CASE UNCHANGED httpVars
  BY <1>1 DEF httpVars, ServerInv, HttpTypeOK, Counted, ListenerKnown, OneAccepted
<1>2. ASSUME NEW c \in Clients,
             \/ ConnectionStep(c)
             \/ Connect(c) \/ Leave(c, "shut") \/ Leave(c, "reset")
             \/ \E r \in AllRequests : Send(c, r)
      PROVE  ServerInv'
  <2>1. /\ UNCHANGED callerVars \/ ReadThrows(c)
        /\ UNCHANGED listener /\ HttpTypeOK'
        /\ \A d \in Clients : conn'[d] \in {"accepted", "reading"} => conn'[d] = conn[d]
    BY <1>2, WebStep DEF ServerInv
  <2> QED
    BY <2>1 DEF callerVars, ReadThrows, ServerInv, Counted, ListenerKnown, OneAccepted
<1> QED
  BY <1>1, <1>2, CallerStep, ListenerStep DEF HttpNext

\* The behaviours of the server satisfy the invariant, fairness or not.
LEMMA InvHolds == HttpSpec => []ServerInv
  BY InitInv, StepInv, PTL DEF HttpSpec

-----------------------------------------------------------------------------
(* The results.                                                            *)

\* The variables have their types: the reference count of Winsock stays within
\* the starts, and goes below zero once, by a server that never started.
THEOREM ServerTypes == HttpSpec => []HttpTypeOK
<1>1. ServerInv => HttpTypeOK
  BY DEF ServerInv
<1> QED
  BY <1>1, InvHolds, PTL

\* join() and the destructor are barriers: once one has returned no connection
\* that the listener still held comes to a thread, for any number of clients
\* and whatever stop() races with.
THEOREM NoLateThread == HttpSpec => NoThreadAfterJoin
<1>1. ServerInv /\ [HttpNext]_httpVars => [~ThreadStartsLate]_httpVars
  <2> SUFFICES ASSUME ServerInv, HttpNext, NEW c \in Clients,
                      caller \in {"joined", "gone"}, conn[c] # "reading", conn'[c] = "reading"
               PROVE  FALSE
    BY DEF ThreadStartsLate
  <2>1. listener \in {"none", "exited"}
    BY DEF ServerInv, ListenerKnown
  <2>2. ASSUME \/ Start \/ StartupFails \/ StartFails \/ Stop \/ DestroyRunning \/ CloseListenFd
               \/ CallJoin \/ JoinReturns \/ Destroy
        PROVE  FALSE
    BY <2>2 DEF Start, StartupFails, StartFails, Stop, DestroyRunning, CloseListenFd, CallJoin, JoinReturns, Destroy,
       webVars, Dropped
  <2>3. ASSUME \/ ListenerChecks \/ AcceptFails
               \/ \E d \in Clients : Accept(d) \/ Spawn(d)
        PROVE  FALSE
    BY <2>1, <2>3 DEF ListenerChecks, AcceptFails, Accept, Spawn, webVars
  <2>4. ASSUME NEW d \in Clients,
               \/ ConnectionStep(d)
               \/ Connect(d) \/ Leave(d, "shut") \/ Leave(d, "reset")
               \/ \E r \in AllRequests : Send(d, r)
        PROVE  FALSE
    BY <2>4, WebStep DEF ServerInv
  <2> QED
    BY <2>2, <2>3, <2>4 DEF HttpNext
<1> QED
  BY <1>1, InvHolds, PTL DEF HttpSpec, NoThreadAfterJoin

-----------------------------------------------------------------------------
(* Winsock stays while the listener is at work, for a caller that joins.   *)

WinsockInv ==
  /\ refcount > 0 => winsock > 0
  /\ listener \in {"check", "accept", "spawn"} => refcount > 0

LEMMA WinsockStep ==
  ASSUME CallerJoins, "startup" \notin HttpFaults,
         ServerInv, WinsockInv, [HttpNext]_httpVars
  PROVE  WinsockInv'
<1> USE DEF ServerInv, WinsockInv
<1>1. CASE Start
  BY <1>1 DEF Start, InitWinsock, StartsWinsock, HttpTypeOK, Counted
<1>2. CASE StartupFails \/ StartFails
  BY <1>2 DEF StartupFails, StartFails, InitWinsock, StartsWinsock, CleanupWinsock, StopsWinsock,
     HttpTypeOK, Counted
<1>3. CASE Stop \/ DestroyRunning \/ CloseListenFd \/ CallJoin \/ JoinReturns
  BY <1>3 DEF Stop, DestroyRunning, CloseListenFd, CallJoin, JoinReturns
<1>4. CASE Destroy
  <2>1. listener' \in {"none", "exited"}
    BY <1>4 DEF Destroy, ListenerGone, ListenerKnown
  <2>2. refcount' > 0 => winsock' > 0
    BY <1>4 DEF Destroy, CleanupWinsock, StopsWinsock, HttpTypeOK
  <2> QED
    BY <2>1, <2>2
<1>5. CASE ListenerChecks \/ AcceptFails \/ \E c \in Clients : Accept(c) \/ Spawn(c)
  BY <1>5 DEF ListenerChecks, AcceptFails, Accept, Spawn, callerVars
<1>6. ASSUME NEW c \in Clients,
             \/ ConnectionStep(c)
             \/ Connect(c) \/ Leave(c, "shut") \/ Leave(c, "reset")
             \/ \E r \in AllRequests : Send(c, r)
      PROVE  WinsockInv'
  BY <1>6, WebStep DEF callerVars, ReadThrows
<1>7. CASE UNCHANGED httpVars
  BY <1>7 DEF httpVars
<1> QED
  BY <1>1, <1>2, <1>3, <1>4, <1>5, <1>6, <1>7 DEF HttpNext

\* init_winsock and cleanup_winsock stay in balance, over starts that fail for
\* want of a socket and restarts, as long as the caller joins before it destroys
\* and WSAStartup itself does not fail (that leaves a count behind).
THEOREM WinsockKept ==
  ASSUME CallerJoins, "startup" \notin HttpFaults
  PROVE  HttpSpec => []WinsockWhileServing
<1>1. HttpInit => WinsockInv
  BY DEF HttpInit, WinsockInv
<1>2. ServerInv /\ WinsockInv /\ [HttpNext]_httpVars => WinsockInv'
  BY WinsockStep
<1>3. WinsockInv => WinsockWhileServing
  BY DEF WinsockInv, WinsockWhileServing
<1> QED
  BY <1>1, <1>2, <1>3, InvHolds, PTL DEF HttpSpec
=============================================================================
