---------------------------- MODULE RemoteMemory ----------------------------
(***************************************************************************)
(* What a vkdist connection promises to its client, with no wire and no    *)
(* server: a memory of numbered buffers, read and written by one call at a *)
(* time.  A call that returns VK_SUCCESS took effect exactly once, between *)
(* its start and its return; one that returns an error took effect once or *)
(* not at all; and no call fails without an answer while the connection    *)
(* stands.  When the connection goes, so do the buffers.                   *)
(***************************************************************************)
EXTENDS Naturals, Sequences

CONSTANTS
  MaxBuffers,     \* VKDIST_MAX_BUFFERS
  Vals,           \* contents of a buffer
  Gemm(_, _, _)   \* content of C after alpha*A*B + beta*C

VARIABLES
  up,       \* the connection stands
  mem,      \* content of each registered buffer, by handle
  call,     \* the client's call, or NoCall
  outcome,  \* what became of it so far
  ret       \* what the last finished call returned

vars == <<up, mem, call, outcome, ret>>

Handles == 1..MaxBuffers

Calls ==
  [op : {"register", "caps"}] \cup [op : {"readback"}, h : Handles]
    \cup [op : {"upload"}, h : Handles, v : Vals]
    \cup [op : {"gemm"}, a : Handles, b : Handles, c : Handles]

NoCall == [op |-> "none"]

Unknown == [res |-> "none", val |-> 0]
Failed  == [res |-> "err", val |-> 0]
Done(v) == [res |-> "ok", val |-> v]

\* What call k may do to memory m, and the value it then returns.
Effects(m, k) ==
  CASE k.op = "register" ->
         IF Len(m) < MaxBuffers
         THEN {[mem |-> Append(m, v), val |-> Len(m) + 1] : v \in Vals} ELSE {}
    [] k.op = "upload" ->
         IF k.h <= Len(m) THEN {[mem |-> [m EXCEPT ![k.h] = k.v], val |-> 0]} ELSE {}
    [] k.op = "gemm" ->
         IF {k.a, k.b, k.c} \subseteq 1..Len(m)
         THEN {[mem |-> [m EXCEPT ![k.c] = Gemm(m[k.a], m[k.b], m[k.c])], val |-> 0]}
         ELSE {}
    [] k.op = "readback" ->
         IF k.h <= Len(m) THEN {[mem |-> m, val |-> m[k.h]]} ELSE {}
    [] k.op = "caps" -> {[mem |-> m, val |-> 0]}

Init ==
  /\ up = TRUE /\ mem = <<>>
  /\ call = NoCall /\ outcome = Unknown /\ ret = Unknown

Invoke(k) ==
  /\ call = NoCall
  /\ call' = k
  /\ UNCHANGED <<up, mem, outcome, ret>>

\* The call takes effect.
Perform ==
  /\ call # NoCall /\ outcome = Unknown /\ up
  /\ \E e \in Effects(mem, call) : mem' = e.mem /\ outcome' = Done(e.val)
  /\ UNCHANGED <<up, call, ret>>

\* The call fails, before or after its effect; the connection may go with it.
Refuse ==
  /\ call # NoCall /\ outcome = Unknown /\ up
  /\ outcome' = Failed
  /\ \/ UNCHANGED <<up, mem>>
     \/ UNCHANGED up /\ \E e \in Effects(mem, call) : mem' = e.mem
     \/ up' = FALSE /\ mem' = <<>>
  /\ UNCHANGED <<call, ret>>

\* Without an answer a call ends in an error, and only if the connection went.
Return ==
  /\ call # NoCall
  /\ outcome = Unknown => ~up
  /\ ret' = IF outcome = Unknown THEN Failed ELSE outcome
  /\ call' = NoCall /\ outcome' = Unknown
  /\ UNCHANGED <<up, mem>>

\* The connection goes, perhaps with the answer to the call.
Drop ==
  /\ up /\ up' = FALSE /\ mem' = <<>>
  /\ outcome' \in {outcome, Unknown}
  /\ UNCHANGED <<call, ret>>

LoseAnswer ==
  /\ ~up /\ outcome' = Unknown
  /\ UNCHANGED <<up, mem, call, ret>>

Connect ==
  /\ ~up /\ call = NoCall
  /\ up' = TRUE
  /\ UNCHANGED <<mem, call, outcome, ret>>

Next ==
  \/ \E k \in Calls : Invoke(k)
  \/ Perform \/ Refuse \/ Return \/ Drop \/ LoseAnswer \/ Connect

Spec == Init /\ [][Next]_vars
=============================================================================
