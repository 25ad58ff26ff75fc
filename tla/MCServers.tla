----------------------------- MODULE MCServers -----------------------------
(* An instance for TLC of the two servers under fairness, vkdist's and the *)
(* HTTP one.  They share nothing: each behaviour runs one of them.         *)
EXTENDS VkdistServe, HttpServe

VARIABLE part

ServersInit == Init /\ HttpInit /\ part \in {"vkdist", "http"}

ServersNext ==
  \/ part = "vkdist" /\ Next /\ UNCHANGED <<part, httpVars>>
  \/ part = "http" /\ HttpNext /\ UNCHANGED <<part, vars>>

\* What HttpFairness is about is never enabled while HttpInit holds, so that it
\* asks nothing of a behaviour that runs vkdist.
ServersSpec ==
  /\ ServersInit /\ [][ServersNext]_<<part, vars, httpVars>>
  /\ part = "vkdist" => Fairness
  /\ HttpFairness
=============================================================================
