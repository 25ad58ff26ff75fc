--------------------------- MODULE MCVkdistClient ---------------------------
(* An instance for TLC of the client's side of vkdist: the calls of one    *)
(* connection, and the master that splits a product among several workers. *)
(* Each behaviour runs one of the two.                                     *)
EXTENDS MCVkdistRpc, VkdistPartition

VARIABLE part

ClientInit == Init /\ GroupInit /\ part \in {"calls", "group"}

ClientNext ==
  \/ part = "calls" /\ Next /\ UNCHANGED <<part, groupVars>>
  \/ part = "group" /\ GroupNext /\ UNCHANGED <<part, vars>>

ClientSpec == ClientInit /\ [][ClientNext]_<<part, vars, groupVars>>

\* The variables of both have their types.
TypesOK == TypeOK /\ GroupTypeOK
=============================================================================
