----------------------------- MODULE MCVkruntime -----------------------------
(* An instance for TLC of vkruntime: the sub-allocator, and the table of   *)
(* its records.  Each behaviour runs one of them.                          *)
EXTENDS MCVkrPool, MCVkrAllocTable

VARIABLE part

VkruntimeInit == Init /\ TableInit /\ part \in {"pool", "table"}

VkruntimeNext ==
  \/ part = "pool" /\ Next /\ UNCHANGED <<part, tableVars>>
  \/ part = "table" /\ TableNext /\ UNCHANGED <<part, vars>>

VkruntimeSpec == VkruntimeInit /\ [][VkruntimeNext]_<<part, vars, tableVars>>
=============================================================================
