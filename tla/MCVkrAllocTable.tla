------------------------- MODULE MCVkrAllocTable -------------------------
(* An instance of VkrAllocTable for TLC.                                   *)
EXTENDS VkrAllocTable

\* Six handles: three that collide in every capacity, one that collides with
\* them while the table has 4 slots, and the neighbours they displace.
MCHash == [b \in Buffers |-> <<0, 0, 0, 4, 1, 3>>[b]]
=============================================================================
