----------------------------- MODULE MCVkrPool -----------------------------
(* An instance of VkrPool for TLC.                                          *)
EXTENDS VkrPool, TLC

\* Sizes in units of the smallest alignment; one buffer needs twice that.
MCRequests == {[size |-> 1, align |-> 1], [size |-> 2, align |-> 2], [size |-> 5, align |-> 2]}

IdSymmetry == Permutations(Ids)
=============================================================================
