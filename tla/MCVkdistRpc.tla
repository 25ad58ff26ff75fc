---------------------------- MODULE MCVkdistRpc ----------------------------
(* An instance of VkdistRpc for TLC.                                       *)
EXTENDS VkdistRpc

\* A product that depends on all three operands.
MCGemm(a, b, c) == (a * b + c + 1) % 3
=============================================================================
