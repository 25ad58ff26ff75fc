---------------------------- MODULE MCModelState ----------------------------
(* An instance for TLC of what the program keeps for a model: the loader,  *)
(* the streaming weight cache, the paged KV cache and its replay markers.  *)
(* They share nothing: each behaviour runs one of them.                    *)
EXTENDS MCVkmodelLoad, StreamingCache, PagedKv, ReplayMarkers, TLC

CONSTANTS t1, t2, t3, t4

VARIABLE part

\* Tensors of the streaming cache: t4 alone is over the budget.
MCSize == (t1 :> 1) @@ (t2 :> 2) @@ (t3 :> 3) @@ (t4 :> 5)
MCRefs == [t \in {t1, t2, t3, t4} |-> IF t = t1 THEN 2 ELSE 1]

Init ==
  /\ PagedInit /\ MarkersInit /\ StreamInit /\ LoadInit
  /\ part \in {"kv", "markers", "streaming", "load"}

Next ==
  \/ part = "kv" /\ PagedNext /\ UNCHANGED <<part, markerVars, streamVars, loadVars>>
  \/ part = "markers" /\ MarkersNext /\ UNCHANGED <<part, pagedVars, streamVars, loadVars>>
  \/ part = "streaming" /\ StreamNext /\ UNCHANGED <<part, pagedVars, markerVars, loadVars>>
  \/ part = "load" /\ LoadNext /\ UNCHANGED <<part, pagedVars, markerVars, streamVars>>

Spec == Init /\ [][Next]_<<part, pagedVars, markerVars, streamVars, loadVars>>

\* The variables of all four have their types.
TypesOK == PagedTypeOK /\ MarkersTypeOK /\ StreamTypeOK /\ LoadTypeOK
=============================================================================
