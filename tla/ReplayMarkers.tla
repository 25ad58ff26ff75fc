---------------------------- MODULE ReplayMarkers ----------------------------
(***************************************************************************)
(* The replay markers of a paged KV cache                                  *)
(* (src/vulkan/windows/c99/llm/src/vaist_llm.c): a growing array of token  *)
(* positions, kept sorted by insertion and read by binary search.          *)
(***************************************************************************)
EXTENDS Naturals, FiniteSets, SequencesExt

CONSTANTS
  Positions,  \* token positions
  MarkerCap,  \* first capacity of the array (VAIST_PAGED_SEQ_CAP_INIT)
  MarkerFaults  \* subset of {"realloc"}

ASSUME MarkerAssumption ==
  /\ Positions \subseteq Nat /\ IsFiniteSet(Positions)
  /\ MarkerCap \in Nat \ {0}

VARIABLES
  markers,    \* replay_markers[0 .. replay_count - 1]
  markerCap,  \* replay_capacity
  marked      \* the positions for which vaist_kv_set_replay_marker said VAIST_OK

markerVars == <<markers, markerCap, marked>>

MarkersInit == markers = <<>> /\ markerCap = MarkerCap /\ marked = {}

Full == Len(markers) >= markerCap

\* How many markers of m stay in front of a new one at p, and m with p behind
\* its first k markers.
Before(m, p) == Cardinality({i \in DOMAIN m : m[i] < p})
Inserted(m, p, k) == SubSeq(m, 1, k) \o <<p>> \o SubSeq(m, k + 1, Len(m))

\* vaist_kv_set_replay_marker: it grows the array first, even for a position
\* that is marked already, and shifts the larger markers up.
SetMarker(p) ==
  /\ markerCap' = IF Full THEN 2 * markerCap ELSE markerCap
  /\ markers' = IF p \in Range(markers) THEN markers
                ELSE Inserted(markers, p, Before(markers, p))
  /\ marked' = marked \cup {p}

\* realloc fails: VAIST_OUT_OF_MEMORY.
SetMarkerFails == "realloc" \in MarkerFaults /\ Full /\ UNCHANGED markerVars

\* Mutant: a marker at the position itself is passed over.
StrictlyBefore(m, p) == m < p
\* Which half the binary search goes on in.
NotAfter(m, p) == m <= p

\* A round of the binary search for p in m on the slots from w.lo to below w.hi.
Halved(w, m, p) ==
  LET mid == w.lo + (w.hi - w.lo) \div 2
  IN  IF w.lo >= w.hi THEN w
      ELSE IF NotAfter(m[mid + 1], p) THEN [lo |-> mid + 1, hi |-> w.hi]
      ELSE [lo |-> w.lo, hi |-> mid]

\* vaist_kv_get_replay_marker: window[n] is what is left after n rounds of its loop.
GetMarker(p) ==
  LET window[n \in 0..Len(markers)] ==
        IF n = 0 THEN [lo |-> 0, hi |-> Len(markers)] ELSE Halved(window[n - 1], markers, p)
      found == window[Len(markers)].lo
  IN  IF found = 0 THEN 0 ELSE markers[found]

MarkersNext == SetMarkerFails \/ \E p \in Positions : SetMarker(p)

MarkersSpec == MarkersInit /\ [][MarkersNext]_markerVars

-----------------------------------------------------------------------------
(* Properties.                                                             *)

\* The variables have their types, and the markers fit the array, which is
\* never more than twice as large as it had to be.
MarkersTypeOK ==
  /\ markers \in Seq(Positions) /\ marked \subseteq Positions
  /\ markerCap \in MarkerCap..(MarkerCap + 2 * Cardinality(Positions))
  /\ Len(markers) <= markerCap

\* "Get the nearest replay marker before or at the given position" (vaist_llm.h),
\* and 0 when there is none: what the binary search finds in the array is the
\* largest marked position not after p, in whatever order they were marked.
NearestMarker ==
  \A p \in Positions : GetMarker(p) = Max({0} \cup {m \in marked : m <= p})
=============================================================================
