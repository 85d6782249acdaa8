--------------------------- MODULE EventEvaluation ---------------------------
(***************************************************************************)
(* evaluate_events of analytics/evaluation.py for one station: reviewed    *)
(* windows are merged, events are assigned to them or set aside, and the   *)
(* events of every window are matched on their own.                        *)
(***************************************************************************)
EXTENDS EventMatching, SequencesExt

CONSTANTS
  Reviews,     \* the reviewed windows <<start, end>> that can be given
  MaxReviews   \* bound on how many of them are

ASSUME ReviewAssumption == Reviews \subseteq {w \in Int \X Int : w[1] < w[2]} /\ MaxReviews \in Nat

VARIABLES
  windows, detections, labels,  \* the arguments
  unmerged,  \* windows not yet merged
  merged,    \* merged windows, in order
  unplaced,  \* events not yet assigned
  group,     \* group[e]: the merged window e is scored in, 0 when ignored
  phase,
  scored     \* the number of windows whose events are matched

arguments == <<windows, detections, labels>>
placing == <<unmerged, merged, unplaced, group>>
evaluation == <<matching, arguments, placing, phase, scored>>

(* A detection and a label can have the same id: tell them apart. *)
Detections == {[kind |-> "prediction", event |-> e] : e \in detections}
Labels == {[kind |-> "reference", event |-> e] : e \in labels}

EvaluationInit ==
  /\ windows \in {W \in SUBSET Reviews : IsFiniteSet(W) /\ Cardinality(W) <= MaxReviews}
  /\ detections \in Events(PredictionIds)
  /\ labels \in Events(ReferenceIds)
  /\ unmerged = windows
  /\ merged = <<>>
  /\ unplaced = Detections \cup Labels
  /\ group = [x \in Detections \cup Labels |-> 0]
  /\ phase = "merging"
  /\ scored = 0
  /\ StartMatching({}, {})

-----------------------------------------------------------------------------
(* _merged_windows *)

FirstWindow == CHOOSE w \in unmerged : \A v \in unmerged :
                 w[1] < v[1] \/ (w[1] = v[1] /\ w[2] <= v[2])

Touches(w) == w[1] <= Last(merged)[2]

Latest(a, b) == IF a > b THEN a ELSE b

Merge ==
  /\ phase = "merging"
  /\ unmerged # {}
  /\ LET w == FirstWindow IN
       /\ unmerged' = unmerged \ {w}
       /\ merged' = IF merged # <<>> /\ Touches(w)
                    THEN [merged EXCEPT ![Len(merged)] = <<@[1], Latest(@[2], w[2])>>]
                    ELSE Append(merged, w)
  /\ UNCHANGED <<matching, arguments, unplaced, group, phase, scored>>

EndMerge ==
  /\ phase = "merging"
  /\ unmerged = {}
  /\ phase' = "references"
  /\ UNCHANGED <<matching, arguments, placing, scored>>

-----------------------------------------------------------------------------
(* Which window an event is scored in. *)

(* The part of a window where predictions are scored; empty if too short.  *)
Core(i) == <<merged[i][1] + Late, merged[i][2] - Early>>

Within(t, w) == w[1] <= t /\ t < w[2]

Reviewed(x) == {i \in DOMAIN merged : Within(x.event.onset, merged[i])}

(* The matching horizon of a label lies inside the core. *)
Padded(x, i) ==
  /\ Core(i)[1] < Core(i)[2]
  /\ x.event.onset - Core(i)[1] >= Early
  /\ Core(i)[2] - x.event.onset > Late

Put(x, i) ==
  /\ group' = [group EXCEPT ![x] = i]
  /\ unplaced' = unplaced \ {x}
  /\ UNCHANGED <<matching, arguments, unmerged, merged, phase, scored>>

PlaceReference(x) ==
  /\ phase = "references"
  /\ x.kind = "reference"
  /\ \/ Reviewed(x) = {} /\ Put(x, 0)
     \/ \E i \in Reviewed(x) : Padded(x, i) /\ Put(x, i)

(* A label without its context fails the whole evaluation. *)
Reject(x) ==
  /\ phase = "references"
  /\ x.kind = "reference"
  /\ \E i \in Reviewed(x) : ~Padded(x, i)
  /\ phase' = "rejected"
  /\ UNCHANGED <<matching, arguments, placing, scored>>

EndReferences ==
  /\ phase = "references"
  /\ \A x \in unplaced : x.kind = "prediction"
  /\ phase' = "predictions"
  /\ UNCHANGED <<matching, arguments, placing, scored>>

(* Mutant of PlacePrediction: the edges of a window are scored too. *)
PlacePredictionUntrimmed(x) ==
  /\ phase = "predictions"
  /\ \/ Reviewed(x) = {} /\ Put(x, 0)
     \/ \E i \in Reviewed(x) : Put(x, i)

PlacePrediction(x) ==
  /\ phase = "predictions"
  /\ LET scorable == {i \in Reviewed(x) : Within(x.event.onset, Core(i))}
     IN  \/ scorable = {} /\ Put(x, 0)
         \/ \E i \in scorable : Put(x, i)

EndPredictions ==
  /\ phase = "predictions"
  /\ unplaced = {}
  /\ phase' = "matching"
  /\ UNCHANGED <<matching, arguments, placing, scored>>

-----------------------------------------------------------------------------
(* The groups are matched one after the other. *)

Grouped(kind, i) == {x.event : x \in {y \in DOMAIN group : y.kind = kind /\ group[y] = i}}

(* Mutant of NextWindow: the labels of the window before are taken. *)
NextWindowOffByOne ==
  /\ phase = "matching"
  /\ Matched
  /\ scored < Len(merged)
  /\ scored' = scored + 1
  /\ restP' = Grouped("prediction", scored + 1)
  /\ restR' = Grouped("reference", scored)
  /\ predictions' = predictions \cup restP'
  /\ references' = references \cup restR'
  /\ UNCHANGED <<result, arguments, placing, phase>>

(* The next window: its events are added to the lists of the report. *)
NextWindow ==
  /\ phase = "matching"
  /\ Matched
  /\ scored < Len(merged)
  /\ scored' = scored + 1
  /\ restP' = Grouped("prediction", scored + 1)
  /\ restR' = Grouped("reference", scored + 1)
  /\ predictions' = predictions \cup restP'
  /\ references' = references \cup restR'
  /\ UNCHANGED <<result, arguments, placing, phase>>

MatchStep ==
  /\ phase = "matching"
  /\ MatchingNext
  /\ UNCHANGED <<arguments, placing, phase, scored>>

EndEvaluation ==
  /\ phase = "matching"
  /\ Matched
  /\ scored = Len(merged)
  /\ phase' = "evaluated"
  /\ UNCHANGED <<matching, arguments, placing, scored>>

EvaluationNext ==
  \/ Merge \/ EndMerge
  \/ \E x \in unplaced : PlaceReference(x) \/ Reject(x) \/ PlacePrediction(x)
  \/ EndReferences \/ EndPredictions
  \/ NextWindow \/ MatchStep \/ EndEvaluation

EvaluationSpec == EvaluationInit /\ [][EvaluationNext]_evaluation

-----------------------------------------------------------------------------
(* Properties *)

Instants == UNION {w[1]..(w[2] - 1) : w \in Reviews}

(* Merging loses and invents no reviewed time, counts none twice, and      *)
(* leaves no two windows that touch: no match crosses an unknown gap, and  *)
(* none is cut off at a border between adjacent reviews.                   *)
WindowsAreTheirUnion ==
  phase # "merging" =>
    /\ \A t \in Instants :
         (\E w \in windows : Within(t, w)) <=> (\E i \in DOMAIN merged : Within(t, merged[i]))
    /\ \A i, k \in DOMAIN merged : i < k => merged[i][2] < merged[k][1]

(* docs/evaluation/event-protocol.md: an event that could match a scored   *)
(* event is scored itself, in the same window.  So a false alarm is never  *)
(* one because its event was not reviewed, and a miss never because the    *)
(* prediction that found it was set aside at a border.                     *)
CandidatesStayTogether ==
  phase \in {"matching", "evaluated"} =>
    \A p \in Detections, r \in Labels :
      Candidate(p.event, r.event) /\ (group[p] # 0 \/ group[r] # 0) => group[p] = group[r]

(* Only a reviewed label whose matching horizon leaves the scored time can *)
(* fail an evaluation: then no evaluation of these arguments succeeds.     *)
RejectionIsJustified ==
  LET lacking == {r \in Labels : \E i \in Reviewed(r) :
                    ~(\A t \in (r.event.onset - Early)..(r.event.onset + Late) : Within(t, Core(i)))}
  IN  /\ phase = "rejected" => lacking # {}
      /\ phase \in {"predictions", "matching", "evaluated"} => lacking = {}

(* Reviewed time decides what is scored: the three properties above        *)
(* together, of merging, of trimming and of rejection.                     *)
WindowsAreSound == WindowsAreTheirUnion /\ CandidatesStayTogether /\ RejectionIsJustified

(* The report counts the maximum over all windows together: windows are    *)
(* matched one by one, and matching across them could not find more.       *)
ReportIsMaximum ==
  phase = "evaluated" =>
    \A N \in SUBSET (detections \X labels) :
      /\ IsMatching(N, detections, labels)
      /\ \A m \in N : m[1] \in predictions
      => Cardinality(N) <= Cardinality(matches)
=============================================================================
