---------------------------- MODULE EventMatching ----------------------------
(***************************************************************************)
(* _match of analytics/evaluation.py: predicted and reference onsets of    *)
(* one station and one reviewed period are paired in chronological order.  *)
(*                                                                         *)
(* The loop moves one index over the sorted predictions and one over the   *)
(* sorted references; restP and restR are what lies ahead of the indices.  *)
(* Time is in whole units, since only differences of onsets are compared.  *)
(***************************************************************************)
EXTENDS Integers, FiniteSets

CONSTANTS
  PredictionIds, ReferenceIds,  \* event ids, ordered like the strings they stand for
  Onsets,                       \* the onsets events can have
  Early, Late                   \* MatchPolicy: the two tolerances

ASSUME MatchAssumption ==
  /\ PredictionIds \subseteq Nat /\ IsFiniteSet(PredictionIds)
  /\ ReferenceIds \subseteq Nat /\ IsFiniteSet(ReferenceIds)
  /\ Onsets \subseteq Int
  /\ Early \in Nat /\ Late \in Nat

VARIABLES
  predictions, references,  \* the lists to be matched
  restP, restR,             \* the events not yet looked at
  matches,                  \* pairs <<prediction, reference>>
  falseAlarms, misses

lists == <<predictions, references>>
result == <<matches, falseAlarms, misses>>
matching == <<lists, restP, restR, result>>

(* Lists of events with distinct ids: one onset for each id that occurs.   *)
Events(ids) ==
  {{[id |-> i, onset |-> f[i]] : i \in DOMAIN f} : f \in UNION {[I -> Onsets] : I \in SUBSET ids}}

(* The sort key is (onset, event_id). *)
Before(a, b) == a.onset < b.onset \/ (a.onset = b.onset /\ a.id < b.id)

First(S) == CHOOSE a \in S : \A b \in S : a = b \/ Before(a, b)

(* Mutant of TooEarly: the tolerance is exclusive. *)
TooEarlyAtTolerance(p, r) == p.onset - r.onset <= -Early

TooEarly(p, r) == p.onset - r.onset < -Early

TooLate(p, r) == p.onset - r.onset > Late

StartMatching(P, R) ==
  /\ predictions = P /\ references = R
  /\ restP = P /\ restR = R
  /\ matches = {} /\ falseAlarms = {} /\ misses = {}

MatchingInit ==
  \E P \in Events(PredictionIds), R \in Events(ReferenceIds) : StartMatching(P, R)

Ahead == restP # {} /\ restR # {}

FalseAlarm ==
  /\ Ahead
  /\ TooEarly(First(restP), First(restR))
  /\ falseAlarms' = falseAlarms \cup {First(restP)}
  /\ restP' = restP \ {First(restP)}
  /\ UNCHANGED <<lists, restR, matches, misses>>

Miss ==
  /\ Ahead
  /\ ~TooEarly(First(restP), First(restR))
  /\ TooLate(First(restP), First(restR))
  /\ misses' = misses \cup {First(restR)}
  /\ restR' = restR \ {First(restR)}
  /\ UNCHANGED <<lists, restP, matches, falseAlarms>>

Pair ==
  /\ Ahead
  /\ ~TooEarly(First(restP), First(restR))
  /\ ~TooLate(First(restP), First(restR))
  /\ matches' = matches \cup {<<First(restP), First(restR)>>}
  /\ restP' = restP \ {First(restP)}
  /\ restR' = restR \ {First(restR)}
  /\ UNCHANGED <<lists, falseAlarms, misses>>

(* One list has come to its end: what is left of the other is unmatched. *)
Leftover ==
  /\ ~Ahead
  /\ restP \cup restR # {}
  /\ falseAlarms' = falseAlarms \cup restP
  /\ misses' = misses \cup restR
  /\ restP' = {} /\ restR' = {}
  /\ UNCHANGED <<lists, matches>>

MatchingNext == FalseAlarm \/ Miss \/ Pair \/ Leftover

MatchingSpec == MatchingInit /\ [][MatchingNext]_matching

-----------------------------------------------------------------------------
(* Properties *)

Matched == restP = {} /\ restR = {}

(* docs/evaluation/event-protocol.md: the candidate pairs of the protocol. *)
Candidate(p, r) == -Early <= p.onset - r.onset /\ p.onset - r.onset <= Late

OneToOne(N) == \A m, n \in N : m[1] = n[1] \/ m[2] = n[2] => m = n

IsMatching(N, P, R) ==
  /\ N \subseteq P \X R
  /\ \A m \in N : Candidate(m[1], m[2])
  /\ OneToOne(N)

(* One prediction counts for one reference only, and only within tolerance.*)
MatchesAreLegal == IsMatching(matches, predictions, references)

(* The pairs are one-to-one and within tolerance, and whatever the onsets  *)
(* and tolerances, no such choice of pairs has more of them: pairing the   *)
(* earliest events never costs a match later on.                           *)
MatchesAreMaximum ==
  /\ MatchesAreLegal
  /\ Matched => \A N \in SUBSET (predictions \X references) :
       IsMatching(N, predictions, references) => Cardinality(N) <= Cardinality(matches)

(* Every event ends as exactly one of: matched, false alarm or miss, so    *)
(* TP + FP and TP + FN are the lengths of the lists.                       *)
EventsCountOnce ==
  LET hit == {m[1] : m \in matches}
      found == {m[2] : m \in matches}
  IN  /\ predictions = hit \cup falseAlarms \cup restP
      /\ references = found \cup misses \cup restR
      /\ hit \cap falseAlarms = {} /\ restP \cap (hit \cup falseAlarms) = {}
      /\ found \cap misses = {} /\ restR \cap (found \cup misses) = {}

(* The outcome of matching is the best there is, and accounts for every    *)
(* event: the two properties above together.                               *)
MatchingIsExact == MatchesAreMaximum /\ EventsCountOnce

(* Matched pairs do not cross: an earlier alarm is credited to an earlier  *)
(* event, with ties broken by the ids.                                     *)
MatchesAreChronological ==
  \A m, n \in matches : Before(m[1], n[1]) <=> Before(m[2], n[2])
=============================================================================
