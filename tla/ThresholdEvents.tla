--------------------------- MODULE ThresholdEvents ---------------------------
(***************************************************************************)
(* detect_threshold_events of analytics/threshold_events.py: the sustained *)
(* episodes of a series at or above a threshold.  Durations are doubled,   *)
(* for the median of an even number of gaps.                               *)
(***************************************************************************)
EXTENDS Integers, FiniteSets, FiniteSetsExt

CONSTANTS
  SampleTimes,  \* when samples are taken
  Levels, MaxSamples,  \* their values, and how many there are
  Threshold, MinDuration, MaxGap,
  DefaultPeriod \* one minute

ASSUME DetectionAssumption ==
  /\ SampleTimes \subseteq Int /\ Levels \subseteq Int /\ Threshold \in Int
  /\ {MaxSamples, MinDuration, MaxGap, DefaultPeriod} \subseteq Nat
  /\ MaxGap > 0

VARIABLES observations,  \* the rows as read: <<ts, value>>, in any order
          episodes,      \* the events found
          detected

detection == <<observations, episodes, detected>>

DetectionInit ==
  /\ observations \in UNION {[1 .. n -> SampleTimes \X Levels] : n \in 0 .. MaxSamples}
  /\ episodes = {}
  /\ detected = FALSE

(* The latest value wins where rows have the same time. *)
ValueAt(rows, ts) == rows[Max({i \in DOMAIN rows : rows[i][1] = ts})][2]
TimesIn(rows) == {rows[i][1] : i \in DOMAIN rows}

(* sort_values and drop_duplicates: the data frame is a function of time,  *)
(* and the row above another is that of the time before.                   *)
Deduplicated(rows) == [ts \in TimesIn(rows) |-> ValueAt(rows, ts)]

Earlier(df, t) == {u \in DOMAIN df : u < t}
Gap(df, t) == t - Max(Earlier(df, t))

Cadence(df) == {t \in DOMAIN df : Earlier(df, t) # {} /\ Gap(df, t) <= MaxGap}

(* The k-th of the gaps up to MaxGap, in ascending order. *)
NthGap(df, k) ==
  Min({g \in {Gap(df, t) : t \in Cadence(df)} :
         Cardinality({t \in Cadence(df) : Gap(df, t) <= g}) >= k})

(* Their median, doubled. *)
SamplePeriod(df) ==
  LET n == Cardinality(Cadence(df))
  IN  IF n = 0 THEN 2 * DefaultPeriod
      ELSE NthGap(df, (n + 1) \div 2) + NthGap(df, n \div 2 + 1)

Above(df, t) == df[t] >= Threshold

(* Mutant of NewEpisode: a gap of exactly MaxGap splits. *)
NewEpisodeAtLimit(df, t) ==
  IF Earlier(df, t) = {} THEN Above(df, t)
  ELSE Above(df, t) # Above(df, Max(Earlier(df, t))) \/ Gap(df, t) >= MaxGap

(* A threshold change or an outage of telemetry. *)
NewEpisode(df, t) ==
  IF Earlier(df, t) = {} THEN Above(df, t)
  ELSE Above(df, t) # Above(df, Max(Earlier(df, t))) \/ Gap(df, t) > MaxGap

EpisodeId(df, t) == Cardinality({u \in DOMAIN df : u <= t /\ NewEpisode(df, u)})

(* The rows at or above the threshold, by their episode. *)
Groups(df) ==
  LET above == {t \in DOMAIN df : Above(df, t)}
  IN  {{t \in above : EpisodeId(df, t) = EpisodeId(df, u)} : u \in above}

Event(df, samples) ==
  [first |-> Min(samples), last |-> Max(samples),
   length |-> 2 * (Max(samples) - Min(samples)) + SamplePeriod(df),
   value |-> Max({df[t] : t \in samples})]

Detect ==
  /\ ~detected
  /\ LET df == Deduplicated(observations)
     IN  episodes' = {e \in {Event(df, G) : G \in Groups(df)} : e.length >= 2 * MinDuration}
  /\ detected' = TRUE
  /\ UNCHANGED observations

-----------------------------------------------------------------------------
(* The times of one episode: a maximal set of times at or above the        *)
(* threshold, with no time below it and no gap beyond MaxGap between them. *)
Sustained(T) ==
  LET all == TimesIn(observations)
      between == {t \in all : Min(T) <= t /\ t <= Max(T)}
  IN  /\ T = between
      /\ \A t \in T : ValueAt(observations, t) >= Threshold
      /\ \A t \in T \ {Max(T)} : \E u \in T : t < u /\ u <= t + MaxGap

(* The events are the longest sustained exceedances, whatever the order of *)
(* the rows: no event bridges an outage or a sample below the threshold,   *)
(* none is cut short at a gap of exactly MaxGap, and one is missing only   *)
(* when it is shorter than MinDuration; an event is never kept because its *)
(* last sample is taken to last longer than MaxGap.                        *)
EpisodesAreMaximal ==
  detected =>
    LET all == (SUBSET TimesIn(observations)) \ {{}}
        maximal == {T \in all : Sustained(T) /\ \A U \in all : Sustained(U) /\ T \subseteq U => U = T}
        reported(T) == \E e \in episodes : e.first = Min(T) /\ e.last = Max(T)
    IN  /\ \A e \in episodes : \E T \in maximal :
             /\ e.first = Min(T) /\ e.last = Max(T)
             /\ e.value = Max({ValueAt(observations, t) : t \in T})
             /\ e.length >= 2 * MinDuration
        /\ \A T \in maximal :
             /\ Max(T) - Min(T) >= MinDuration => reported(T)
             /\ reported(T) => Max(T) - Min(T) + Max({MaxGap, DefaultPeriod}) >= MinDuration
=============================================================================
