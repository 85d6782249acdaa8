-------------------------- MODULE AlgorithmsProofs ---------------------------
(***************************************************************************)
(* Theorems about the evaluation of events: the greedy loop on lists of    *)
(* any length, with any onsets and tolerances, and the report over any     *)
(* number of reviewed windows; about the validation of external batches of *)
(* any length; and about the detection of events in series of any length.  *)
(***************************************************************************)
EXTENDS Algorithms, FiniteSetTheorems, TLAPS

USE MatchAssumption

-----------------------------------------------------------------------------
(* Lists and their order. *)

Occurrence == [id : Nat, onset : Int]

(* Finitely many events, distinguished by their ids. *)
IsList(S) ==
  /\ IsFiniteSet(S)
  /\ S \subseteq Occurrence
  /\ \A a, b \in S : a.id = b.id => a = b

(* The lists given to _match have distinct ids. *)
LEMMA EventsAreLists ==
  ASSUME NEW ids, ids \subseteq Nat, IsFiniteSet(ids), NEW S \in Events(ids)
  PROVE  IsList(S)
<1>0. PICK I \in SUBSET ids :
        \E f \in [I -> Onsets] : S = {[id |-> i, onset |-> f[i]] : i \in DOMAIN f}
  BY DEF Events
<1>1. PICK f \in [I -> Onsets] : S = {[id |-> i, onset |-> f[i]] : i \in I}
  BY <1>0
<1> DEFINE g == [i \in I |-> [id |-> i, onset |-> f[i]]]
<1>2. IsFiniteSet(I)
  BY FS_Subset
<1>3. g \in Surjection(I, S)
  BY <1>1 DEF Surjection
<1>4. IsFiniteSet(S)
  BY <1>2, <1>3, FS_Surjection
<1>5. S \subseteq Occurrence
  <2>1. SUFFICES ASSUME NEW i \in I PROVE [id |-> i, onset |-> f[i]] \in Occurrence
    BY <1>1
  <2>2. i \in Nat /\ f[i] \in Int
    OBVIOUS
  <2> QED BY <2>2 DEF Occurrence
<1>6. \A a, b \in S : a.id = b.id => a = b
  BY <1>1
<1> QED BY <1>4, <1>5, <1>6 DEF IsList

(* What is left of a list is a list. *)
LEMMA SublistsAreLists ==
  ASSUME NEW S, IsList(S), NEW T \in SUBSET S
  PROVE  IsList(T)
<1>1. IsFiniteSet(T)
  BY FS_Subset DEF IsList
<1> QED BY <1>1 DEF IsList

(* The sort order is total on a list, transitive and irreflexive. *)
LEMMA BeforeIsOrder ==
  ASSUME NEW S, IsList(S)
  PROVE  /\ \A a \in S : ~Before(a, a)
         /\ \A a, b \in S : a = b \/ Before(a, b) \/ Before(b, a)
         /\ \A a, b, c \in S : Before(a, b) /\ Before(b, c) => Before(a, c)
BY DEF IsList, Occurrence, Before

(* A list that is not empty has a first event, before all others.  It is   *)
(* the event with the fewest events before it.                             *)
LEMMA FirstComesFirst ==
  ASSUME NEW S, IsList(S), S # {}
  PROVE  /\ First(S) \in S
         /\ \A b \in S : b = First(S) \/ Before(First(S), b)
<1> DEFINE Down(a) == {b \in S : Before(b, a)}
           Downs == {Down(a) : a \in S}
<1>1. IsWellFoundedOn(StrictSubsetOrdering(S), FiniteSubsetsOf(S))
  BY FS_StrictSubsetOrderingWellFounded
<1>2. Downs \subseteq FiniteSubsetsOf(S)
  <2>1. SUFFICES ASSUME NEW a \in S PROVE Down(a) \in FiniteSubsetsOf(S)
    OBVIOUS
  <2>2. Down(a) \in SUBSET S
    OBVIOUS
  <2>3. IsFiniteSet(Down(a))
    BY <2>2, FS_Subset DEF IsList
  <2> QED BY <2>2, <2>3 DEF FiniteSubsetsOf
<1>3. Downs # {}
  OBVIOUS
<1> HIDE DEF Downs
<1>4. PICK D \in Downs : \A E \in Downs : ~(<<E, D>> \in StrictSubsetOrdering(S))
  BY <1>1, <1>2, <1>3, WFMin
<1>5. PICK a \in S : D = Down(a)
  BY <1>4 DEF Downs
<1>6. ASSUME NEW b \in S, Before(b, a) PROVE FALSE
  <2>1. Down(b) \subseteq Down(a) /\ b \in Down(a) /\ b \notin Down(b)
    BY <1>6, BeforeIsOrder
  <2>2. Down(b) \in SUBSET S /\ Down(a) \in SUBSET S /\ Down(b) \in Downs
    BY DEF Downs
  <2>3. <<Down(b), Down(a)>> \in StrictSubsetOrdering(S)
    BY <2>1, <2>2 DEF StrictSubsetOrdering
  <2> QED BY <1>4, <1>5, <2>2, <2>3
<1>7. \A b \in S : a = b \/ Before(a, b)
  BY <1>6, BeforeIsOrder
<1> QED BY <1>7 DEF First
-----------------------------------------------------------------------------
(* The exchange argument: what one step costs the best matching of the     *)
(* lists that are left.                                                    *)

(* A matching of two lists is finite. *)
LEMMA MatchingsAreFinite ==
  ASSUME NEW P, NEW R, IsList(P), IsList(R), NEW K, IsMatching(K, P, R)
  PROVE  IsFiniteSet(K) /\ Cardinality(K) \in Nat
<1>1. IsFiniteSet(P \X R)
  BY FS_Product DEF IsList
<1>2. K \in SUBSET (P \X R)
  BY DEF IsMatching
<1>3. IsFiniteSet(K)
  BY <1>1, <1>2, FS_Subset
<1> QED BY <1>3, FS_CardinalityType

(* Nothing in a list is earlier than its first event. *)
LEMMA FirstIsEarliest ==
  ASSUME NEW S, IsList(S), S # {}
  PROVE  /\ First(S) \in S /\ First(S).onset \in Int
         /\ \A b \in S : b.onset \in Int /\ First(S).onset <= b.onset
<1>1. First(S) \in S /\ \A b \in S : b = First(S) \/ Before(First(S), b)
  BY FirstComesFirst
<1>2. \A b \in S : b.onset \in Int
  BY DEF IsList, Occurrence
<1> QED BY <1>1, <1>2 DEF Before

(* A prediction that is too early for the first reference is in no pair.   *)
LEMMA TooEarlyIsUnmatched ==
  ASSUME NEW P, NEW R, IsList(P), IsList(R), P # {}, R # {},
         TooEarly(First(P), First(R)), NEW K, IsMatching(K, P, R)
  PROVE  IsMatching(K, P \ {First(P)}, R)
<1>1. ASSUME NEW m \in K PROVE m[1] # First(P)
  BY <1>1, FirstIsEarliest DEF IsMatching, Candidate, TooEarly
<1> QED BY <1>1 DEF IsMatching

(* A reference that the first prediction is too late for is in no pair.    *)
LEMMA TooLateIsUnmatched ==
  ASSUME NEW P, NEW R, IsList(P), IsList(R), P # {}, R # {},
         TooLate(First(P), First(R)), NEW K, IsMatching(K, P, R)
  PROVE  IsMatching(K, P, R \ {First(R)})
<1>1. ASSUME NEW m \in K PROVE m[2] # First(R)
  BY <1>1, FirstIsEarliest DEF IsMatching, Candidate, TooLate
<1> QED BY <1>1 DEF IsMatching

(* Pairing the first events costs at most one pair.  If both were paired   *)
(* otherwise, their partners are within tolerance of each other.           *)
LEMMA FirstPairCostsOne ==
  ASSUME NEW P, NEW R, IsList(P), IsList(R), P # {}, R # {},
         Candidate(First(P), First(R)), NEW K, IsMatching(K, P, R)
  PROVE  \E L : /\ IsMatching(L, P \ {First(P)}, R \ {First(R)})
                /\ Cardinality(K) <= Cardinality(L) + 1
<1> DEFINE p == First(P)
           r == First(R)
           G(L) == /\ IsMatching(L, P \ {p}, R \ {r})
                   /\ Cardinality(K) <= Cardinality(L) + 1
<1>1. IsFiniteSet(K) /\ Cardinality(K) \in Nat
  BY MatchingsAreFinite
<1>2. /\ K \subseteq P \X R
      /\ \A m \in K : Candidate(m[1], m[2])
      /\ \A m, n \in K : m[1] = n[1] \/ m[2] = n[2] => m = n
  BY DEF IsMatching, OneToOne
<1>3. SUFFICES \E L : G(L)
  OBVIOUS
<1>4. CASE \A m \in K : m[1] # p /\ m[2] # r
  <2>1. IsMatching(K, P \ {p}, R \ {r})
    BY <1>2, <1>4 DEF IsMatching, OneToOne
  <2> QED BY <1>1, <2>1
<1>5. ASSUME NEW m \in K, \A n \in K : n[1] = p \/ n[2] = r => n = m
      PROVE  G(K \ {m})
  <2>1. IsMatching(K \ {m}, P \ {p}, R \ {r})
    BY <1>2, <1>5 DEF IsMatching, OneToOne
  <2>2. Cardinality(K \ {m}) = Cardinality(K) - 1
    BY <1>1, FS_RemoveElement
  <2> QED BY <1>1, <2>1, <2>2
<1>6. ASSUME NEW m \in K, NEW n \in K, m # n, m[1] = p, n[2] = r
      PROVE  \E L : G(L)
  <2> DEFINE q == <<n[1], m[2]>>
             J == (K \ {m}) \ {n}
  <2>1. n[1] \in P \ {p} /\ m[2] \in R \ {r}
    BY <1>2, <1>6
  <2>2. Candidate(n[1], m[2])
    <3>1. /\ p.onset \in Int /\ n[1].onset \in Int /\ p.onset <= n[1].onset
          /\ r.onset \in Int /\ m[2].onset \in Int /\ r.onset <= m[2].onset
      BY <2>1, FirstIsEarliest
    <3>2. Candidate(p, m[2]) /\ Candidate(n[1], r)
      BY <1>2, <1>6
    <3> QED BY <3>1, <3>2 DEF Candidate
  <2>3. IsMatching(J \cup {q}, P \ {p}, R \ {r})
    <3>1. \A l \in J : l \in P \X R /\ l[1] # p /\ l[2] # r /\ l[1] # n[1] /\ l[2] # m[2]
      BY <1>2, <1>6
    <3>2. J \cup {q} \subseteq (P \ {p}) \X (R \ {r})
      BY <2>1, <3>1
    <3>3. \A l \in J \cup {q} : Candidate(l[1], l[2])
      BY <1>2, <2>2
    <3>4. OneToOne(J \cup {q})
      BY <1>2, <3>1 DEF OneToOne
    <3> QED BY <3>2, <3>3, <3>4 DEF IsMatching
  <2>4. q \notin J
    BY <1>2, <1>6
  <2>5. IsFiniteSet(J) /\ Cardinality(J) = Cardinality(K) - 2
    <3>1. IsFiniteSet(K \ {m}) /\ Cardinality(K \ {m}) = Cardinality(K) - 1
      BY <1>1, FS_RemoveElement
    <3>2. IsFiniteSet(J) /\ Cardinality(J) = Cardinality(K \ {m}) - 1
      BY <1>6, <3>1, FS_RemoveElement
    <3> QED BY <1>1, <3>1, <3>2
  <2>6. Cardinality(J \cup {q}) = Cardinality(K) - 1
    <3> HIDE DEF J, q
    <3>1. Cardinality(J \cup {q}) = Cardinality(J) + 1
      BY <2>4, <2>5, FS_AddElement
    <3> QED BY <1>1, <2>5, <3>1
  <2>7. Cardinality(K) <= Cardinality(J \cup {q}) + 1
    BY <1>1, <2>6
  <2> QED BY <2>3, <2>7
<1>7. ASSUME NEW m \in K, m[1] = p \/ m[2] = r PROVE \E L : G(L)
  <2>1. CASE \A n \in K : n[1] = p \/ n[2] = r => n = m
    BY <1>5, <2>1
  <2>2. CASE \E n \in K : (n[1] = p \/ n[2] = r) /\ n # m
    <3>1. PICK n \in K : (n[1] = p \/ n[2] = r) /\ n # m
      BY <2>2
    <3>2. \/ m[1] = p /\ n[2] = r
          \/ n[1] = p /\ m[2] = r
      BY <1>2, <1>7, <3>1
    <3> HIDE DEF G, p, r
    <3> QED BY <1>6, <3>1, <3>2
  <2> QED BY <2>1, <2>2
<1> HIDE DEF G
<1> QED BY <1>4, <1>7 DEF G
-----------------------------------------------------------------------------
(* The inductive invariant. *)

(* Whatever matching of the lists there is, the pairs found and a matching *)
(* of what lies ahead make one at least as large: no step so far has cost  *)
(* a match.                                                                *)
NothingIsLost ==
  \A N \in SUBSET (predictions \X references) :
    IsMatching(N, predictions, references) =>
      \E K \in SUBSET (restP \X restR) :
        /\ IsMatching(K, restP, restR)
        /\ Cardinality(N) <= Cardinality(matches) + Cardinality(K)

(* What lies ahead comes after what is matched. *)
MatchedComesBefore ==
  \A m \in matches :
    /\ \A p \in restP : Before(m[1], p)
    /\ \A r \in restR : Before(m[2], r)

MatchingCore ==
  /\ IsList(predictions) /\ IsList(references)
  /\ restP \subseteq predictions /\ restR \subseteq references
  /\ MatchesAreLegal
  /\ EventsCountOnce
  /\ NothingIsLost

MatchingInv == MatchingCore /\ MatchedComesBefore /\ MatchesAreChronological

(* The invariant holds before the first step. *)
LEMMA MatchingInitInv == MatchingInit => MatchingInv
<1> SUFFICES ASSUME MatchingInit PROVE MatchingInv
  OBVIOUS
<1>1. PICK P \in Events(PredictionIds) : \E R \in Events(ReferenceIds) : StartMatching(P, R)
  BY DEF MatchingInit
<1>2. PICK R \in Events(ReferenceIds) : StartMatching(P, R)
  BY <1>1
<1>3. IsList(P) /\ IsList(R)
  BY EventsAreLists
<1>4. NothingIsLost
  <2>1. SUFFICES ASSUME NEW N \in SUBSET (P \X R), IsMatching(N, P, R)
                 PROVE  Cardinality(N) <= Cardinality({}) + Cardinality(N)
    BY <1>2 DEF NothingIsLost, StartMatching
  <2> QED BY <1>3, <2>1, MatchingsAreFinite, FS_EmptySet
<1>5. MatchesAreLegal /\ MatchedComesBefore /\ MatchesAreChronological
  BY <1>2 DEF StartMatching, MatchesAreLegal, IsMatching, OneToOne, MatchedComesBefore,
              MatchesAreChronological
<1>6. EventsCountOnce
  BY <1>2 DEF StartMatching, EventsCountOnce
<1> QED BY <1>2, <1>3, <1>4, <1>5, <1>6 DEF StartMatching, MatchingInv, MatchingCore

(* The lists are inputs; what is left of them only shrinks. *)
LEMMA ListsStay ==
  ASSUME MatchingCore, MatchingNext
  PROVE  /\ predictions' = predictions /\ references' = references
         /\ restP' \subseteq restP /\ restR' \subseteq restR
         /\ IsList(restP) /\ IsList(restR)
<1>1. predictions' = predictions /\ references' = references
  BY DEF MatchingNext, FalseAlarm, Miss, Pair, Leftover, lists
<1>2. restP' \subseteq restP /\ restR' \subseteq restR
  BY DEF MatchingNext, FalseAlarm, Miss, Pair, Leftover
<1>3. IsList(restP) /\ IsList(restR)
  BY SublistsAreLists DEF MatchingCore
<1> QED BY <1>1, <1>2, <1>3

(* A new pair is of two events not matched before. *)
LEMMA NewPair ==
  ASSUME MatchingCore, Pair
  PROVE  /\ First(restP) \in restP /\ First(restR) \in restR
         /\ Candidate(First(restP), First(restR))
         /\ \A m \in matches : m[1] # First(restP) /\ m[2] # First(restR)
         /\ IsFiniteSet(matches) /\ Cardinality(matches) \in Nat
         /\ Cardinality(matches') = Cardinality(matches) + 1
<1> DEFINE p == First(restP)
           r == First(restR)
<1>1. IsList(restP) /\ IsList(restR) /\ restP # {} /\ restR # {}
  BY SublistsAreLists DEF MatchingCore, Pair, Ahead
<1>2. /\ p \in restP /\ p.onset \in Int
      /\ r \in restR /\ r.onset \in Int
  BY <1>1, FirstIsEarliest
<1>3. Candidate(p, r)
  BY <1>2 DEF Pair, TooEarly, TooLate, Candidate
<1>4. \A m \in matches : m[1] # p /\ m[2] # r
  BY <1>2 DEF MatchingCore, EventsCountOnce
<1>5. IsFiniteSet(matches) /\ Cardinality(matches) \in Nat
  BY MatchingsAreFinite DEF MatchingCore, MatchesAreLegal
<1>6. <<p, r>> \notin matches
  BY <1>4
<1>7. Cardinality(matches') = Cardinality(matches) + 1
  BY <1>5, <1>6, FS_AddElement DEF Pair
<1> QED BY <1>2, <1>3, <1>4, <1>5, <1>7

(* No step costs a match. *)
LEMMA StepLosesNothing ==
  ASSUME MatchingCore, MatchingNext
  PROVE  NothingIsLost'
<1>1. /\ predictions' = predictions /\ references' = references
      /\ IsList(restP) /\ IsList(restR)
  BY ListsStay
<1>2. IsFiniteSet(matches) /\ Cardinality(matches) \in Nat
  BY MatchingsAreFinite DEF MatchingCore, MatchesAreLegal
<1>3. SUFFICES ASSUME NEW N \in SUBSET (predictions \X references),
                      IsMatching(N, predictions, references),
                      NEW K \in SUBSET (restP \X restR), IsMatching(K, restP, restR),
                      Cardinality(N) <= Cardinality(matches) + Cardinality(K)
               PROVE  \E L : /\ IsMatching(L, restP', restR')
                             /\ Cardinality(N) <= Cardinality(matches') + Cardinality(L)
  BY <1>1 DEF MatchingCore, NothingIsLost, IsMatching
<1>4. IsFiniteSet(K) /\ Cardinality(K) \in Nat
  BY <1>1, <1>3, MatchingsAreFinite
<1>5. Cardinality(N) \in Nat
  BY <1>3, MatchingsAreFinite DEF MatchingCore
<1>6. CASE FalseAlarm
  <2>1. IsMatching(K, restP', restR')
    BY <1>1, <1>3, <1>6, TooEarlyIsUnmatched DEF FalseAlarm, Ahead
  <2> QED BY <1>3, <1>6, <2>1 DEF FalseAlarm
<1>7. CASE Miss
  <2>1. IsMatching(K, restP', restR')
    BY <1>1, <1>3, <1>7, TooLateIsUnmatched DEF Miss, Ahead
  <2> QED BY <1>3, <1>7, <2>1 DEF Miss
<1>8. CASE Pair
  <2>1. PICK L : /\ IsMatching(L, restP \ {First(restP)}, restR \ {First(restR)})
                 /\ Cardinality(K) <= Cardinality(L) + 1
    BY <1>1, <1>3, <1>8, NewPair, FirstPairCostsOne DEF Pair, Ahead
  <2>2. IsMatching(L, restP', restR')
    BY <1>8, <2>1 DEF Pair
  <2>3. Cardinality(L) \in Nat
    BY <1>1, <2>1, SublistsAreLists, MatchingsAreFinite
  <2>4. Cardinality(matches') = Cardinality(matches) + 1
    BY <1>8, NewPair
  <2>5. Cardinality(N) <= Cardinality(matches') + Cardinality(L)
    BY <1>2, <1>3, <1>4, <1>5, <2>1, <2>3, <2>4
  <2> QED BY <2>2, <2>5
<1>9. CASE Leftover
  <2>1. K = {}
    BY <1>3, <1>9 DEF Leftover, Ahead, IsMatching
  <2>2. IsMatching(K, restP', restR')
    BY <2>1 DEF IsMatching, OneToOne
  <2> QED BY <1>3, <1>9, <2>2 DEF Leftover
<1> QED BY <1>6, <1>7, <1>8, <1>9 DEF MatchingNext

(* Every step keeps the pairs legal. *)
LEMMA StepIsLegal ==
  ASSUME MatchingCore, MatchingNext
  PROVE  MatchesAreLegal'
<1>1. predictions' = predictions /\ references' = references
  BY ListsStay
<1>2. CASE Pair
  <2> DEFINE q == <<First(restP), First(restR)>>
  <2>1. /\ q \in predictions \X references /\ Candidate(q[1], q[2])
        /\ \A m \in matches : m[1] # q[1] /\ m[2] # q[2]
    BY <1>2, NewPair DEF MatchingCore
  <2>2. matches' = matches \cup {q}
    BY <1>2 DEF Pair
  <2> HIDE DEF q
  <2> QED BY <1>1, <2>1, <2>2 DEF MatchingCore, MatchesAreLegal, IsMatching, OneToOne
<1>3. CASE matches' = matches
  BY <1>1, <1>3 DEF MatchingCore, MatchesAreLegal
<1> QED BY <1>2, <1>3 DEF MatchingNext, FalseAlarm, Miss, Leftover

(* Every step keeps the books: each event is in one place. *)
LEMMA StepCountsOnce ==
  ASSUME MatchingCore, MatchingNext
  PROVE  EventsCountOnce'
<1>1. /\ predictions' = predictions /\ references' = references
      /\ IsList(restP) /\ IsList(restR)
  BY ListsStay
<1>2. CASE FalseAlarm
  <2>1. First(restP) \in restP
    BY <1>1, <1>2, FirstComesFirst DEF FalseAlarm, Ahead
  <2> QED BY <1>1, <1>2, <2>1 DEF FalseAlarm, MatchingCore, EventsCountOnce
<1>3. CASE Miss
  <2>1. First(restR) \in restR
    BY <1>1, <1>3, FirstComesFirst DEF Miss, Ahead
  <2> QED BY <1>1, <1>3, <2>1 DEF Miss, MatchingCore, EventsCountOnce
<1>4. CASE Pair
  <2>1. First(restP) \in restP /\ First(restR) \in restR
    BY <1>4, NewPair
  <2>2. /\ {m[1] : m \in matches'} = {m[1] : m \in matches} \cup {First(restP)}
        /\ {m[2] : m \in matches'} = {m[2] : m \in matches} \cup {First(restR)}
    <3> DEFINE q == <<First(restP), First(restR)>>
    <3>1. matches' = matches \cup {q} /\ q[1] = First(restP) /\ q[2] = First(restR)
      BY <1>4 DEF Pair
    <3> HIDE DEF q
    <3>2. {m[1] : m \in matches'} = {m[1] : m \in matches} \cup {First(restP)}
      BY <3>1
    <3>3. {m[2] : m \in matches'} = {m[2] : m \in matches} \cup {First(restR)}
      BY <3>1
    <3> QED BY <3>2, <3>3
  <2> QED BY <1>1, <1>4, <2>1, <2>2 DEF Pair, MatchingCore, EventsCountOnce
<1>5. CASE Leftover
  BY <1>1, <1>5 DEF Leftover, MatchingCore, EventsCountOnce
<1> QED BY <1>2, <1>3, <1>4, <1>5 DEF MatchingNext

(* The steps of the loop keep the core of the invariant. *)
LEMMA MatchingCoreNext == MatchingCore /\ [MatchingNext]_matching => MatchingCore'
<1> SUFFICES ASSUME MatchingCore, [MatchingNext]_matching PROVE MatchingCore'
  OBVIOUS
<1>1. CASE MatchingNext
  <2>1. /\ predictions' = predictions /\ references' = references
        /\ restP' \subseteq restP /\ restR' \subseteq restR
    BY <1>1, ListsStay
  <2>2. /\ IsList(predictions)' /\ IsList(references)'
        /\ (restP \subseteq predictions)' /\ (restR \subseteq references)'
    BY <2>1 DEF MatchingCore, IsList
  <2> QED BY <1>1, <2>2, StepIsLegal, StepCountsOnce, StepLosesNothing DEF MatchingCore
<1>2. CASE UNCHANGED matching
  BY <1>2 DEF matching, lists, result, MatchingCore, IsList, MatchesAreLegal, EventsCountOnce,
              NothingIsLost
<1> QED BY <1>1, <1>2

(* Every step keeps what is matched before what lies ahead. *)
LEMMA StepIsChronological ==
  ASSUME MatchingInv, MatchingNext
  PROVE  MatchedComesBefore' /\ MatchesAreChronological'
<1>1. restP' \subseteq restP /\ restR' \subseteq restR /\ IsList(restP) /\ IsList(restR)
  BY ListsStay DEF MatchingInv
<1>2. CASE Pair
  <2> DEFINE p == First(restP)
             r == First(restR)
  <2>1. /\ p \in restP /\ \A b \in restP \ {p} : Before(p, b)
        /\ r \in restR /\ \A b \in restR \ {r} : Before(r, b)
    BY <1>1, <1>2, FirstComesFirst DEF Pair, Ahead
  <2>2. /\ restP' = restP \ {p} /\ restR' = restR \ {r}
        /\ matches' = matches \cup {<<p, r>>}
    BY <1>2 DEF Pair
  <2>3. MatchedComesBefore'
    BY <2>1, <2>2 DEF MatchingInv, MatchedComesBefore
  <2>4. ~Before(p, p) /\ ~Before(r, r)
    BY <1>1, <2>1, BeforeIsOrder
  <2>5. ASSUME NEW m \in matches
        PROVE  /\ Before(m[1], p) /\ Before(m[2], r)
               /\ ~Before(p, m[1]) /\ ~Before(r, m[2])
    <3>1. Before(m[1], p) /\ Before(m[2], r)
      BY <2>1 DEF MatchingInv, MatchedComesBefore
    <3>2. /\ m[1] \in predictions /\ p \in predictions
          /\ m[2] \in references /\ r \in references
      BY <2>1 DEF MatchingInv, MatchingCore, MatchesAreLegal, IsMatching
    <3> QED BY <3>1, <3>2, BeforeIsOrder DEF MatchingInv, MatchingCore
  <2>6. MatchesAreChronological'
    BY <2>2, <2>4, <2>5 DEF MatchingInv, MatchesAreChronological
  <2> QED BY <2>3, <2>6
<1>3. CASE matches' = matches
  BY <1>1, <1>3 DEF MatchingInv, MatchedComesBefore, MatchesAreChronological
<1> QED BY <1>2, <1>3 DEF MatchingNext, FalseAlarm, Miss, Leftover

(* The invariant is inductive. *)
LEMMA MatchingNextInv == MatchingInv /\ [MatchingNext]_matching => MatchingInv'
<1> SUFFICES ASSUME MatchingInv, [MatchingNext]_matching PROVE MatchingInv'
  OBVIOUS
<1>1. MatchingCore'
  BY MatchingCoreNext DEF MatchingInv
<1>2. CASE MatchingNext
  BY <1>1, <1>2, StepIsChronological DEF MatchingInv
<1>3. CASE UNCHANGED matching
  BY <1>1, <1>3 DEF matching, lists, result, MatchingInv, MatchedComesBefore, MatchesAreChronological
<1> QED BY <1>2, <1>3

-----------------------------------------------------------------------------
(* The theorems. *)

(* Once both lists are used up, only the empty matching lies ahead. *)
LEMMA InvImpliesMaximum == MatchingCore => MatchesAreMaximum
<1> SUFFICES ASSUME MatchingCore, Matched,
                    NEW N \in SUBSET (predictions \X references),
                    IsMatching(N, predictions, references)
             PROVE  Cardinality(N) <= Cardinality(matches)
  BY DEF MatchesAreMaximum, MatchingCore
<1>1. PICK K \in SUBSET (restP \X restR) :
        Cardinality(N) <= Cardinality(matches) + Cardinality(K)
  BY DEF MatchingCore, NothingIsLost
<1>2. K = {}
  BY <1>1 DEF Matched
<1>3. Cardinality(K) = 0
  BY <1>2, FS_EmptySet
<1>4. Cardinality(matches) \in Nat /\ Cardinality(N) \in Nat
  BY MatchingsAreFinite DEF MatchingCore, MatchesAreLegal
<1> QED BY <1>1, <1>3, <1>4

(* The pairs are one-to-one and within tolerance, for lists of any length. *)
THEOREM MatchingIsLegal == MatchingSpec => []MatchesAreLegal
<1>1. MatchingInv => MatchesAreLegal
  BY DEF MatchingInv, MatchingCore
<1> QED BY MatchingInitInv, MatchingNextInv, <1>1, PTL DEF MatchingSpec

(* Every event is counted once, for lists of any length. *)
THEOREM MatchingCountsOnce == MatchingSpec => []EventsCountOnce
<1>1. MatchingInv => EventsCountOnce
  BY DEF MatchingInv, MatchingCore
<1> QED BY MatchingInitInv, MatchingNextInv, <1>1, PTL DEF MatchingSpec

(* The pairs do not cross, for lists of any length. *)
THEOREM MatchingIsChronological == MatchingSpec => []MatchesAreChronological
<1>1. MatchingInv => MatchesAreChronological
  BY DEF MatchingInv
<1> QED BY MatchingInitInv, MatchingNextInv, <1>1, PTL DEF MatchingSpec

(* The greedy loop finds a matching of maximum cardinality, as the         *)
(* docstring of _match says, for lists of any length and any tolerances.   *)
THEOREM GreedyIsMaximum == MatchingSpec => []MatchesAreMaximum
<1>1. MatchingInv => MatchesAreMaximum
  BY InvImpliesMaximum DEF MatchingInv
<1> QED BY MatchingInitInv, MatchingNextInv, <1>1, PTL DEF MatchingSpec

(* The outcome is a best one and accounts for every event of both lists.   *)
THEOREM GreedyIsExact == MatchingSpec => []MatchingIsExact
<1>1. MatchesAreMaximum /\ EventsCountOnce => MatchingIsExact
  BY DEF MatchingIsExact
<1> QED BY <1>1, GreedyIsMaximum, MatchingCountsOnce, PTL

-----------------------------------------------------------------------------
(* EventEvaluation: the merged windows. *)

Span == {w \in Int \X Int : w[1] < w[2]}

(* What is merged so far is the reviewed time of the windows taken, in     *)
(* windows that do not touch; those left start no earlier than any of them.*)
WindowsAgree ==
  /\ windows \subseteq Span /\ unmerged \subseteq windows /\ IsFiniteSet(unmerged)
  /\ merged \in Seq(Span)
  /\ \A i, k \in DOMAIN merged : i < k => merged[i][2] < merged[k][1]
  /\ \A i \in DOMAIN merged, w \in unmerged : merged[i][1] <= w[1]
  /\ \A t \in Int :
       (\E w \in windows \ unmerged : Within(t, w)) <=> (\E i \in DOMAIN merged : Within(t, merged[i]))
  /\ phase # "merging" => unmerged = {}

(* The order of the windows, by start and then by end. *)
Starts(w, v) == w[1] < v[1] \/ (w[1] = v[1] /\ w[2] <= v[2])

(* Among finitely many windows one starts first: the one that the fewest   *)
(* others do not start after.                                              *)
LEMMA FirstWindowStartsFirst ==
  ASSUME unmerged \subseteq Span, IsFiniteSet(unmerged), unmerged # {}
  PROVE  FirstWindow \in unmerged /\ \A v \in unmerged : FirstWindow[1] <= v[1]
<1> DEFINE Down(a) == {b \in unmerged : Starts(b, a)}
           Downs == {Down(a) : a \in unmerged}
<1>1. IsWellFoundedOn(StrictSubsetOrdering(unmerged), FiniteSubsetsOf(unmerged))
  BY FS_StrictSubsetOrderingWellFounded
<1>2. Downs \subseteq FiniteSubsetsOf(unmerged)
  <2>1. SUFFICES ASSUME NEW a \in unmerged PROVE Down(a) \in FiniteSubsetsOf(unmerged)
    OBVIOUS
  <2>2. Down(a) \in SUBSET unmerged
    OBVIOUS
  <2>3. IsFiniteSet(Down(a))
    BY <2>2, FS_Subset
  <2> QED BY <2>2, <2>3 DEF FiniteSubsetsOf
<1>3. Downs # {}
  OBVIOUS
<1> HIDE DEF Downs
<1>4. PICK D \in Downs : \A E \in Downs : ~(<<E, D>> \in StrictSubsetOrdering(unmerged))
  BY <1>1, <1>2, <1>3, WFMin
<1>5. PICK a \in unmerged : D = Down(a)
  BY <1>4 DEF Downs
<1>6. \A v \in unmerged : v[1] \in Int /\ v[2] \in Int
  BY DEF Span
<1>7. ASSUME NEW b \in unmerged, ~Starts(a, b) PROVE FALSE
  <2>1. Down(b) \subseteq Down(a) /\ a \in Down(a) /\ a \notin Down(b)
    BY <1>6, <1>7 DEF Starts
  <2>2. Down(b) \in SUBSET unmerged /\ Down(a) \in SUBSET unmerged /\ Down(b) \in Downs
    BY DEF Downs
  <2>3. <<Down(b), Down(a)>> \in StrictSubsetOrdering(unmerged)
    BY <2>1, <2>2 DEF StrictSubsetOrdering
  <2> QED BY <1>4, <1>5, <2>2, <2>3
<1>8. \A v \in unmerged : Starts(a, v)
  BY <1>7
<1>9. FirstWindow \in unmerged /\ \A v \in unmerged : Starts(FirstWindow, v)
  BY <1>8 DEF FirstWindow, Starts
<1> QED BY <1>6, <1>9 DEF Starts

(* A merge keeps the windows in agreement with the reviews: the window it  *)
(* takes is appended behind all others or extends the last one.            *)
LEMMA MergeKeepsWindows ==
  ASSUME WindowsAgree, Merge
  PROVE  WindowsAgree'
<1> DEFINE w == FirstWindow
           n == Len(merged)
<1>1. /\ w \in unmerged /\ \A v \in unmerged : w[1] <= v[1]
      /\ w \in Span /\ w[1] \in Int /\ w[2] \in Int /\ w[1] < w[2]
  <2>1. unmerged \subseteq Span
    BY DEF WindowsAgree
  <2>2. w \in unmerged /\ \A v \in unmerged : w[1] <= v[1]
    BY <2>1, FirstWindowStartsFirst DEF WindowsAgree, Merge
  <2> QED BY <2>1, <2>2 DEF Span
<1>2. /\ windows' = windows /\ unmerged' = unmerged \ {w} /\ phase' = phase /\ phase = "merging"
      /\ merged' = IF merged # <<>> /\ Touches(w)
                   THEN [merged EXCEPT ![n] = <<merged[n][1], Latest(merged[n][2], w[2])>>]
                   ELSE Append(merged, w)
  BY DEF Merge, arguments
<1>3. n \in Nat /\ DOMAIN merged = 1..n /\ merged \in Seq(Span)
  BY DEF WindowsAgree
<1>4. \A i \in 1..n : merged[i] \in Span /\ merged[i][1] \in Int /\ merged[i][2] \in Int
                      /\ merged[i][1] < merged[i][2]
  <2>1. \A i \in 1..n : merged[i] \in Span
    BY <1>3
  <2> QED BY <2>1 DEF Span
<1>5. /\ \A i, k \in 1..n : i < k => merged[i][2] < merged[k][1]
      /\ \A i \in 1..n, v \in unmerged : merged[i][1] <= v[1]
      /\ \A t \in Int : (\E v \in windows \ unmerged : Within(t, v))
                          <=> (\E i \in 1..n : Within(t, merged[i]))
  BY <1>3 DEF WindowsAgree
<1>6. /\ windows' \subseteq Span /\ unmerged' \subseteq windows' /\ IsFiniteSet(unmerged')
  BY <1>2, FS_Subset DEF WindowsAgree
<1>7. \A t \in Int : (\E v \in windows' \ unmerged' : Within(t, v))
                      <=> Within(t, w) \/ \E i \in 1..n : Within(t, merged[i])
  <2>1. windows' \ unmerged' = (windows \ unmerged) \cup {w}
    BY <1>1, <1>2 DEF WindowsAgree
  <2> QED BY <1>5, <2>1
<1>8. CASE merged # <<>> /\ Touches(w)
  <2> DEFINE u == <<merged[n][1], Latest(merged[n][2], w[2])>>
  <2>1. n \in 1..n
    BY <1>3, <1>8
  <2>2. w[1] <= merged[n][2]
    BY <1>3, <1>8 DEF Touches, Last
  <2>3. /\ u[1] = merged[n][1] /\ u[1] \in Int /\ u[2] \in Int /\ u[1] < u[2]
        /\ merged[n][2] <= u[2] /\ w[2] <= u[2] /\ (u[2] = merged[n][2] \/ u[2] = w[2])
    BY <1>1, <1>4, <2>1 DEF Latest
  <2>4. u \in Span
    BY <2>3 DEF Span
  <2> HIDE DEF u
  <2>5. merged' = [merged EXCEPT ![n] = u]
    BY <1>2, <1>8 DEF u
  <2>6. merged' \in Seq(Span) /\ DOMAIN merged' = 1..n
    <3>1. merged \in [1..n -> Span]
      BY <1>3
    <3>2. merged' \in [1..n -> Span]
      BY <2>4, <2>5, <3>1
    <3> HIDE DEF n
    <3> QED BY <1>3, <3>2
  <2>7. \A i \in 1..n : merged'[i] = IF i = n THEN u ELSE merged[i]
    BY <1>3, <2>5
  <2>8. \A i, k \in 1..n : i < k => merged'[i][2] < merged'[k][1]
    <3>1. SUFFICES ASSUME NEW i \in 1..n, NEW k \in 1..n, i < k
                   PROVE  merged'[i][2] < merged'[k][1]
      OBVIOUS
    <3>2. i # n
      <4> HIDE DEF n
      <4> QED BY <1>3, <3>1
    <3>3. merged'[i] = merged[i] /\ merged[i][2] < merged[k][1]
      BY <1>5, <2>7, <3>1, <3>2
    <3>4. merged'[k][1] = merged[k][1]
      BY <2>3, <2>7
    <3> QED BY <3>3, <3>4
  <2>9. \A i \in 1..n, v \in unmerged' : merged'[i][1] <= v[1]
    BY <1>2, <1>5, <2>3, <2>7
  <2>10. ASSUME NEW t \in Int PROVE Within(t, u) <=> Within(t, w) \/ Within(t, merged[n])
    <3>1. merged[n][1] <= w[1]
      BY <1>1, <1>5, <2>1
    <3> QED BY <1>1, <1>4, <2>1, <2>2, <2>3, <3>1 DEF Within
  <2>11. \A t \in Int : (\E i \in 1..n : Within(t, merged'[i]))
                         <=> Within(t, w) \/ \E i \in 1..n : Within(t, merged[i])
    <3>1. SUFFICES ASSUME NEW t \in Int
                   PROVE  (\E i \in 1..n : Within(t, merged'[i]))
                          <=> Within(t, w) \/ \E i \in 1..n : Within(t, merged[i])
      OBVIOUS
    <3>2. \A i \in 1..n : Within(t, merged'[i]) <=> Within(t, IF i = n THEN u ELSE merged[i])
      BY <2>7
    <3> QED BY <2>1, <2>10, <3>2
  <2> QED BY <1>2, <1>6, <1>7, <2>6, <2>8, <2>9, <2>11 DEF WindowsAgree, Within
<1>9. CASE ~(merged # <<>> /\ Touches(w))
  <2>1. merged' = Append(merged, w)
    BY <1>2, <1>9
  <2>2. merged' \in Seq(Span) /\ DOMAIN merged' = 1..(n + 1)
    BY <1>1, <1>3, <2>1
  <2>3. merged'[n + 1] = w /\ \A i \in 1..n : merged'[i] = merged[i]
    BY <1>3, <2>1
  <2>4. \A i \in 1..n : merged[i][2] < w[1]
    <3>1. SUFFICES ASSUME NEW i \in 1..n PROVE merged[i][2] < w[1]
      OBVIOUS
    <3>2. n \in 1..n /\ merged # <<>>
      BY <1>3
    <3>3. ~(w[1] <= merged[n][2])
      BY <1>3, <1>9, <3>2 DEF Touches, Last
    <3>4. merged[n][2] < w[1]
      BY <1>1, <1>4, <3>2, <3>3
    <3>5. CASE i = n
      BY <3>4, <3>5
    <3>6. CASE i < n
      BY <1>1, <1>4, <1>5, <3>2, <3>4, <3>6
    <3> QED BY <1>3, <3>5, <3>6
  <2>5. \A i, k \in 1..(n + 1) : i < k => merged'[i][2] < merged'[k][1]
    <3>1. SUFFICES ASSUME NEW i \in 1..(n + 1), NEW k \in 1..(n + 1), i < k
                   PROVE  merged'[i][2] < merged'[k][1]
      OBVIOUS
    <3>2. i \in 1..n /\ (k \in 1..n \/ k = n + 1)
      BY <1>3, <3>1
    <3> QED BY <1>5, <2>3, <2>4, <3>1, <3>2
  <2>6. \A i \in 1..(n + 1), v \in unmerged' : merged'[i][1] <= v[1]
    <3>1. SUFFICES ASSUME NEW i \in 1..(n + 1), NEW v \in unmerged' PROVE merged'[i][1] <= v[1]
      OBVIOUS
    <3>2. v \in unmerged /\ (i \in 1..n \/ i = n + 1)
      BY <1>2, <1>3
    <3> QED BY <1>1, <1>5, <2>3, <3>2
  <2>7. \A t \in Int : (\E i \in 1..(n + 1) : Within(t, merged'[i]))
                        <=> Within(t, w) \/ \E i \in 1..n : Within(t, merged[i])
    <3>1. SUFFICES ASSUME NEW t \in Int
                   PROVE  (\E i \in 1..(n + 1) : Within(t, merged'[i]))
                          <=> Within(t, w) \/ \E i \in 1..n : Within(t, merged[i])
      OBVIOUS
    <3>2. /\ Within(t, merged'[n + 1]) <=> Within(t, w)
          /\ \A i \in 1..n : Within(t, merged'[i]) <=> Within(t, merged[i])
      BY <2>3
    <3>3. \A i \in 1..(n + 1) : i \in 1..n \/ i = n + 1
      BY <1>3
    <3>4. (n + 1) \in 1..(n + 1) /\ 1..n \subseteq 1..(n + 1)
      BY <1>3
    <3> QED BY <3>2, <3>3, <3>4
  <2> QED BY <1>2, <1>6, <1>7, <2>2, <2>5, <2>6, <2>7 DEF WindowsAgree, Within
<1> QED BY <1>8, <1>9

(* A time is reviewed in one window at most. *)
LEMMA OneWindow ==
  ASSUME WindowsAgree, NEW t \in Int,
         NEW i \in DOMAIN merged, NEW k \in DOMAIN merged,
         Within(t, merged[i]), Within(t, merged[k])
  PROVE  i = k
<1>1. i \in Nat /\ k \in Nat
  BY DEF WindowsAgree
<1>2. merged[i] \in Span /\ merged[k] \in Span
  BY DEF WindowsAgree
<1>3. CASE i < k
  <2>1. merged[i][2] < merged[k][1]
    BY <1>3 DEF WindowsAgree
  <2> QED BY <1>2, <2>1 DEF Within, Span
<1>4. CASE k < i
  <2>1. merged[k][2] < merged[i][1]
    BY <1>4 DEF WindowsAgree
  <2> QED BY <1>2, <2>1 DEF Within, Span
<1> QED BY <1>1, <1>3, <1>4

-----------------------------------------------------------------------------
(* The events and the windows they are scored in. *)

Scorable(x, i) == i \in Reviewed(x) /\ Within(x.event.onset, Core(i))

(* group says what was decided about the events that are placed. *)
GroupsAgree ==
  /\ IsList(detections) /\ IsList(labels)
  /\ DOMAIN group = Detections \cup Labels
  /\ unplaced \subseteq Detections \cup Labels
  /\ \A x \in unplaced : group[x] = 0
  /\ \A x \in Labels \ unplaced :
       \/ group[x] = 0 /\ Reviewed(x) = {}
       \/ group[x] \in Reviewed(x) /\ Padded(x, group[x])
  /\ \A x \in Detections \ unplaced :
       \/ group[x] = 0 /\ \A i \in DOMAIN merged : ~Scorable(x, i)
       \/ Scorable(x, group[x])

(* The order of the phases: windows, then labels, then detections. *)
PhasesAgree ==
  /\ phase \in {"none", "merging", "references", "rejected", "predictions", "matching", "evaluated"}
  /\ phase = "merging" => unplaced = Detections \cup Labels
  /\ phase = "references" => Detections \subseteq unplaced
  /\ phase \in {"none", "predictions", "matching", "evaluated"} => unplaced \cap Labels = {}
  /\ phase \in {"none", "matching", "evaluated"} => unplaced = {}
  /\ phase = "rejected" => \E r \in Labels : \E i \in Reviewed(r) : ~Padded(r, i)

(* A detection and a label are told apart by their kind. *)
LEMMA KindsDiffer ==
  /\ \A x \in Detections : x.kind = "prediction" /\ x.event \in detections
  /\ \A x \in Labels : x.kind = "reference" /\ x.event \in labels
  /\ Detections \cap Labels = {}
<1>1. \A x \in Detections : x.kind = "prediction" /\ x.event \in detections
  BY DEF Detections
<1>2. \A x \in Labels : x.kind = "reference" /\ x.event \in labels
  BY DEF Labels
<1> QED BY <1>1, <1>2

(* Events have whole times, and windows whole bounds. *)
LEMMA OnsetsAreTimes ==
  ASSUME GroupsAgree
  PROVE  \A x \in Detections \cup Labels : x.event.onset \in Int
<1>1. \A x \in Detections \cup Labels : x.event \in detections \cup labels
  BY KindsDiffer
<1> QED BY <1>1 DEF GroupsAgree, IsList, Occurrence

LEMMA BoundsAreTimes ==
  ASSUME WindowsAgree
  PROVE  \A i \in DOMAIN merged : merged[i][1] \in Int /\ merged[i][2] \in Int
                                  /\ merged[i][1] < merged[i][2]
<1>1. \A i \in DOMAIN merged : merged[i] \in Span
  BY DEF WindowsAgree
<1> QED BY <1>1 DEF Span

(* The matching horizon of a label is scored, and only if it is padded.    *)
LEMMA PaddedIsHorizon ==
  ASSUME WindowsAgree, GroupsAgree, NEW r \in Labels, NEW i \in DOMAIN merged
  PROVE  Padded(r, i)
           <=> \A t \in (r.event.onset - Early)..(r.event.onset + Late) : Within(t, Core(i))
<1> DEFINE o == r.event.onset
           a == Core(i)[1]
           b == Core(i)[2]
<1>1. o \in Int
  BY OnsetsAreTimes
<1>2. a \in Int /\ b \in Int
  BY BoundsAreTimes DEF Core
<1>3. Padded(r, i) <=> (a < b /\ o - a >= Early /\ b - o > Late)
  BY DEF Padded
<1>4. \A t : Within(t, Core(i)) <=> (a <= t /\ t < b)
  BY DEF Within
<1> HIDE DEF a, b, o
<1>5. ASSUME Padded(r, i), NEW t \in (o - Early)..(o + Late) PROVE Within(t, Core(i))
  <2>1. a <= t /\ t < b
    BY <1>1, <1>2, <1>3, <1>5
  <2> QED BY <1>4, <2>1
<1>6. ASSUME \A t \in (o - Early)..(o + Late) : Within(t, Core(i)) PROVE Padded(r, i)
  <2>1. (o - Early) \in (o - Early)..(o + Late) /\ (o + Late) \in (o - Early)..(o + Late)
    BY <1>1
  <2>2. a <= o - Early /\ o + Late < b
    BY <1>4, <1>6, <2>1
  <2> QED BY <1>1, <1>2, <1>3, <2>2
<1> QED BY <1>5, <1>6 DEF o

(* An event that could match a scored event is scored in the same window:  *)
(* the core reaches as far from a label as from the border to a detection. *)
LEMMA CandidatesMeet ==
  ASSUME WindowsAgree, GroupsAgree, unplaced = {},
         NEW p \in Detections, NEW r \in Labels,
         Candidate(p.event, r.event), group[p] # 0 \/ group[r] # 0
  PROVE  group[p] = group[r]
<1>1. /\ p.event.onset \in Int /\ r.event.onset \in Int
      /\ \A i \in DOMAIN merged : merged[i][1] \in Int /\ merged[i][2] \in Int
  BY OnsetsAreTimes, BoundsAreTimes
<1>2. \A i \in DOMAIN merged : \A x : i \in Reviewed(x) <=> Within(x.event.onset, merged[i])
  BY DEF Reviewed
<1>3. /\ group[r] # 0 => group[r] \in Reviewed(r) /\ Padded(r, group[r])
      /\ group[r] = 0 => Reviewed(r) = {}
      /\ group[p] # 0 => Scorable(p, group[p])
      /\ group[p] = 0 => \A i \in DOMAIN merged : ~Scorable(p, i)
  <2>1. 0 \notin DOMAIN merged
    BY DEF WindowsAgree
  <2>2. 0 \notin Reviewed(r) /\ 0 \notin Reviewed(p)
    BY <2>1 DEF Reviewed
  <2>3. r \in Labels \ unplaced /\ p \in Detections \ unplaced
    OBVIOUS
  <2> QED BY <2>2, <2>3 DEF GroupsAgree, Scorable
<1>4. CASE group[r] # 0
  <2> DEFINE i == group[r]
  <2>1. i \in DOMAIN merged /\ Padded(r, i)
    BY <1>3, <1>4 DEF Reviewed
  <2> HIDE DEF i
  <2>2. Within(p.event.onset, Core(i))
    BY <1>1, <2>1 DEF Padded, Core, Within, Candidate
  <2>3. Within(p.event.onset, merged[i])
    BY <1>1, <2>1, <2>2 DEF Core, Within
  <2>4. Scorable(p, i)
    BY <1>2, <2>1, <2>2, <2>3 DEF Scorable
  <2>5. group[p] # 0
    BY <1>3, <2>1, <2>4
  <2>6. group[p] \in DOMAIN merged /\ Within(p.event.onset, merged[group[p]])
    BY <1>3, <2>5 DEF Scorable, Reviewed
  <2>7. group[p] = i
    BY <1>1, <2>1, <2>3, <2>6, OneWindow
  <2> QED BY <2>7 DEF i
<1>5. CASE group[p] # 0
  <2> DEFINE i == group[p]
  <2>1. i \in DOMAIN merged /\ Within(p.event.onset, Core(i))
    BY <1>3, <1>5 DEF Scorable, Reviewed
  <2> HIDE DEF i
  <2>2. Within(r.event.onset, merged[i])
    BY <1>1, <2>1 DEF Core, Within, Candidate
  <2>3. i \in Reviewed(r)
    BY <1>2, <2>1, <2>2
  <2>4. group[r] # 0
    BY <1>3, <2>3
  <2>5. group[r] \in DOMAIN merged /\ Within(r.event.onset, merged[group[r]])
    BY <1>3, <2>4 DEF Reviewed
  <2>6. group[r] = i
    BY <1>1, <2>1, <2>2, <2>5, OneWindow
  <2> QED BY <2>6 DEF i
<1> QED BY <1>4, <1>5

-----------------------------------------------------------------------------
(* What is scored: the lists of the report are the events of the windows   *)
(* scored so far.                                                          *)

Placed(S, n) == {x.event : x \in {y \in S : group[y] \in 1..n}}

ScoredAgree ==
  /\ scored \in 0..Len(merged)
  /\ phase \notin {"matching", "evaluated"} => scored = 0
  /\ phase = "evaluated" => scored = Len(merged) /\ Matched
  /\ predictions = Placed(Detections, scored)
  /\ references = Placed(Labels, scored)

EvaluationInv == WindowsAgree /\ GroupsAgree /\ PhasesAgree /\ ScoredAgree /\ MatchingCore

(* Nothing is placed in a window before the first. *)
LEMMA NoneIsPlaced == \A S : Placed(S, 0) = {}
BY DEF Placed

(* The events of the next window are those scored in it. *)
LEMMA GroupedIsPlaced ==
  ASSUME GroupsAgree, NEW n \in Nat
  PROVE  /\ Placed(Detections, n + 1) = Placed(Detections, n) \cup Grouped("prediction", n + 1)
         /\ Placed(Labels, n + 1) = Placed(Labels, n) \cup Grouped("reference", n + 1)
         /\ Placed(Detections, n) \cap Grouped("prediction", n + 1) = {}
         /\ Placed(Labels, n) \cap Grouped("reference", n + 1) = {}
<1>1. \A i : i \in 1..(n + 1) <=> i \in 1..n \/ i = n + 1
  OBVIOUS
<1>2. (n + 1) \notin 1..n
  OBVIOUS
<1>3. /\ Grouped("prediction", n + 1) = {x.event : x \in {y \in Detections : group[y] = n + 1}}
      /\ Grouped("reference", n + 1) = {x.event : x \in {y \in Labels : group[y] = n + 1}}
  <2>1. /\ \A y : y \in DOMAIN group /\ y.kind = "prediction" <=> y \in Detections
        /\ \A y : y \in DOMAIN group /\ y.kind = "reference" <=> y \in Labels
    BY KindsDiffer DEF GroupsAgree
  <2>2. {y \in DOMAIN group : y.kind = "prediction" /\ group[y] = n + 1}
          = {y \in Detections : group[y] = n + 1}
    BY <2>1
  <2>3. {y \in DOMAIN group : y.kind = "reference" /\ group[y] = n + 1}
          = {y \in Labels : group[y] = n + 1}
    BY <2>1
  <2> QED BY <2>2, <2>3 DEF Grouped
<1>4. /\ \A x, y \in Detections : x.event = y.event => x = y
      /\ \A x, y \in Labels : x.event = y.event => x = y
  BY DEF Detections, Labels
<1>5. ASSUME NEW S, \A x, y \in S : x.event = y.event => x = y
      PROVE  /\ Placed(S, n + 1) = Placed(S, n) \cup {x.event : x \in {y \in S : group[y] = n + 1}}
             /\ Placed(S, n) \cap {x.event : x \in {y \in S : group[y] = n + 1}} = {}
  <2>1. {y \in S : group[y] \in 1..(n + 1)}
          = {y \in S : group[y] \in 1..n} \cup {y \in S : group[y] = n + 1}
    BY <1>1
  <2>2. Placed(S, n + 1) = Placed(S, n) \cup {x.event : x \in {y \in S : group[y] = n + 1}}
    BY <2>1 DEF Placed
  <2>3. Placed(S, n) \cap {x.event : x \in {y \in S : group[y] = n + 1}} = {}
    BY <1>2, <1>5 DEF Placed
  <2> QED BY <2>2, <2>3
<1> HIDE DEF Placed, Grouped
<1> QED BY <1>3, <1>4, <1>5

(* The scored events of a kind are among the given ones. *)
LEMMA PlacedIsGiven ==
  \A n : Placed(Detections, n) \subseteq detections /\ Placed(Labels, n) \subseteq labels
BY DEF Placed, Detections, Labels

-----------------------------------------------------------------------------
(* One lemma for each part of the invariant and each action that needs it. *)

(* Before the first step nothing is merged, placed or scored. *)
LEMMA EmptyMatching ==
  ASSUME StartMatching({}, {})
  PROVE  MatchingCore /\ Matched /\ predictions = {} /\ references = {} /\ matches = {}
<1>1. IsList({})
  BY FS_EmptySet DEF IsList
<1>2. NothingIsLost
  <2>1. SUFFICES ASSUME NEW N \in SUBSET ({} \X {}) PROVE Cardinality(N) <= Cardinality({}) + Cardinality(N)
    BY DEF StartMatching, NothingIsLost
  <2>2. N = {}
    OBVIOUS
  <2> QED BY <2>2, FS_EmptySet
<1>3. MatchesAreLegal /\ EventsCountOnce
  BY DEF StartMatching, MatchesAreLegal, IsMatching, OneToOne, EventsCountOnce
<1> QED BY <1>1, <1>2, <1>3 DEF MatchingCore, Matched, StartMatching

LEMMA EvaluationInitInv == EvaluationInit => EvaluationInv
<1> SUFFICES ASSUME EvaluationInit PROVE EvaluationInv
  OBVIOUS
<1>1. windows \subseteq Span /\ IsFiniteSet(windows)
  BY ReviewAssumption DEF EvaluationInit, Span
<1>2. WindowsAgree
  <2>1. unmerged = windows /\ merged = <<>> /\ phase = "merging"
    BY DEF EvaluationInit
  <2>2. DOMAIN merged = {} /\ merged \in Seq(Span)
    BY <2>1
  <2> QED BY <1>1, <2>1, <2>2 DEF WindowsAgree
<1>3. GroupsAgree
  <2>1. IsList(detections) /\ IsList(labels)
    BY EventsAreLists DEF EvaluationInit
  <2>2. /\ unplaced = Detections \cup Labels
        /\ group = [x \in Detections \cup Labels |-> 0]
    BY DEF EvaluationInit
  <2> QED BY <2>1, <2>2 DEF GroupsAgree
<1>4. PhasesAgree
  BY DEF EvaluationInit, PhasesAgree
<1>5. ScoredAgree
  <2>1. scored = 0 /\ merged = <<>> /\ phase = "merging" /\ predictions = {} /\ references = {}
    BY EmptyMatching DEF EvaluationInit
  <2>2. Len(merged) = 0
    BY <2>1
  <2> QED BY <2>1, <2>2, NoneIsPlaced DEF ScoredAgree
<1> QED BY <1>2, <1>3, <1>4, <1>5, EmptyMatching DEF EvaluationInv, EvaluationInit

(* Windows are only merged while nothing else happens. *)
LEMMA WindowsStep ==
  ASSUME EvaluationInv, EvaluationNext
  PROVE  WindowsAgree'
<1>1. WindowsAgree
  BY DEF EvaluationInv
<1>2. CASE Merge
  BY <1>1, <1>2, MergeKeepsWindows
<1>3. CASE EndMerge
  BY <1>1, <1>3 DEF EndMerge, arguments, placing, WindowsAgree, Within
<1>4. ASSUME UNCHANGED <<windows, unmerged, merged>>, phase # "merging"
      PROVE  WindowsAgree'
  BY <1>1, <1>4 DEF WindowsAgree, Within
<1>5. ASSUME NEW x \in unplaced, PlaceReference(x) \/ Reject(x) \/ PlacePrediction(x)
      PROVE  UNCHANGED <<windows, unmerged, merged>> /\ phase # "merging"
  BY <1>5 DEF PlaceReference, Reject, PlacePrediction, Put, arguments, placing
<1>6. CASE EndReferences \/ EndPredictions \/ NextWindow \/ MatchStep \/ EndEvaluation
  <2>1. UNCHANGED <<windows, unmerged, merged>> /\ phase # "merging"
    BY <1>6 DEF EndReferences, EndPredictions, NextWindow, MatchStep, EndEvaluation, arguments, placing
  <2> QED BY <1>4, <2>1
<1> QED BY <1>2, <1>3, <1>4, <1>5, <1>6 DEF EvaluationNext

(* The events are inputs, and only placing one changes what is decided.    *)
LEMMA GroupsFrame ==
  ASSUME GroupsAgree, UNCHANGED <<detections, labels, unplaced, group, merged>>
  PROVE  GroupsAgree'
<1>1. /\ Detections' = Detections /\ Labels' = Labels
      /\ \A x : Reviewed(x)' = Reviewed(x)
      /\ \A x, i : Padded(x, i)' <=> Padded(x, i)
      /\ \A x, i : Scorable(x, i)' <=> Scorable(x, i)
  BY DEF Detections, Labels, Reviewed, Padded, Scorable, Core, Within
<1> HIDE DEF Detections, Labels, Reviewed, Padded, Scorable
<1> QED BY <1>1 DEF GroupsAgree, IsList

LEMMA PutKeepsGroups ==
  ASSUME GroupsAgree, NEW x \in unplaced, NEW i, Put(x, i),
         x \in Labels => (i = 0 /\ Reviewed(x) = {}) \/ (i \in Reviewed(x) /\ Padded(x, i)),
         x \in Detections => (i = 0 /\ \A k \in DOMAIN merged : ~Scorable(x, k)) \/ Scorable(x, i)
  PROVE  GroupsAgree'
<1>1. /\ detections' = detections /\ labels' = labels /\ merged' = merged
      /\ group' = [group EXCEPT ![x] = i] /\ unplaced' = unplaced \ {x}
  BY DEF Put, arguments
<1>2. /\ Detections' = Detections /\ Labels' = Labels
      /\ \A y : Reviewed(y)' = Reviewed(y)
      /\ \A y, k : Padded(y, k)' <=> Padded(y, k)
      /\ \A y, k : Scorable(y, k)' <=> Scorable(y, k)
  BY <1>1 DEF Detections, Labels, Reviewed, Padded, Scorable, Core, Within
<1> HIDE DEF Detections, Labels, Reviewed, Padded, Scorable
<1>3. x \in DOMAIN group /\ DOMAIN group' = DOMAIN group
  BY <1>1 DEF GroupsAgree
<1>4. \A y \in DOMAIN group : group'[y] = IF y = x THEN i ELSE group[y]
  BY <1>1
<1>5. IsList(detections)' /\ IsList(labels)' /\ unplaced' \subseteq (Detections \cup Labels)'
  BY <1>1, <1>2 DEF GroupsAgree, IsList
<1>6. \A y \in unplaced' : group'[y] = 0
  BY <1>1, <1>4 DEF GroupsAgree
<1>7. \A y \in Labels \ unplaced' :
        \/ group'[y] = 0 /\ Reviewed(y) = {}
        \/ group'[y] \in Reviewed(y) /\ Padded(y, group'[y])
  BY <1>1, <1>4 DEF GroupsAgree
<1>8. \A y \in Detections \ unplaced' :
        \/ group'[y] = 0 /\ \A k \in DOMAIN merged : ~Scorable(y, k)
        \/ Scorable(y, group'[y])
  BY <1>1, <1>4 DEF GroupsAgree
<1> QED BY <1>1, <1>2, <1>3, <1>5, <1>6, <1>7, <1>8 DEF GroupsAgree

(* Every step decides about an event as its rule says. *)
LEMMA GroupsStep ==
  ASSUME EvaluationInv, EvaluationNext
  PROVE  GroupsAgree'
<1>1. GroupsAgree /\ PhasesAgree
  BY DEF EvaluationInv
<1>2. CASE Merge
  <2>1. /\ UNCHANGED <<detections, labels, unplaced, group>>
        /\ unplaced = Detections \cup Labels
    BY <1>1, <1>2 DEF Merge, arguments, PhasesAgree
  <2>2. Detections' = Detections /\ Labels' = Labels
    BY <2>1 DEF Detections, Labels
  <2> HIDE DEF Detections, Labels
  <2>3. (Labels \ unplaced)' = {} /\ (Detections \ unplaced)' = {}
    BY <2>1, <2>2
  <2> QED BY <1>1, <2>1, <2>2, <2>3 DEF GroupsAgree, IsList
<1>3. ASSUME NEW x \in unplaced, PlaceReference(x) PROVE GroupsAgree'
  <2>1. x \notin Detections
    BY <1>3, KindsDiffer DEF PlaceReference
  <2> QED BY <1>1, <1>3, <2>1, PutKeepsGroups DEF PlaceReference
<1>4. ASSUME NEW x \in unplaced, PlacePrediction(x) PROVE GroupsAgree'
  <2>1. x \notin Labels
    BY <1>1, <1>4 DEF PlacePrediction, PhasesAgree
  <2> DEFINE scorable == {i \in Reviewed(x) : Within(x.event.onset, Core(i))}
  <2>2. \A k : k \in scorable <=> Scorable(x, k)
    BY DEF Scorable
  <2>3. (scorable = {} /\ Put(x, 0)) \/ \E i \in scorable : Put(x, i)
    BY <1>4 DEF PlacePrediction
  <2> HIDE DEF scorable
  <2> QED BY <1>1, <2>1, <2>2, <2>3, PutKeepsGroups
<1>5. ASSUME NEW x \in unplaced, Reject(x) PROVE GroupsAgree'
  BY <1>1, <1>5, GroupsFrame DEF Reject, arguments, placing
<1>6. CASE EndMerge \/ EndReferences \/ EndPredictions
  BY <1>1, <1>6, GroupsFrame DEF EndMerge, EndReferences, EndPredictions, arguments, placing
<1>7. CASE NextWindow \/ MatchStep \/ EndEvaluation
  BY <1>1, <1>7, GroupsFrame DEF NextWindow, MatchStep, EndEvaluation, arguments, placing
<1> QED BY <1>2, <1>3, <1>4, <1>5, <1>6, <1>7 DEF EvaluationNext

(* A phase begins when the one before has placed all it places. *)
LEMMA PhasesStep ==
  ASSUME EvaluationInv, EvaluationNext
  PROVE  PhasesAgree'
<1>1. PhasesAgree /\ unplaced \subseteq Detections \cup Labels
  BY DEF EvaluationInv, GroupsAgree
<1>2. Detections' = Detections /\ Labels' = Labels
  <2>1. UNCHANGED <<detections, labels>>
    BY DEF EvaluationNext, Merge, EndMerge, PlaceReference, Reject, PlacePrediction, Put,
           EndReferences, EndPredictions, NextWindow, MatchStep, EndEvaluation, arguments
  <2> QED BY <2>1 DEF Detections, Labels
<1>3. CASE Merge
  BY <1>1, <1>2, <1>3 DEF Merge, PhasesAgree
<1>4. CASE EndMerge
  BY <1>1, <1>2, <1>4 DEF EndMerge, placing, PhasesAgree
<1>5. ASSUME NEW x \in unplaced, PlaceReference(x) PROVE PhasesAgree'
  <2>1. x \notin Detections
    BY <1>5, KindsDiffer DEF PlaceReference
  <2>2. phase = "references" /\ phase' = phase /\ unplaced' = unplaced \ {x}
    BY <1>5 DEF PlaceReference, Put
  <2> QED BY <1>1, <1>2, <2>1, <2>2 DEF PhasesAgree
<1>6. ASSUME NEW x \in unplaced, Reject(x) PROVE PhasesAgree'
  <2>1. x \in Labels
    BY <1>1, <1>6, KindsDiffer DEF Reject
  <2>2. /\ phase' = "rejected" /\ merged' = merged
        /\ \E i \in Reviewed(x) : ~Padded(x, i)
    BY <1>6 DEF Reject, placing
  <2>3. \E i \in Reviewed(x)' : ~Padded(x, i)'
    BY <2>2 DEF Reviewed, Padded, Core, Within
  <2> QED BY <1>2, <2>1, <2>2, <2>3 DEF PhasesAgree
<1>7. ASSUME NEW x \in unplaced, PlacePrediction(x) PROVE PhasesAgree'
  <2>1. phase = "predictions" /\ phase' = phase /\ unplaced' = unplaced \ {x}
    BY <1>7 DEF PlacePrediction, Put
  <2> QED BY <1>1, <1>2, <2>1 DEF PhasesAgree
<1>8. CASE EndReferences
  <2>1. unplaced' = unplaced /\ phase' = "predictions" /\ \A x \in unplaced : x.kind = "prediction"
    BY <1>8 DEF EndReferences, placing
  <2>2. unplaced \cap Labels = {}
    BY <2>1, KindsDiffer
  <2> QED BY <1>2, <2>1, <2>2 DEF PhasesAgree
<1>9. CASE EndPredictions
  BY <1>2, <1>9 DEF EndPredictions, placing, PhasesAgree
<1>10. CASE NextWindow \/ MatchStep \/ EndEvaluation
  <2>1. phase = "matching" /\ phase' \in {"matching", "evaluated"} /\ unplaced' = unplaced
    BY <1>10 DEF NextWindow, MatchStep, EndEvaluation, placing
  <2> QED BY <1>1, <1>2, <2>1 DEF PhasesAgree
<1> QED BY <1>3, <1>4, <1>5, <1>6, <1>7, <1>8, <1>9, <1>10 DEF EvaluationNext

(* The lists of the report grow by the events of the next window. *)
LEMMA ScoredStep ==
  ASSUME EvaluationInv, EvaluationNext
  PROVE  ScoredAgree'
<1>1. ScoredAgree /\ GroupsAgree /\ merged \in Seq(Span)
  BY DEF EvaluationInv, WindowsAgree
<1>2. Detections' = Detections /\ Labels' = Labels
  <2>1. UNCHANGED <<detections, labels>>
    BY DEF EvaluationNext, Merge, EndMerge, PlaceReference, Reject, PlacePrediction, Put,
           EndReferences, EndPredictions, NextWindow, MatchStep, EndEvaluation, arguments
  <2> QED BY <2>1 DEF Detections, Labels
<1>3. ASSUME scored' = scored, phase \notin {"matching", "evaluated"}, UNCHANGED matching,
             phase' # "evaluated", merged' \in Seq(Span)
      PROVE  ScoredAgree'
  <2>1. scored = 0 /\ predictions = {} /\ references = {}
    BY <1>1, <1>3, NoneIsPlaced DEF ScoredAgree
  <2>2. predictions' = {} /\ references' = {}
    BY <1>3, <2>1 DEF matching, lists
  <2>3. Placed(Detections, scored)' = {} /\ Placed(Labels, scored)' = {}
    BY <1>3, <2>1 DEF Placed
  <2>4. 0 \in 0..Len(merged')
    BY <1>3
  <2> QED BY <1>3, <2>1, <2>2, <2>3, <2>4 DEF ScoredAgree
<1>4. merged' \in Seq(Span)
  BY WindowsStep DEF WindowsAgree
<1>5. CASE Merge \/ EndMerge
  BY <1>3, <1>4, <1>5 DEF Merge, EndMerge
<1>6. ASSUME NEW x \in unplaced, PlaceReference(x) \/ Reject(x) \/ PlacePrediction(x)
      PROVE  ScoredAgree'
  BY <1>3, <1>4, <1>6 DEF PlaceReference, Reject, PlacePrediction, Put
<1>7. CASE EndReferences \/ EndPredictions
  BY <1>3, <1>4, <1>7 DEF EndReferences, EndPredictions
<1>8. CASE NextWindow
  <2>1. /\ scored \in Nat /\ scored < Len(merged) /\ scored' = scored + 1 /\ phase = "matching"
        /\ UNCHANGED <<merged, group, phase>>
        /\ predictions' = predictions \cup Grouped("prediction", scored + 1)
        /\ references' = references \cup Grouped("reference", scored + 1)
    BY <1>1, <1>8 DEF NextWindow, placing, ScoredAgree
  <2>2. /\ Placed(Detections, scored)' = Placed(Detections, scored + 1)
        /\ Placed(Labels, scored)' = Placed(Labels, scored + 1)
    BY <1>2, <2>1 DEF Placed
  <2>3. /\ predictions' = Placed(Detections, scored + 1)
        /\ references' = Placed(Labels, scored + 1)
    BY <1>1, <2>1, GroupedIsPlaced DEF ScoredAgree
  <2>4. scored' \in 0..Len(merged')
    BY <1>1, <2>1
  <2> QED BY <2>1, <2>2, <2>3, <2>4 DEF ScoredAgree
<1>9. CASE MatchStep
  <2>1. /\ UNCHANGED <<merged, group, phase, scored>> /\ phase = "matching"
        /\ predictions' = predictions /\ references' = references
    BY <1>9, ListsStay DEF MatchStep, placing, EvaluationInv
  <2>2. /\ Placed(Detections, scored)' = Placed(Detections, scored)
        /\ Placed(Labels, scored)' = Placed(Labels, scored)
    BY <1>2, <2>1 DEF Placed
  <2> QED BY <1>1, <2>1, <2>2 DEF ScoredAgree
<1>10. CASE EndEvaluation
  <2>1. /\ UNCHANGED <<merged, group, scored, predictions, references, restP, restR>>
        /\ phase' = "evaluated" /\ scored = Len(merged) /\ Matched
    BY <1>10 DEF EndEvaluation, placing, matching, lists
  <2>2. /\ Placed(Detections, scored)' = Placed(Detections, scored)
        /\ Placed(Labels, scored)' = Placed(Labels, scored)
    BY <1>2, <2>1 DEF Placed
  <2>3. Matched'
    BY <2>1 DEF Matched
  <2> QED BY <1>1, <2>1, <2>2, <2>3 DEF ScoredAgree
<1> QED BY <1>5, <1>6, <1>7, <1>8, <1>9, <1>10 DEF EvaluationNext

(* A match of what is scored in one window stays in it: a matching of the  *)
(* lists with the next window splits into one of the lists before and one  *)
(* of the window.                                                          *)
LEMMA MatchingsSplit ==
  ASSUME NEW P, NEW R, NEW A, NEW B, IsList(P \cup A), IsList(R \cup B),
         \A p \in P, r \in B : ~Candidate(p, r),
         \A p \in A, r \in R : ~Candidate(p, r),
         NEW N, IsMatching(N, P \cup A, R \cup B)
  PROVE  \E M, K : /\ IsMatching(M, P, R) /\ IsMatching(K, A, B)
                   /\ IsFiniteSet(M) /\ IsFiniteSet(K)
                   /\ Cardinality(N) <= Cardinality(M) + Cardinality(K)
<1> DEFINE M == N \cap (P \X R)
           K == N \cap (A \X B)
<1>1. /\ N \subseteq (P \cup A) \X (R \cup B)
      /\ \A m \in N : Candidate(m[1], m[2])
      /\ \A m, n \in N : m[1] = n[1] \/ m[2] = n[2] => m = n
  BY DEF IsMatching, OneToOne
<1>2. N = M \cup K
  <2>1. ASSUME NEW m \in N PROVE m \in M \cup K
    <3>1. m = <<m[1], m[2]>> /\ m[1] \in P \cup A /\ m[2] \in R \cup B /\ Candidate(m[1], m[2])
      BY <1>1
    <3>2. (m[1] \in P /\ m[2] \in R) \/ (m[1] \in A /\ m[2] \in B)
      BY <3>1
    <3> QED BY <3>1, <3>2
  <2> QED BY <2>1
<1>3. IsMatching(M, P, R) /\ IsMatching(K, A, B)
  BY <1>1 DEF IsMatching, OneToOne
<1>4. IsFiniteSet(N)
  BY MatchingsAreFinite
<1>5. IsFiniteSet(M) /\ IsFiniteSet(K)
  BY <1>4, FS_Subset
<1> HIDE DEF M, K
<1>6. Cardinality(N) = Cardinality(M) + Cardinality(K) - Cardinality(M \cap K)
  BY <1>2, <1>5, FS_Union
<1>7. Cardinality(M) \in Nat /\ Cardinality(K) \in Nat /\ Cardinality(M \cap K) \in Nat
  <2>1. IsFiniteSet(M \cap K)
    BY <1>5, FS_Intersection
  <2> QED BY <1>5, <2>1, FS_CardinalityType
<1>8. Cardinality(N) <= Cardinality(M) + Cardinality(K)
  BY <1>6, <1>7
<1> QED BY <1>3, <1>5, <1>8

(* The next window brings new events, and costs no match of those before.  *)
LEMMA NextWindowKeepsMatching ==
  ASSUME EvaluationInv, NextWindow
  PROVE  MatchingCore'
<1> DEFINE A == Grouped("prediction", scored + 1)
           B == Grouped("reference", scored + 1)
<1>1. /\ WindowsAgree /\ GroupsAgree /\ MatchingCore /\ unplaced = {}
      /\ scored \in Nat /\ scored < Len(merged)
      /\ restP = {} /\ restR = {}
      /\ restP' = A /\ restR' = B
      /\ predictions' = predictions \cup A /\ references' = references \cup B
      /\ UNCHANGED <<matches, falseAlarms, misses>>
  BY DEF EvaluationInv, PhasesAgree, ScoredAgree, NextWindow, Matched, result
<1>2. /\ predictions = Placed(Detections, scored) /\ references = Placed(Labels, scored)
      /\ predictions \cup A = Placed(Detections, scored + 1) /\ predictions \cap A = {}
      /\ references \cup B = Placed(Labels, scored + 1) /\ references \cap B = {}
  BY <1>1, GroupedIsPlaced DEF EvaluationInv, ScoredAgree
<1>3. IsList(predictions \cup A) /\ IsList(references \cup B)
  BY <1>1, <1>2, PlacedIsGiven, SublistsAreLists DEF GroupsAgree
<1>4. /\ \A p \in predictions, r \in B : ~Candidate(p, r)
      /\ \A p \in A, r \in references : ~Candidate(p, r)
  <2>1. ASSUME NEW p \in predictions, NEW r \in B, Candidate(p, r) PROVE FALSE
    <3>1. PICK x \in Detections : x.event = p /\ group[x] \in 1..scored
      BY <1>2 DEF Placed
    <3>2. PICK y \in Labels : y.event = r /\ group[y] = scored + 1
      BY KindsDiffer, <1>1 DEF Grouped, GroupsAgree
    <3>3. group[x] = group[y]
      BY <1>1, <2>1, <3>1, <3>2, CandidatesMeet
    <3> QED BY <1>1, <3>1, <3>2, <3>3
  <2>2. ASSUME NEW p \in A, NEW r \in references, Candidate(p, r) PROVE FALSE
    <3>1. PICK x \in Detections : x.event = p /\ group[x] = scored + 1
      BY KindsDiffer, <1>1 DEF Grouped, GroupsAgree
    <3>2. PICK y \in Labels : y.event = r /\ group[y] \in 1..scored
      BY <1>2 DEF Placed
    <3>3. group[x] = group[y]
      BY <1>1, <2>2, <3>1, <3>2, CandidatesMeet
    <3> QED BY <1>1, <3>1, <3>2, <3>3
  <2> QED BY <2>1, <2>2
<1> HIDE DEF A, B
<1>5. MatchesAreLegal'
  <2>1. IsMatching(matches, predictions, references)
    BY <1>1 DEF MatchingCore, MatchesAreLegal
  <2>2. IsMatching(matches, predictions \cup A, references \cup B)
    BY <2>1 DEF IsMatching
  <2> QED BY <1>1, <2>2 DEF MatchesAreLegal
<1>6. EventsCountOnce'
  BY <1>1, <1>2 DEF MatchingCore, EventsCountOnce
<1>7. NothingIsLost'
  <2>1. SUFFICES ASSUME NEW N, IsMatching(N, predictions \cup A, references \cup B)
                 PROVE  \E K \in SUBSET (A \X B) :
                          /\ IsMatching(K, A, B)
                          /\ Cardinality(N) <= Cardinality(matches) + Cardinality(K)
    BY <1>1 DEF NothingIsLost
  <2>2. PICK M, K : /\ IsMatching(M, predictions, references) /\ IsMatching(K, A, B)
                    /\ IsFiniteSet(M) /\ IsFiniteSet(K)
                    /\ Cardinality(N) <= Cardinality(M) + Cardinality(K)
    BY <1>3, <1>4, <2>1, MatchingsSplit
  <2>3. Cardinality(M) <= Cardinality(matches)
    <3>1. MatchesAreMaximum /\ Matched
      BY <1>1, InvImpliesMaximum DEF Matched
    <3> QED BY <2>2, <3>1 DEF MatchesAreMaximum, IsMatching
  <2>4. /\ Cardinality(M) \in Nat /\ Cardinality(K) \in Nat /\ Cardinality(N) \in Nat
        /\ Cardinality(matches) \in Nat
    BY <1>1, <1>3, <2>1, <2>2, MatchingsAreFinite, FS_CardinalityType DEF MatchingCore, MatchesAreLegal
  <2>5. Cardinality(N) <= Cardinality(matches) + Cardinality(K)
    BY <2>2, <2>3, <2>4
  <2> QED BY <2>2, <2>5 DEF IsMatching
<1> QED BY <1>1, <1>3, <1>5, <1>6, <1>7 DEF MatchingCore, IsList

(* The invariant is inductive. *)
LEMMA EvaluationNextInv == EvaluationInv /\ [EvaluationNext]_evaluation => EvaluationInv'
<1> SUFFICES ASSUME EvaluationInv, [EvaluationNext]_evaluation PROVE EvaluationInv'
  OBVIOUS
<1>1. CASE EvaluationNext
  <2>1. NextWindow => MatchingCore'
    BY NextWindowKeepsMatching
  <2>2. ~NextWindow => MatchingCore'
    <3>1. ~NextWindow => [MatchingNext]_matching
      BY <1>1 DEF EvaluationNext, Merge, EndMerge, PlaceReference, Reject, PlacePrediction, Put,
                  EndReferences, EndPredictions, MatchStep, EndEvaluation
    <3> QED BY <3>1, MatchingCoreNext DEF EvaluationInv
  <2>3. MatchingCore'
    BY <2>1, <2>2
  <2> QED BY <1>1, <2>3, WindowsStep, GroupsStep, PhasesStep, ScoredStep DEF EvaluationInv
<1>2. CASE UNCHANGED evaluation
  <2>1. UNCHANGED <<matching, arguments, placing, phase, scored>>
    BY <1>2 DEF evaluation
  <2>2. /\ UNCHANGED <<windows, detections, labels, unmerged, merged, unplaced, group, phase, scored>>
        /\ UNCHANGED <<predictions, references, restP, restR>>
    BY <2>1 DEF matching, lists, arguments, placing
  <2>3. WindowsAgree'
    BY <2>2 DEF EvaluationInv, WindowsAgree, Within
  <2>4. GroupsAgree'
    BY <2>2, GroupsFrame DEF EvaluationInv
  <2>5. Detections' = Detections /\ Labels' = Labels
    BY <2>2 DEF Detections, Labels
  <2>6. \A x : Reviewed(x)' = Reviewed(x) /\ \A i : Padded(x, i)' <=> Padded(x, i)
    BY <2>2 DEF Reviewed, Padded, Core, Within
  <2>7. PhasesAgree'
    BY <2>2, <2>5, <2>6 DEF EvaluationInv, PhasesAgree
  <2>8. ScoredAgree'
    BY <2>2, <2>5 DEF EvaluationInv, ScoredAgree, Placed, Matched
  <2>9. MatchingCore'
    BY <2>1, MatchingCoreNext DEF EvaluationInv
  <2> QED BY <2>3, <2>4, <2>7, <2>8, <2>9 DEF EvaluationInv
<1> QED BY <1>1, <1>2

-----------------------------------------------------------------------------
(* The theorems about evaluations. *)

LEMMA InvImpliesWindows == EvaluationInv => WindowsAreSound
<1> SUFFICES ASSUME EvaluationInv PROVE WindowsAreSound
  OBVIOUS
<1>1. WindowsAgree /\ GroupsAgree /\ PhasesAgree
  BY DEF EvaluationInv
<1>2. WindowsAreTheirUnion
  <2>1. \A t \in Instants : t \in Int
    <3>1. \A w \in Reviews : w[1] \in Int /\ w[2] \in Int
      BY ReviewAssumption
    <3> QED BY <3>1 DEF Instants
  <2>2. phase # "merging" => windows \ unmerged = windows
    BY <1>1 DEF WindowsAgree
  <2> QED BY <1>1, <2>1, <2>2 DEF WindowsAreTheirUnion, WindowsAgree
<1>3. CandidatesStayTogether
  BY <1>1, CandidatesMeet DEF CandidatesStayTogether, PhasesAgree
<1>4. RejectionIsJustified
  <2>1. \A r \in Labels : Reviewed(r) \subseteq DOMAIN merged
    BY DEF Reviewed
  <2>2. \A r \in Labels, i \in DOMAIN merged :
          Padded(r, i) <=> \A t \in (r.event.onset - Early)..(r.event.onset + Late) : Within(t, Core(i))
    BY <1>1, PaddedIsHorizon
  <2>3. ASSUME phase = "rejected" PROVE \E r \in Labels : \E i \in Reviewed(r) : ~Padded(r, i)
    BY <1>1, <2>3 DEF PhasesAgree
  <2>4. ASSUME phase \in {"predictions", "matching", "evaluated"},
               NEW r \in Labels, NEW i \in Reviewed(r)
        PROVE  Padded(r, i)
    <3>1. r \notin unplaced
      BY <1>1, <2>4 DEF PhasesAgree
    <3>2. group[r] \in Reviewed(r) /\ Padded(r, group[r])
      BY <1>1, <2>4, <3>1 DEF GroupsAgree
    <3>3. /\ i \in DOMAIN merged /\ Within(r.event.onset, merged[i])
          /\ group[r] \in DOMAIN merged /\ Within(r.event.onset, merged[group[r]])
      BY <3>2 DEF Reviewed
    <3>4. r.event.onset \in Int
      BY <1>1, OnsetsAreTimes
    <3>5. group[r] = i
      BY <1>1, <3>3, <3>4, OneWindow
    <3> QED BY <3>2, <3>5
  <2> DEFINE Whole(r, i) == \A t \in (r.event.onset - Early)..(r.event.onset + Late) : Within(t, Core(i))
             lacking == {r \in Labels : \E i \in Reviewed(r) : ~Whole(r, i)}
  <2>5. \A r \in Labels : \A i \in Reviewed(r) : Padded(r, i) <=> Whole(r, i)
    BY <2>1, <2>2
  <2> HIDE DEF Whole
  <2>6. phase = "rejected" => lacking # {}
    BY <2>3, <2>5
  <2>7. phase \in {"predictions", "matching", "evaluated"} => lacking = {}
    BY <2>4, <2>5
  <2> QED BY <2>6, <2>7 DEF RejectionIsJustified, Whole
<1> QED BY <1>2, <1>3, <1>4 DEF WindowsAreSound

(* A scored detection can only match labels of its own window, all of      *)
(* which are in the report.                                                *)
LEMMA InvImpliesReport == EvaluationInv => ReportIsMaximum
<1> SUFFICES ASSUME EvaluationInv, phase = "evaluated",
                    NEW N \in SUBSET (detections \X labels), IsMatching(N, detections, labels),
                    \A m \in N : m[1] \in predictions
             PROVE  Cardinality(N) <= Cardinality(matches)
  BY DEF ReportIsMaximum
<1>1. /\ WindowsAgree /\ GroupsAgree /\ unplaced = {} /\ MatchingCore /\ Matched
      /\ predictions = Placed(Detections, scored) /\ references = Placed(Labels, scored)
  BY DEF EvaluationInv, PhasesAgree, ScoredAgree
<1>2. ASSUME NEW m \in N PROVE m[2] \in references
  <2>1. m[1] \in predictions /\ m[2] \in labels /\ Candidate(m[1], m[2])
    BY DEF IsMatching
  <2>2. PICK x \in Detections : x.event = m[1] /\ group[x] \in 1..scored
    BY <1>1, <2>1 DEF Placed
  <2>3. PICK y \in Labels : y.event = m[2]
    <3>1. [kind |-> "reference", event |-> m[2]] \in Labels
      BY <2>1 DEF Labels
    <3> QED BY <3>1
  <2>4. group[x] = group[y]
    BY <1>1, <2>1, <2>2, <2>3, CandidatesMeet
  <2> QED BY <1>1, <2>2, <2>3, <2>4 DEF Placed
<1>3. IsMatching(N, predictions, references)
  BY <1>2 DEF IsMatching
<1> QED BY <1>1, <1>3, InvImpliesMaximum DEF MatchesAreMaximum, IsMatching

(* What every invariant of an evaluation follows from. *)
THEOREM EvaluationInvariance == EvaluationSpec => []EvaluationInv
BY EvaluationInitInv, EvaluationNextInv, PTL DEF EvaluationSpec

(* A detection or a validation leaves the variables of an evaluation empty.*)
LEMMA NothingIsInvariant == NothingEvaluated => EvaluationInv
<1> SUFFICES ASSUME NothingEvaluated PROVE EvaluationInv
  OBVIOUS
<1>1. /\ windows = {} /\ detections = {} /\ labels = {} /\ unmerged = {} /\ merged = <<>>
      /\ unplaced = {} /\ group = <<>> /\ phase = "none" /\ scored = 0
  BY DEF NothingEvaluated
<1>2. Detections = {} /\ Labels = {} /\ DOMAIN merged = {} /\ merged \in Seq(Span)
  BY <1>1 DEF Detections, Labels
<1>3. WindowsAgree
  BY <1>1, <1>2, FS_EmptySet DEF WindowsAgree
<1>4. GroupsAgree
  BY <1>1, <1>2, FS_EmptySet DEF GroupsAgree, IsList
<1>5. PhasesAgree
  BY <1>1, <1>2 DEF PhasesAgree
<1>6. MatchingCore /\ Matched /\ predictions = {} /\ references = {}
  BY EmptyMatching DEF NothingEvaluated
<1>7. ScoredAgree
  <2>1. Len(merged) = 0
    BY <1>1
  <2> QED BY <1>1, <1>6, <2>1, NoneIsPlaced DEF ScoredAgree
<1> QED BY <1>3, <1>4, <1>5, <1>6, <1>7 DEF EvaluationInv

(* So the invariant also holds among the other computations. *)
THEOREM AlgorithmInvariance == AlgorithmSpec => []EvaluationInv
<1>1. AlgorithmInit => EvaluationInv
  BY EvaluationInitInv, NothingIsInvariant DEF AlgorithmInit
<1>2. AlgorithmNext => [EvaluationNext]_evaluation
  BY DEF AlgorithmNext
<1>3. UNCHANGED algorithmVars => UNCHANGED evaluation
  BY DEF algorithmVars
<1> QED BY <1>1, <1>2, <1>3, EvaluationNextInv, PTL DEF AlgorithmSpec

(* Reviewed time decides what is scored, for any number of windows and     *)
(* events and any tolerances: _merged_windows keeps their union, the       *)
(* trimmed cores separate no candidate pair, and an evaluation fails only  *)
(* when a label lacks its horizon.                                         *)
THEOREM EvaluationIsSound == AlgorithmSpec => []WindowsAreSound
BY AlgorithmInvariance, InvImpliesWindows, PTL

(* The report of evaluate_events counts a maximum matching of all scored   *)
(* detections with all labels, although it matches window by window.       *)
THEOREM EvaluationIsMaximum == AlgorithmSpec => []ReportIsMaximum
BY AlgorithmInvariance, InvImpliesReport, PTL

(* In a report over several windows too, the pairs are as many as can be,  *)
(* and every scored event is counted once.                                 *)
THEOREM EvaluationIsExact == AlgorithmSpec => []MatchingIsExact
<1>1. EvaluationInv => MatchingIsExact
  BY InvImpliesMaximum DEF EvaluationInv, MatchingCore, MatchingIsExact
<1> QED BY <1>1, AlgorithmInvariance, PTL

-----------------------------------------------------------------------------
(* ExternalRecords: the audit of a batch. *)

(* Before validation nothing is counted; in validation the rows before the *)
(* next one are accounted for.                                             *)
Unvalidated ==
  rows = raw /\ records = <<>> /\ next = 1 /\ rejected = [r \in Reasons |-> 0]

Converted ==
  \/ order.kind = "file" /\ rows = raw
  \/ /\ \A i \in DOMAIN raw : Convertible(raw[i].value)
     /\ rows = [i \in DOMAIN raw |-> Scaled(raw[i])]

ValidatedSoFar ==
  /\ next \in 1..(Len(raw) + 1)
  /\ next - 1 = Len(records) + RejectedInAll
  /\ Len(records) = Cardinality(Kept(next - 1))
  /\ \A i \in Kept(next - 1) : records[Cardinality(Kept(i))] = RecordOf(raw[i])
  /\ order.kind = "rain" => \A i \in DOMAIN records : records[i].value >= 0

BatchInv ==
  /\ order.kind \in Kinds /\ order.factor \in Nat /\ (order.kind = "file" => order.factor = 1)
  /\ raw \in Seq(RawRows) /\ records \in Seq({RecordOf(row) : row \in RawRows})
  /\ rejected \in [Reasons -> Nat]
  /\ stage \in {"none", "fetch", "convert", "validate", "audited", "failed"}
  /\ stage \in {"none", "fetch", "convert", "failed"} => Unvalidated
  /\ stage = "convert" => order.kind # "file"
  /\ stage \in {"validate", "audited"} => Converted /\ ValidatedSoFar
  /\ stage = "audited" => next = Len(raw) + 1

(* A raw row is a record, and what conversion makes of it differs in the   *)
(* reading only.                                                           *)
LEMMA ScaledRow ==
  ASSUME NEW row \in RawRows, order.factor \in Nat, Convertible(row.value)
  PROVE  /\ Scaled(row).device = row.device /\ Scaled(row).metric = row.metric
         /\ Scaled(row).ts = row.ts
         /\ Scaled(row).value \in Int <=> row.value \in Int
         /\ row.value \in Int => Scaled(row).value = row.value * order.factor
<1>1. row = [device |-> row.device, metric |-> row.metric, ts |-> row.ts, value |-> row.value]
  BY RecordAssumption
<1>2. CASE row.value = NoValue
  BY <1>2, RecordAssumption DEF Scaled
<1>3. CASE row.value # NoValue
  <2>1. row.value \in Int
    BY <1>3 DEF Convertible
  <2>2. Scaled(row) = [row EXCEPT !.value = row.value * order.factor]
    BY <1>3 DEF Scaled
  <2>3. /\ Scaled(row).device = row.device /\ Scaled(row).metric = row.metric
        /\ Scaled(row).ts = row.ts /\ Scaled(row).value = row.value * order.factor
    BY <1>1, <2>2
  <2> QED BY <2>1, <2>3
<1> QED BY <1>2, <1>3

(* A row that is converted is rejected for no reason exactly when it was   *)
(* acceptable as it was received.                                          *)
LEMMA RejectionIsExact ==
  ASSUME BatchInv, stage = "validate", NEW i \in DOMAIN raw
  PROVE  /\ Rejection(rows[i]) \in Reasons \cup {"none"}
         /\ Rejection(rows[i]) = "none" <=> Acceptable(raw[i])
         /\ Acceptable(raw[i]) =>
              /\ RecordOf(raw[i]) = [asset |-> AssetOfDevice(rows[i].device), ts |-> rows[i].ts,
                                     value |-> rows[i].value, source |-> rows[i].device]
              /\ RecordOf(raw[i]).value = raw[i].value * order.factor
              /\ order.kind = "rain" => raw[i].value >= 0
<1>1. raw[i] \in RawRows /\ raw[i].metric \in BOOLEAN /\ order.factor \in Nat
  BY RecordAssumption DEF BatchInv
<1>2. /\ rows[i].device = raw[i].device /\ rows[i].metric = raw[i].metric /\ rows[i].ts = raw[i].ts
      /\ rows[i].value \in Int <=> raw[i].value \in Int
      /\ raw[i].value \in Int => rows[i].value = raw[i].value * order.factor
      /\ order.kind = "rain" /\ raw[i].value \in Int => raw[i].value >= 0
  <2>1. CASE order.kind = "file" /\ rows = raw
    <3>1. order.factor = 1
      BY <2>1 DEF BatchInv
    <3>2. raw[i].value \in Int => raw[i].value = raw[i].value * 1
      OBVIOUS
    <3> QED BY <2>1, <3>1, <3>2
  <2>2. CASE /\ \A k \in DOMAIN raw : Convertible(raw[k].value)
             /\ rows = [k \in DOMAIN raw |-> Scaled(raw[k])]
    <3>1. Convertible(raw[i].value) /\ rows[i] = Scaled(raw[i])
      BY <2>2
    <3>2. order.kind = "rain" /\ raw[i].value \in Int => raw[i].value >= 0
      BY <3>1, RecordAssumption DEF Convertible
    <3> QED BY <1>1, <3>1, <3>2, ScaledRow
  <2> QED BY <2>1, <2>2 DEF BatchInv, Converted
<1>3. Rejection(rows[i]) \in Reasons \cup {"none"}
  BY DEF Rejection, Reasons
<1>4. Rejection(rows[i]) = "none" <=> Acceptable(raw[i])
  <2> DEFINE asset == AssetOfDevice(raw[i].device)
  <2>1. AssetOfDevice(rows[i].device) = asset
    BY <1>2
  <2>2. Acceptable(raw[i]) <=>
          /\ raw[i].device # NoDevice /\ asset \in DOMAIN CityOf
          /\ order.city = NoCity \/ CityOf[asset] = order.city
          /\ raw[i].metric /\ raw[i].ts # Unreadable /\ raw[i].value \in Int
    BY DEF Acceptable
  <2> HIDE DEF asset
  <2> QED BY <1>1, <1>2, <2>1, <2>2 DEF Rejection
<1>5. Acceptable(raw[i]) => raw[i].value \in Int
  BY DEF Acceptable
<1> QED BY <1>2, <1>3, <1>4, <1>5 DEF RecordOf

(* One more row is kept, or not. *)
LEMMA KeptGrows ==
  ASSUME NEW n \in Nat
  PROVE  /\ IsFiniteSet(Kept(n)) /\ Cardinality(Kept(n)) \in Nat
         /\ Acceptable(raw[n + 1]) =>
              /\ Kept(n + 1) = Kept(n) \cup {n + 1}
              /\ Cardinality(Kept(n + 1)) = Cardinality(Kept(n)) + 1
         /\ ~Acceptable(raw[n + 1]) => Kept(n + 1) = Kept(n)
<1>1. IsFiniteSet(1..n)
  BY FS_Interval
<1>2. Kept(n) \in SUBSET (1..n)
  BY DEF Kept
<1>3. IsFiniteSet(Kept(n)) /\ Cardinality(Kept(n)) \in Nat
  BY <1>1, <1>2, FS_Subset, FS_CardinalityType
<1>4. \A k : k \in 1..(n + 1) <=> k \in 1..n \/ k = n + 1
  OBVIOUS
<1>5. (n + 1) \notin Kept(n)
  BY <1>2
<1>6. ASSUME Acceptable(raw[n + 1]) PROVE Kept(n + 1) = Kept(n) \cup {n + 1}
  BY <1>4, <1>6 DEF Kept
<1>7. ASSUME ~Acceptable(raw[n + 1]) PROVE Kept(n + 1) = Kept(n)
  BY <1>4, <1>7 DEF Kept
<1> HIDE DEF Kept
<1>8. Cardinality(Kept(n) \cup {n + 1}) = Cardinality(Kept(n)) + 1
  BY <1>3, <1>5, FS_AddElement
<1> QED BY <1>3, <1>6, <1>7, <1>8

(* A kept row has as many kept rows up to it as its record has a place.    *)
LEMMA PlacesAreBounded ==
  ASSUME NEW n \in Nat, NEW i \in Kept(n)
  PROVE  Cardinality(Kept(i)) \in 1..Cardinality(Kept(n))
<1>1. i \in 1..n
  BY DEF Kept
<1>2. i \in Kept(i) /\ Kept(i) \subseteq Kept(n)
  BY <1>1 DEF Kept
<1> HIDE DEF Kept
<1>3. IsFiniteSet(Kept(n)) /\ Cardinality(Kept(n)) \in Nat
  BY KeptGrows
<1>4. IsFiniteSet(Kept(i)) /\ Cardinality(Kept(i)) \in Nat /\ Cardinality(Kept(i)) <= Cardinality(Kept(n))
  <2>1. Kept(i) \in SUBSET Kept(n)
    BY <1>2
  <2> QED BY <1>3, <2>1, FS_Subset, FS_CardinalityType
<1>5. Cardinality(Kept(i)) # 0
  BY <1>2, <1>4, FS_EmptySet
<1> QED BY <1>3, <1>4, <1>5

(* What is validated depends on the rows received and on the counts. *)
LEMMA ValidatedFrame ==
  ASSUME ValidatedSoFar, UNCHANGED <<order, raw, next, records, rejected>>
  PROVE  ValidatedSoFar'
<1>1. /\ \A i : Kept(i)' = Kept(i)
      /\ \A r : RecordOf(r)' = RecordOf(r)
      /\ RejectedInAll' = RejectedInAll
  BY DEF Kept, Acceptable, RecordOf, RejectedInAll
<1> QED BY <1>1 DEF ValidatedSoFar

(* Whether a batch is converted depends on its rows. *)
LEMMA ConvertedFrame ==
  ASSUME Converted, UNCHANGED <<order, raw, rows>>
  PROVE  Converted'
<1>1. (\A v : Convertible(v)' <=> Convertible(v)) /\ (\A r : Scaled(r)' = Scaled(r))
  BY DEF Convertible, Scaled
<1> QED BY <1>1 DEF Converted

(* Nothing is validated before the first row. *)
LEMMA NothingValidated ==
  Unvalidated /\ Len(raw) \in Nat => ValidatedSoFar /\ rejected \in [Reasons -> Nat]
<1> SUFFICES ASSUME Unvalidated, Len(raw) \in Nat
             PROVE  ValidatedSoFar /\ rejected \in [Reasons -> Nat]
  OBVIOUS
<1>1. next = 1 /\ records = <<>> /\ rejected = [r \in Reasons |-> 0]
  BY DEF Unvalidated
<1>2. RejectedInAll = 0
  BY <1>1 DEF RejectedInAll, Reasons
<1>3. Kept(0) = {}
  BY DEF Kept
<1>4. Len(records) = 0 /\ DOMAIN records = {}
  BY <1>1
<1> QED BY <1>1, <1>2, <1>3, <1>4, FS_EmptySet DEF ValidatedSoFar

(* Receiving starts a batch with its rows as they came. *)
LEMMA ReceiveStep == BatchInv /\ Receive => BatchInv'
<1> SUFFICES ASSUME BatchInv, Receive PROVE BatchInv'
  OBVIOUS
<1>1. raw' \in Seq(RawRows)
  BY RecordAssumption DEF Receive
<1>2. /\ UNCHANGED <<order, next, records, rejected>> /\ rows' = raw'
      /\ stage' = IF order.kind = "file" THEN "validate" ELSE "convert"
      /\ Unvalidated
  BY DEF Receive, BatchInv
<1>3. Unvalidated'
  BY <1>2 DEF Unvalidated
<1>4. ValidatedSoFar' /\ (rejected \in [Reasons -> Nat])'
  <2>1. (Len(raw) \in Nat)'
    BY <1>1
  <2>2. (Unvalidated /\ Len(raw) \in Nat => ValidatedSoFar /\ rejected \in [Reasons -> Nat])'
    BY NothingValidated, PTL
  <2> QED BY <1>3, <2>1, <2>2
<1>5. stage' = "validate" => Converted'
  BY <1>2 DEF Converted
<1>6. (records \in Seq({RecordOf(row) : row \in RawRows}))'
  BY <1>2 DEF Unvalidated
<1> QED BY <1>1, <1>2, <1>3, <1>4, <1>5, <1>6 DEF BatchInv

(* Conversion takes the whole batch or none of it. *)
LEMMA ConvertStep == BatchInv /\ Convert => BatchInv'
<1> SUFFICES ASSUME BatchInv, Convert PROVE BatchInv'
  OBVIOUS
<1>1. /\ UNCHANGED <<order, raw, next, records, rejected>> /\ stage = "convert"
      /\ rows = raw /\ Unvalidated /\ raw \in Seq(RawRows)
  BY DEF Convert, BatchInv, Unvalidated
<1>2. (records \in Seq({RecordOf(row) : row \in RawRows}))'
  BY <1>1 DEF Unvalidated
<1>3. CASE \A i \in DOMAIN rows : Convertible(rows[i].value)
  <2>1. stage' = "validate" /\ rows' = [i \in DOMAIN raw |-> Scaled(raw[i])]
    BY <1>1, <1>3 DEF Convert
  <2>2. Converted'
    <3>1. (\A v : Convertible(v)' <=> Convertible(v)) /\ (\A r : Scaled(r)' = Scaled(r))
      BY <1>1 DEF Convertible, Scaled
    <3> HIDE DEF Convertible, Scaled
    <3> QED BY <1>1, <1>3, <2>1, <3>1 DEF Converted
  <2>3. ValidatedSoFar
    <3>1. Len(raw) \in Nat
      BY <1>1
    <3> QED BY <1>1, <3>1, NothingValidated
  <2>4. ValidatedSoFar'
    BY <1>1, <2>3, ValidatedFrame
  <2> QED BY <1>1, <1>2, <2>1, <2>2, <2>4 DEF BatchInv
<1>4. CASE ~(\A i \in DOMAIN rows : Convertible(rows[i].value))
  <2>1. stage' = "failed" /\ rows' = rows
    BY <1>4 DEF Convert
  <2>2. Unvalidated'
    BY <1>1, <2>1 DEF Unvalidated
  <2> QED BY <1>1, <1>2, <2>1, <2>2 DEF BatchInv
<1> QED BY <1>3, <1>4

(* Validation stores one row or counts one reason. *)
LEMMA ValidateStep == BatchInv /\ Validate => BatchInv'
<1> SUFFICES ASSUME BatchInv, Validate PROVE BatchInv'
  OBVIOUS
<1> DEFINE row == rows[next]
           new == [asset |-> AssetOfDevice(row.device), ts |-> row.ts,
                   value |-> row.value, source |-> row.device]
<1>1. /\ UNCHANGED <<order, raw, rows, stage>> /\ stage = "validate" /\ next' = next + 1
      /\ Converted /\ ValidatedSoFar /\ raw \in Seq(RawRows) /\ order.factor \in Nat
      /\ records \in Seq({RecordOf(r) : r \in RawRows}) /\ rejected \in [Reasons -> Nat]
  BY DEF Validate, BatchInv
<1>2. /\ next - 1 = Len(records) + RejectedInAll
      /\ Len(records) = Cardinality(Kept(next - 1))
      /\ \A i \in Kept(next - 1) : records[Cardinality(Kept(i))] = RecordOf(raw[i])
      /\ order.kind = "rain" => \A i \in DOMAIN records : records[i].value >= 0
  BY <1>1 DEF ValidatedSoFar
<1>3. next \in DOMAIN raw /\ next \in Nat /\ next - 1 \in Nat /\ next = (next - 1) + 1
      /\ next' \in 1..(Len(raw) + 1)
  <2>1. Len(rows) = Len(raw)
    BY <1>1 DEF Converted
  <2>2. Len(raw) \in Nat /\ DOMAIN raw = 1..Len(raw)
    BY <1>1
  <2>3. next \in 1..(Len(raw) + 1) /\ next <= Len(rows)
    BY <1>1 DEF ValidatedSoFar, Validate
  <2> QED BY <1>1, <2>1, <2>2, <2>3
<1>4. /\ Rejection(row) \in Reasons \cup {"none"}
      /\ Rejection(row) = "none" <=> Acceptable(raw[next])
      /\ Acceptable(raw[next]) =>
           /\ RecordOf(raw[next]) = new
           /\ RecordOf(raw[next]).value = raw[next].value * order.factor
           /\ order.kind = "rain" => raw[next].value >= 0
  BY <1>1, <1>3, RejectionIsExact
<1>5. Converted'
  BY <1>1 DEF Converted, Convertible, Scaled
<1>6. \A i : Kept(i)' = Kept(i)
  BY <1>1 DEF Kept, Acceptable
<1>7. \A r : RecordOf(r)' = RecordOf(r)
  BY <1>1 DEF RecordOf
<1>8. \A i \in Kept(next - 1) : Cardinality(Kept(i)) \in 1..Len(records)
  BY <1>2, <1>3, PlacesAreBounded
<1>9. Len(records) \in Nat /\ DOMAIN records = 1..Len(records)
  BY <1>1
<1>10. CASE Acceptable(raw[next])
  <2>1. records' = Append(records, new) /\ rejected' = rejected
    BY <1>4, <1>10 DEF Validate
  <2>2. /\ Kept(next) = Kept(next - 1) \cup {next}
        /\ Cardinality(Kept(next)) = Len(records) + 1
    <3> DEFINE n == next - 1
    <3>1. n \in Nat /\ n + 1 = next
      BY <1>3
    <3> HIDE DEF n
    <3>2. /\ Kept(n + 1) = Kept(n) \cup {n + 1}
          /\ Cardinality(Kept(n + 1)) = Cardinality(Kept(n)) + 1
      BY <1>10, <3>1, KeptGrows
    <3> QED BY <1>2, <3>1, <3>2 DEF n
  <2>3. new = RecordOf(raw[next]) /\ raw[next] \in RawRows
    BY <1>1, <1>3, <1>4, <1>10
  <2> HIDE DEF new
  <2>4. /\ records' \in Seq({RecordOf(r) : r \in RawRows})
        /\ Len(records') = Len(records) + 1
        /\ records'[Len(records) + 1] = new
        /\ \A i \in 1..Len(records) : records'[i] = records[i]
    <3>1. new \in {RecordOf(r) : r \in RawRows}
      BY <2>3
    <3> QED BY <1>1, <2>1, <3>1
  <2>5. RejectedInAll' = RejectedInAll
    BY <2>1 DEF RejectedInAll
  <2>6. \A i \in Kept(next) : records'[Cardinality(Kept(i))] = RecordOf(raw[i])
    <3>1. ASSUME NEW i \in Kept(next - 1) PROVE records'[Cardinality(Kept(i))] = RecordOf(raw[i])
      BY <1>2, <1>8, <2>4
    <3>2. records'[Cardinality(Kept(next))] = RecordOf(raw[next])
      BY <2>2, <2>3, <2>4
    <3> QED BY <2>2, <3>1, <3>2
  <2>7. order.kind = "rain" => \A i \in DOMAIN records' : records'[i].value >= 0
    <3>1. ASSUME order.kind = "rain" PROVE new.value >= 0
      <4>1. /\ raw[next].value \in Int /\ raw[next].value >= 0
            /\ new.value = raw[next].value * order.factor
        BY <1>4, <1>10, <2>3, <3>1 DEF Acceptable
      <4>2. \A a, b \in Nat : a * b >= 0
        OBVIOUS
      <4> QED BY <1>1, <4>1, <4>2
    <3>2. DOMAIN records' = 1..(Len(records) + 1)
      BY <2>4
    <3>3. \A i \in 1..(Len(records) + 1) : i \in 1..Len(records) \/ i = Len(records) + 1
      BY <1>9
    <3> QED BY <1>2, <1>9, <2>4, <3>1, <3>2, <3>3
  <2>8. next' - 1 = Len(records') + RejectedInAll'
    <3>1. RejectedInAll \in Int
      BY <1>1 DEF RejectedInAll, Reasons
    <3>2. next = (Len(records) + 1) + RejectedInAll
      BY <1>2, <1>3, <1>9, <3>1
    <3>3. next' - 1 = next
      BY <1>1, <1>3
    <3> QED BY <2>4, <2>5, <3>2, <3>3
  <2>9. next' - 1 = next
    BY <1>1, <1>3
  <2>10. ValidatedSoFar'
    BY <1>1, <1>3, <1>6, <1>7, <2>2, <2>4, <2>6, <2>7, <2>8, <2>9 DEF ValidatedSoFar
  <2>11. (records \in Seq({RecordOf(r) : r \in RawRows}))'
    BY <1>7, <2>4
  <2> QED BY <1>1, <1>5, <2>1, <2>10, <2>11 DEF BatchInv
<1>11. CASE ~Acceptable(raw[next])
  <2>1. records' = records /\ Rejection(row) \in Reasons
        /\ rejected' = [rejected EXCEPT ![Rejection(row)] = @ + 1]
    BY <1>4, <1>11 DEF Validate
  <2>2. rejected' \in [Reasons -> Nat]
    BY <1>1, <2>1
  <2>3. RejectedInAll' = RejectedInAll + 1
    <3> DEFINE q == Rejection(row)
    <3>1. /\ q \in Reasons /\ \A s \in Reasons : rejected[s] \in Nat
          /\ \A s \in Reasons : rejected'[s] = IF s = q THEN rejected[s] + 1 ELSE rejected[s]
      BY <1>1, <2>1
    <3> HIDE DEF q
    <3> QED BY <3>1 DEF RejectedInAll, Reasons
  <2>4. Kept(next) = Kept(next - 1)
    <3> DEFINE n == next - 1
    <3>1. n \in Nat /\ n + 1 = next
      BY <1>3
    <3> HIDE DEF n
    <3>2. Kept(n + 1) = Kept(n)
      BY <1>11, <3>1, KeptGrows
    <3> QED BY <3>1, <3>2 DEF n
  <2>5. next' - 1 = next
    BY <1>1, <1>3
  <2>6. next' - 1 = Len(records') + RejectedInAll'
    <3>1. RejectedInAll \in Int
      BY <1>1 DEF RejectedInAll, Reasons
    <3> QED BY <1>2, <1>3, <1>9, <2>1, <2>3, <2>5, <3>1
  <2>7. ValidatedSoFar'
    BY <1>1, <1>2, <1>3, <1>6, <1>7, <2>1, <2>4, <2>5, <2>6 DEF ValidatedSoFar
  <2>8. (records \in Seq({RecordOf(r) : r \in RawRows}))'
    BY <1>1, <1>7, <2>1
  <2> QED BY <1>1, <1>5, <2>2, <2>7, <2>8 DEF BatchInv
<1> QED BY <1>10, <1>11

(* The invariant is inductive. *)
LEMMA BatchNextInv == BatchInv /\ [BatchNext]_batching => BatchInv'
<1> SUFFICES ASSUME BatchInv, [BatchNext]_batching PROVE BatchInv'
  OBVIOUS
<1>1. CASE ReceiveFails
  BY <1>1 DEF ReceiveFails, BatchInv, Unvalidated, RecordOf
<1>2. CASE Audit
  <2>1. /\ UNCHANGED <<order, raw, rows, next, records, rejected>> /\ stage' = "audited"
        /\ stage = "validate" /\ next > Len(rows)
    BY <1>2 DEF Audit
  <2>2. next = Len(raw) + 1
    <3>1. Len(rows) = Len(raw) /\ Len(raw) \in Nat
      BY <2>1 DEF BatchInv, Converted
    <3>2. next \in 1..(Len(raw) + 1)
      BY <2>1 DEF BatchInv, ValidatedSoFar
    <3> QED BY <2>1, <3>1, <3>2
  <2>3. Converted' /\ ValidatedSoFar'
    BY <2>1, ConvertedFrame, ValidatedFrame DEF BatchInv
  <2>4. (records \in Seq({RecordOf(r) : r \in RawRows}))'
    BY <2>1 DEF BatchInv, RecordOf
  <2> QED BY <2>1, <2>2, <2>3, <2>4 DEF BatchInv
<1>3. CASE UNCHANGED batching
  <2>1. UNCHANGED <<order, raw, rows, stage, next, records, rejected>>
    BY <1>3 DEF batching
  <2>2. Unvalidated' <=> Unvalidated
    BY <2>1 DEF Unvalidated
  <2>3. \A r : RecordOf(r)' = RecordOf(r)
    BY <2>1 DEF RecordOf
  <2>4. (records \in Seq({RecordOf(r) : r \in RawRows}))'
    BY <2>1, <2>3 DEF BatchInv
  <2> QED BY <2>1, <2>2, <2>4, ConvertedFrame, ValidatedFrame DEF BatchInv
<1> QED BY <1>1, <1>2, <1>3, ReceiveStep, ConvertStep, ValidateStep DEF BatchNext

LEMMA InvImpliesAudit == BatchInv => AuditReconciles
<1> SUFFICES ASSUME BatchInv PROVE AuditReconciles
  OBVIOUS
<1>1. ASSUME stage = "audited" PROVE next - 1 = Len(raw)
  <2>1. Len(raw) \in Nat /\ next = Len(raw) + 1
    BY <1>1 DEF BatchInv
  <2> QED BY <2>1
<1>2. ASSUME stage = "audited" PROVE ValidatedSoFar
  BY <1>2 DEF BatchInv
<1>3. stage = "failed" => rows = raw /\ records = <<>>
  BY DEF BatchInv, Unvalidated
<1> QED BY <1>1, <1>2, <1>3 DEF AuditReconciles, ValidatedSoFar

(* The audit of an import accounts for every row received, for batches of  *)
(* any length: validate_records keeps the acceptable rows in their order,  *)
(* converted once, and counts each other row under one reason; a batch     *)
(* that cannot be converted as a whole is left as it came.                 *)
THEOREM AuditIsExact == AlgorithmSpec => []AuditReconciles
<1>1. AlgorithmInit => BatchInv
  <2>1. ASSUME BatchInit PROVE BatchInv
    <3>1. /\ order.kind \in Kinds /\ order.factor \in Nat /\ (order.kind = "file" => order.factor = 1)
      BY <2>1, RecordAssumption DEF BatchInit
    <3>2. Unvalidated /\ stage = "fetch" /\ raw = <<>>
      BY <2>1 DEF BatchInit, Unvalidated
    <3> QED BY <3>1, <3>2 DEF BatchInv, Unvalidated
  <2>2. ASSUME NothingReceived PROVE BatchInv
    <3>1. /\ order.kind \in Kinds /\ order.factor \in Nat /\ (order.kind = "file" => order.factor = 1)
      BY <2>2 DEF NothingReceived, Kinds
    <3>2. Unvalidated /\ stage = "none" /\ raw = <<>>
      BY <2>2 DEF NothingReceived, Unvalidated
    <3> QED BY <3>1, <3>2 DEF BatchInv, Unvalidated
  <2> QED BY <2>1, <2>2 DEF AlgorithmInit
<1>2. [AlgorithmNext]_algorithmVars => [BatchNext]_batching
  BY DEF AlgorithmNext, algorithmVars
<1> QED BY <1>1, <1>2, BatchNextInv, InvImpliesAudit, PTL DEF AlgorithmSpec

-----------------------------------------------------------------------------
(* Threshold events. *)

(* A data frame has finitely many rows, with integers for times and values. *)
IsFrame(df) ==
  /\ IsFiniteSet(DOMAIN df) /\ DOMAIN df \subseteq Int
  /\ \A t \in DOMAIN df : df[t] \in Int

LEMMA DetectionFacts ==
  /\ SampleTimes \subseteq Int /\ Levels \subseteq Int /\ Threshold \in Int
  /\ MaxSamples \in Nat /\ MinDuration \in Nat /\ DefaultPeriod \in Nat
  /\ MaxGap \in Nat /\ MaxGap > 0
BY DetectionAssumption

(* The least of a nonempty set of natural numbers. *)
LEMMA LeastOf ==
  ASSUME NEW T, T \subseteq Nat, T # {}
  PROVE  \E n \in T : \A m \in T : n <= m
<1>1. PICK n \in T : \A m \in T : ~(<<m, n>> \in OpToRel(<, Nat))
  BY NatLessThanWellFounded, WFMin
<1>2. \A m \in T : ~(m < n)
  BY <1>1 DEF OpToRel
<1> QED BY <1>2

(* A finite set of integers has a least and a greatest element. *)
LEMMA LeastAndGreatest ==
  ASSUME NEW S, S \subseteq Int, IsFiniteSet(S), S # {}
  PROVE  /\ Min(S) \in S /\ \A x \in S : Min(S) <= x
         /\ Max(S) \in S /\ \A x \in S : x <= Max(S)
<1> DEFINE Below(x) == {y \in S : y < x}
           Beyond(x) == {y \in S : x < y}
<1>1. \A x \in S : /\ IsFiniteSet(Below(x)) /\ Cardinality(Below(x)) \in Nat
                   /\ IsFiniteSet(Beyond(x)) /\ Cardinality(Beyond(x)) \in Nat
  BY FS_Subset, FS_CardinalityType
<1>2. PICK a \in S : \A x \in S : Cardinality(Below(a)) <= Cardinality(Below(x))
  <2> DEFINE counts == {Cardinality(Below(x)) : x \in S}
  <2>1. counts \subseteq Nat /\ counts # {}
    BY <1>1
  <2>2. PICK n \in counts : \A m \in counts : n <= m
    BY <2>1, LeastOf
  <2> QED BY <2>2
<1>3. PICK b \in S : \A x \in S : Cardinality(Beyond(b)) <= Cardinality(Beyond(x))
  <2> DEFINE counts == {Cardinality(Beyond(x)) : x \in S}
  <2>1. counts \subseteq Nat /\ counts # {}
    BY <1>1
  <2>2. PICK n \in counts : \A m \in counts : n <= m
    BY <2>1, LeastOf
  <2> QED BY <2>2
<1>4. ASSUME NEW x \in S, x < a PROVE FALSE
  <2>0. x \in Int /\ a \in Int /\ \A y \in S : y \in Int
    OBVIOUS
  <2>1. \A y \in S : y < x => y < a
    BY <1>4, <2>0
  <2>2. Below(x) \in SUBSET Below(a)
    BY <2>1
  <2>3. x \in Below(a) /\ x \notin Below(x)
    BY <1>4, <2>0
  <2>4. Below(x) # Below(a)
    BY <2>3
  <2>5. /\ IsFiniteSet(Below(a)) /\ Cardinality(Below(a)) \in Nat /\ Cardinality(Below(x)) \in Nat
        /\ Cardinality(Below(a)) <= Cardinality(Below(x))
    BY <1>1, <1>2
  <2> HIDE DEF Below
  <2>6. Cardinality(Below(x)) <= Cardinality(Below(a)) /\ Cardinality(Below(x)) # Cardinality(Below(a))
    BY <2>2, <2>4, <2>5, FS_Subset
  <2> QED BY <2>5, <2>6
<1>5. ASSUME NEW x \in S, b < x PROVE FALSE
  <2>0. x \in Int /\ b \in Int /\ \A y \in S : y \in Int
    OBVIOUS
  <2>1. \A y \in S : x < y => b < y
    BY <1>5, <2>0
  <2>2. Beyond(x) \in SUBSET Beyond(b)
    BY <2>1
  <2>3. x \in Beyond(b) /\ x \notin Beyond(x)
    BY <1>5, <2>0
  <2>4. Beyond(x) # Beyond(b)
    BY <2>3
  <2>5. /\ IsFiniteSet(Beyond(b)) /\ Cardinality(Beyond(b)) \in Nat /\ Cardinality(Beyond(x)) \in Nat
        /\ Cardinality(Beyond(b)) <= Cardinality(Beyond(x))
    BY <1>1, <1>3
  <2> HIDE DEF Beyond
  <2>6. Cardinality(Beyond(x)) <= Cardinality(Beyond(b)) /\ Cardinality(Beyond(x)) # Cardinality(Beyond(b))
    BY <2>2, <2>4, <2>5, FS_Subset
  <2> QED BY <2>5, <2>6
<1>6. \A x \in S : a <= x /\ x <= b
  BY <1>4, <1>5
<1> QED BY <1>6 DEF Min, Max

(* The row above another is the last one before it. *)
LEMMA RowAbove ==
  ASSUME NEW df, IsFrame(df), NEW t \in DOMAIN df, Earlier(df, t) # {}
  PROVE  /\ Max(Earlier(df, t)) \in DOMAIN df /\ Max(Earlier(df, t)) \in Int
         /\ Max(Earlier(df, t)) < t
         /\ \A u \in DOMAIN df : u < t => u <= Max(Earlier(df, t))
         /\ Gap(df, t) \in Nat /\ Gap(df, t) > 0
<1>1. Earlier(df, t) \in SUBSET DOMAIN df /\ Earlier(df, t) \subseteq Int /\ t \in Int
  BY DEF IsFrame, Earlier
<1>2. IsFiniteSet(Earlier(df, t))
  BY <1>1, FS_Subset DEF IsFrame
<1> DEFINE p == Max(Earlier(df, t))
<1>3. p \in Earlier(df, t) /\ \A x \in Earlier(df, t) : x <= p
  BY <1>1, <1>2, LeastAndGreatest
<1> HIDE DEF p
<1>4. p \in DOMAIN df /\ p \in Int /\ p < t
  BY <1>1, <1>3 DEF Earlier
<1>5. \A u \in DOMAIN df : u < t => u <= p
  BY <1>3 DEF Earlier
<1>6. t - p \in Nat /\ t - p > 0
  BY <1>1, <1>4
<1> QED BY <1>4, <1>5, <1>6 DEF Gap, p

(* The rows from i to j are at or above the threshold, without an outage. *)
Linked(df, i, j) ==
  /\ i <= j
  /\ \A u \in DOMAIN df :
       (i <= u /\ u <= j) => Above(df, u) /\ (i < u => Gap(df, u) <= MaxGap)

(* No episode begins between two rows that are linked, and one begins      *)
(* between two that are not.                                               *)
LEMMA LinkedRows ==
  ASSUME NEW df, IsFrame(df), NEW i \in DOMAIN df, NEW j \in DOMAIN df,
         i <= j, Above(df, i)
  PROVE  Linked(df, i, j) <=>
           (Above(df, j) /\ \A u \in DOMAIN df : (i < u /\ u <= j) => ~NewEpisode(df, u))
<1> DEFINE between == {u \in DOMAIN df : i < u /\ u <= j}
           prev(u) == Max(Earlier(df, u))
<1>0. \A u \in DOMAIN df : u \in Int
  BY DEF IsFrame
<1>1. ASSUME NEW u \in between
      PROVE  /\ Earlier(df, u) # {}
             /\ prev(u) \in DOMAIN df /\ i <= prev(u) /\ prev(u) < u /\ prev(u) <= j
             /\ Gap(df, u) \in Nat
  <2>1. i \in Earlier(df, u)
    BY DEF Earlier
  <2>2. u \in DOMAIN df
    OBVIOUS
  <2> QED BY <1>0, <2>1, <2>2, RowAbove
<1> HIDE DEF prev
<1>2. ASSUME Linked(df, i, j), NEW u \in between PROVE ~NewEpisode(df, u)
  <2>1. Above(df, u) /\ Gap(df, u) <= MaxGap
    <3>1. u \in DOMAIN df /\ i <= u /\ u <= j /\ i < u
      BY <1>0
    <3> QED BY <1>2, <3>1 DEF Linked
  <2>2. Above(df, prev(u))
    BY <1>0, <1>1, <1>2 DEF Linked
  <2>3. Above(df, u) = Above(df, prev(u))
    BY <2>1, <2>2 DEF Above
  <2>4. ~(Gap(df, u) > MaxGap)
    BY <1>1, <2>1, DetectionFacts
  <2> QED BY <1>1, <2>3, <2>4 DEF NewEpisode, prev
<1>3. ASSUME Above(df, j), \A u \in between : ~NewEpisode(df, u)
      PROVE  Linked(df, i, j)
  <2>1. \A u \in between : /\ Above(df, u) = Above(df, prev(u))
                           /\ ~(Gap(df, u) > MaxGap)
    BY <1>1, <1>3 DEF NewEpisode, prev
  <2> DEFINE lost == {u \in between : ~Above(df, u)}
  <2>2. ASSUME lost # {} PROVE FALSE
    <3>1. lost \subseteq Int /\ lost \in SUBSET DOMAIN df
      BY <1>0
    <3>2. IsFiniteSet(lost)
      BY <3>1, FS_Subset DEF IsFrame
    <3>3. PICK u \in lost : \A x \in lost : u <= x
      BY <2>2, <3>1, <3>2, LeastAndGreatest
    <3>4. u \in between /\ ~Above(df, u)
      BY <3>3
    <3>5. ~Above(df, prev(u))
      BY <2>1, <3>4
    <3>6. prev(u) \in between
      BY <1>0, <1>1, <3>4, <3>5
    <3>7. prev(u) < u /\ u \in Int /\ prev(u) \in Int
      BY <1>0, <1>1, <3>4
    <3> QED BY <3>3, <3>5, <3>6, <3>7
  <2>3. \A u \in between : Above(df, u) /\ Gap(df, u) <= MaxGap
    BY <1>1, <2>1, <2>2, DetectionFacts
  <2> QED BY <1>0, <2>3 DEF Linked
<1>4. Linked(df, i, j) => Above(df, j)
  <2>1. i <= j /\ j <= j
    BY <1>0
  <2> QED BY <2>1 DEF Linked
<1> QED BY <1>2, <1>3, <1>4

(* Rows of one episode are linked, and linked rows are of one episode. *)
LEMMA EpisodesAreLinked ==
  ASSUME NEW df, IsFrame(df), NEW i \in DOMAIN df, NEW j \in DOMAIN df,
         i <= j, Above(df, i), Above(df, j)
  PROVE  (EpisodeId(df, i) = EpisodeId(df, j)) <=> Linked(df, i, j)
<1> DEFINE begun(t) == {u \in DOMAIN df : u <= t /\ NewEpisode(df, u)}
<1>0. \A u \in DOMAIN df : u \in Int
  BY DEF IsFrame
<1>1. begun(i) \in SUBSET begun(j) /\ begun(j) \in SUBSET DOMAIN df
  BY <1>0
<1>2. IsFiniteSet(begun(i)) /\ IsFiniteSet(begun(j))
  BY <1>1, FS_Subset DEF IsFrame
<1>3. Cardinality(begun(i)) = Cardinality(begun(j)) => begun(i) = begun(j)
  <2> HIDE DEF begun
  <2> QED BY <1>1, <1>2, FS_Subset
<1>4. (begun(i) = begun(j)) <=> \A u \in DOMAIN df : (i < u /\ u <= j) => ~NewEpisode(df, u)
  BY <1>0
<1> QED BY <1>3, <1>4, LinkedRows DEF EpisodeId

(* The times from the first to the last of T are T, and linked. *)
IsRun(df, T) ==
  /\ T \in SUBSET DOMAIN df /\ T # {}
  /\ T = {t \in DOMAIN df : Min(T) <= t /\ t <= Max(T)}
  /\ Linked(df, Min(T), Max(T))

(* Parts of what is linked are linked. *)
LEMMA LinkedParts ==
  ASSUME NEW df, IsFrame(df), NEW a \in DOMAIN df, NEW b \in DOMAIN df, Linked(df, a, b),
         NEW i \in DOMAIN df, NEW j \in DOMAIN df, a <= i, i <= j, j <= b
  PROVE  Linked(df, i, j) /\ Above(df, i) /\ Above(df, j)
<1>0. \A u \in DOMAIN df : u \in Int
  BY DEF IsFrame
<1>1. \A u \in DOMAIN df : (i <= u /\ u <= j) => (a <= u /\ u <= b /\ (i < u => a < u))
  BY <1>0
<1>2. i <= i /\ j <= j
  BY <1>0
<1> QED BY <1>1, <1>2 DEF Linked

LEMMA FrameParts ==
  ASSUME NEW df, IsFrame(df), NEW T \in SUBSET DOMAIN df, T # {}
  PROVE  /\ Min(T) \in T /\ Max(T) \in T /\ Min(T) \in Int /\ Max(T) \in Int
         /\ Min(T) <= Max(T)
         /\ \A t \in T : t \in Int /\ Min(T) <= t /\ t <= Max(T)
<1>1. T \subseteq Int /\ IsFiniteSet(T)
  BY FS_Subset DEF IsFrame
<1> QED BY <1>1, LeastAndGreatest

(* All rows of a run are of one episode. *)
LEMMA RunIsOneEpisode ==
  ASSUME NEW df, IsFrame(df), NEW T, IsRun(df, T), NEW i \in T, NEW j \in T
  PROVE  Above(df, i) /\ Above(df, j) /\ EpisodeId(df, i) = EpisodeId(df, j)
<1>1. /\ T \in SUBSET DOMAIN df /\ i \in DOMAIN df /\ j \in DOMAIN df
      /\ Linked(df, Min(T), Max(T))
  BY DEF IsRun
<1>2. /\ Min(T) \in DOMAIN df /\ Max(T) \in DOMAIN df
      /\ i \in Int /\ j \in Int /\ Min(T) <= i /\ i <= Max(T) /\ Min(T) <= j /\ j <= Max(T)
  BY <1>1, FrameParts
<1>3. CASE i <= j
  <2>1. Linked(df, i, j) /\ Above(df, i) /\ Above(df, j)
    BY <1>1, <1>2, <1>3, LinkedParts
  <2> QED BY <1>1, <1>3, <2>1, EpisodesAreLinked
<1>4. CASE j <= i
  <2>1. Linked(df, j, i) /\ Above(df, i) /\ Above(df, j)
    BY <1>1, <1>2, <1>4, LinkedParts
  <2> QED BY <1>1, <1>4, <2>1, EpisodesAreLinked
<1> QED BY <1>2, <1>3, <1>4

(* The rows at or above the threshold that are of the episode of j. *)
GroupOf(df, j) ==
  LET above == {t \in DOMAIN df : Above(df, t)}
  IN  {t \in above : EpisodeId(df, t) = EpisodeId(df, j)}

LEMMA GroupsByRow ==
  ASSUME NEW df
  PROVE  \A G : G \in Groups(df) <=> \E j \in DOMAIN df : Above(df, j) /\ G = GroupOf(df, j)
BY DEF Groups, GroupOf

LEMMA GroupIsRun ==
  ASSUME NEW df, IsFrame(df), NEW j \in DOMAIN df, Above(df, j)
  PROVE  j \in GroupOf(df, j) /\ IsRun(df, GroupOf(df, j))
<1> DEFINE G == GroupOf(df, j)
<1>1. G \in SUBSET DOMAIN df /\ j \in G /\ G # {}
  BY DEF GroupOf
<1>2. \A t \in G : Above(df, t) /\ EpisodeId(df, t) = EpisodeId(df, j)
  BY DEF GroupOf
<1> HIDE DEF G
<1>3. /\ Min(G) \in G /\ Max(G) \in G /\ Min(G) \in Int /\ Max(G) \in Int
      /\ Min(G) <= Max(G) /\ Min(G) \in DOMAIN df /\ Max(G) \in DOMAIN df
      /\ \A t \in G : t \in Int /\ Min(G) <= t /\ t <= Max(G)
  BY <1>1, FrameParts
<1>4. PICK a, b : a = Min(G) /\ b = Max(G)
  OBVIOUS
<1>5. Linked(df, a, b)
  <2>1. a \in DOMAIN df /\ b \in DOMAIN df /\ a <= b
    BY <1>3, <1>4
  <2>2. Above(df, a) /\ Above(df, b) /\ EpisodeId(df, a) = EpisodeId(df, b)
    BY <1>2, <1>3, <1>4
  <2> QED BY <2>1, <2>2, EpisodesAreLinked
<1>6. ASSUME NEW t \in DOMAIN df, a <= t, t <= b PROVE t \in G
  <2>1. a \in DOMAIN df /\ b \in DOMAIN df /\ a <= a /\ a \in G
    BY <1>3, <1>4
  <2>2. Linked(df, a, t) /\ Above(df, a) /\ Above(df, t)
    BY <1>5, <1>6, <2>1, LinkedParts
  <2>3. EpisodeId(df, a) = EpisodeId(df, t)
    BY <1>6, <2>1, <2>2, EpisodesAreLinked
  <2>4. EpisodeId(df, t) = EpisodeId(df, j)
    BY <1>2, <2>1, <2>3
  <2> QED BY <2>2, <2>4 DEF G, GroupOf
<1>7. G = {t \in DOMAIN df : a <= t /\ t <= b}
  BY <1>1, <1>3, <1>4, <1>6
<1>8. IsRun(df, G)
  BY <1>1, <1>4, <1>5, <1>7 DEF IsRun
<1> QED BY <1>1, <1>8 DEF G

(* The groups of rows are the maximal runs. *)
LEMMA GroupsAreMaximalRuns ==
  ASSUME NEW df, IsFrame(df)
  PROVE  \A T : T \in Groups(df) <=>
                  (IsRun(df, T) /\ \A U : (IsRun(df, U) /\ T \subseteq U) => U = T)
<1>1. ASSUME NEW T, IsRun(df, T), NEW j \in T
      PROVE  Above(df, j) /\ j \in DOMAIN df /\ T \subseteq GroupOf(df, j)
  <2>1. T \in SUBSET DOMAIN df
    BY <1>1 DEF IsRun
  <2>2. ASSUME NEW i \in T PROVE i \in GroupOf(df, j)
    <3>1. Above(df, i) /\ EpisodeId(df, i) = EpisodeId(df, j)
      BY <1>1, RunIsOneEpisode
    <3> QED BY <2>1, <3>1 DEF GroupOf
  <2>3. Above(df, j)
    BY <1>1, RunIsOneEpisode
  <2> QED BY <2>1, <2>2, <2>3
<1>2. ASSUME NEW T \in Groups(df)
      PROVE  IsRun(df, T) /\ \A U : (IsRun(df, U) /\ T \subseteq U) => U = T
  <2>1. PICK j \in DOMAIN df : Above(df, j) /\ T = GroupOf(df, j)
    BY <1>2, GroupsByRow
  <2>2. j \in T /\ IsRun(df, T)
    BY <2>1, GroupIsRun
  <2>3. ASSUME NEW U, IsRun(df, U), T \subseteq U PROVE U \subseteq T
    BY <1>1, <2>1, <2>2, <2>3
  <2> QED BY <2>2, <2>3
<1>3. ASSUME NEW T, IsRun(df, T), \A U : (IsRun(df, U) /\ T \subseteq U) => U = T
      PROVE  T \in Groups(df)
  <2>1. PICK j \in T : TRUE
    BY <1>3 DEF IsRun
  <2>2. Above(df, j) /\ j \in DOMAIN df /\ T \subseteq GroupOf(df, j)
    BY <1>1, <1>3
  <2>3. IsRun(df, GroupOf(df, j))
    BY <2>2, GroupIsRun
  <2>4. T = GroupOf(df, j)
    BY <1>3, <2>2, <2>3
  <2> QED BY <2>2, <2>4, GroupsByRow
<1> QED BY <1>2, <1>3

(* The sample period is not negative, and never longer than the limits. *)
LEMMA PeriodIsBounded ==
  ASSUME NEW df, IsFrame(df)
  PROVE  /\ SamplePeriod(df) \in Int /\ 0 <= SamplePeriod(df)
         /\ SamplePeriod(df) <= 2 * Max({MaxGap, DefaultPeriod})
<1> DEFINE C == Cadence(df)
           n == Cardinality(C)
           gaps == {Gap(df, t) : t \in C}
           upto(g) == {t \in C : Gap(df, t) <= g}
<1>1. C \in SUBSET DOMAIN df
  BY DEF Cadence
<1>2. IsFiniteSet(C) /\ n \in Nat
  BY <1>1, FS_Subset, FS_CardinalityType DEF IsFrame
<1>3. \A t \in C : Gap(df, t) \in Nat /\ 0 < Gap(df, t) /\ Gap(df, t) <= MaxGap
  BY RowAbove DEF Cadence
<1>4. PICK L : L = Max({MaxGap, DefaultPeriod})
  OBVIOUS
<1>5. L \in Nat /\ MaxGap <= L /\ DefaultPeriod <= L
  <2>1. \E x \in {MaxGap, DefaultPeriod} : \A y \in {MaxGap, DefaultPeriod} : x >= y
    BY DetectionFacts
  <2> QED BY <1>4, <2>1, DetectionFacts DEF Max
<1>6. ASSUME NEW k \in Nat, k <= n, n > 0
      PROVE  NthGap(df, k) \in Nat /\ NthGap(df, k) <= L
  <2> DEFINE candidates == {g \in gaps : Cardinality(upto(g)) >= k}
  <2>1. gaps \subseteq Int /\ IsFiniteSet(gaps)
    <3> DEFINE f == [t \in C |-> Gap(df, t)]
    <3>0. f \in Surjection(C, gaps)
      BY DEF Surjection
    <3> HIDE DEF f, gaps, C
    <3>1. IsFiniteSet(gaps)
      BY <1>2, <3>0, FS_Surjection
    <3> USE DEF gaps
    <3> QED BY <1>3, <3>1
  <2>2. C # {}
    <3>1. C = {} => n = 0
      BY FS_EmptySet
    <3> QED BY <1>6, <3>1
  <2>3. Max(gaps) \in gaps /\ \A g \in gaps : g <= Max(gaps)
    <3>1. gaps # {}
      BY <2>2
    <3> HIDE DEF gaps
    <3> QED BY <2>1, <3>1, LeastAndGreatest
  <2>4. upto(Max(gaps)) = C
    BY <2>3
  <2>5. candidates # {} /\ candidates \in SUBSET gaps
    BY <1>6, <2>3, <2>4
  <2>6. IsFiniteSet(candidates) /\ candidates \subseteq Int
    BY <2>1, <2>5, FS_Subset
  <2>7. Min(candidates) \in gaps
    BY <2>5, <2>6, LeastAndGreatest
  <2>8. NthGap(df, k) = Min(candidates)
    BY DEF NthGap
  <2> HIDE DEF candidates
  <2>9. PICK t \in C : NthGap(df, k) = Gap(df, t)
    BY <2>7, <2>8
  <2> QED BY <1>3, <1>5, <2>9, DetectionFacts
<1>7. CASE n = 0
  BY <1>4, <1>5, <1>7, DetectionFacts DEF SamplePeriod
<1>8. CASE n > 0
  <2>1. (n + 1) \div 2 \in Nat /\ (n + 1) \div 2 <= n /\ n \div 2 + 1 \in Nat /\ n \div 2 + 1 <= n
    BY <1>2, <1>8
  <2>2. PICK p, q : p = NthGap(df, (n + 1) \div 2) /\ q = NthGap(df, n \div 2 + 1)
    OBVIOUS
  <2>3. p \in Nat /\ p <= L /\ q \in Nat /\ q <= L
    BY <1>6, <1>8, <2>1, <2>2
  <2>4. SamplePeriod(df) = p + q
    BY <1>8, <2>2 DEF SamplePeriod
  <2> QED BY <1>4, <1>5, <2>3, <2>4
<1> QED BY <1>2, <1>7, <1>8

(* What is read: samples in any order. *)
IsReading(read) == \E n \in Nat : read \in [1..n -> SampleTimes \X Levels]

LEMMA FrameOfReading ==
  ASSUME NEW read, IsReading(read)
  PROVE  /\ IsFrame(Deduplicated(read)) /\ DOMAIN Deduplicated(read) = TimesIn(read)
         /\ \A t \in TimesIn(read) : Deduplicated(read)[t] = ValueAt(read, t)
<1>1. PICK n \in Nat : read \in [1..n -> SampleTimes \X Levels]
  BY DEF IsReading
<1>2. \A i \in 1..n : read[i][1] \in Int /\ read[i][2] \in Int
  BY <1>1, DetectionFacts
<1>3. IsFiniteSet(1..n)
  BY FS_Interval
<1>4. IsFiniteSet(TimesIn(read))
  <2> DEFINE f == [i \in 1..n |-> read[i][1]]
  <2>1. f \in Surjection(1..n, TimesIn(read))
    BY <1>1 DEF Surjection, TimesIn
  <2> HIDE DEF f
  <2> QED BY <1>3, <2>1, FS_Surjection
<1>5. TimesIn(read) \subseteq Int
  BY <1>1, <1>2 DEF TimesIn
<1>6. ASSUME NEW t \in TimesIn(read) PROVE ValueAt(read, t) \in Int
  <2> DEFINE places == {i \in DOMAIN read : read[i][1] = t}
  <2>1. places \in SUBSET (1..n) /\ places # {}
    BY <1>1 DEF TimesIn
  <2>2. places \subseteq Int /\ IsFiniteSet(places)
    BY <1>3, <2>1, FS_Subset
  <2> HIDE DEF places
  <2>3. Max(places) \in 1..n
    BY <2>1, <2>2, LeastAndGreatest
  <2>4. ValueAt(read, t) = read[Max(places)][2]
    BY DEF ValueAt, places
  <2> QED BY <1>2, <2>3, <2>4
<1> QED BY <1>4, <1>5, <1>6 DEF IsFrame, Deduplicated

(* The times of an episode, as the property describes them, are a run. *)
LEMMA SustainedIsRun ==
  ASSUME IsReading(observations), NEW T \in SUBSET TimesIn(observations), T # {}
  PROVE  Sustained(T) <=> IsRun(Deduplicated(observations), T)
<1> DEFINE df == Deduplicated(observations)
           all == TimesIn(observations)
           Near(t) == \E u \in T : t < u /\ u <= t + MaxGap
<1>1. /\ IsFrame(df) /\ DOMAIN df = all
      /\ \A t \in all : df[t] = ValueAt(observations, t)
  BY FrameOfReading
<1>2. Sustained(T) <=> /\ T = {t \in all : Min(T) <= t /\ t <= Max(T)}
                       /\ \A t \in T : Above(df, t)
                       /\ \A t \in T \ {Max(T)} : Near(t)
  BY <1>1 DEF Sustained, Above
<1> HIDE DEF df, all
<1>3. T \in SUBSET DOMAIN df /\ \A t \in DOMAIN df : t \in Int
  BY <1>1 DEF all, IsFrame
<1>4. PICK a, b : a = Min(T) /\ b = Max(T)
  OBVIOUS
<1>5. /\ a \in T /\ b \in T /\ a \in Int /\ b \in Int /\ a <= b
      /\ \A t \in T : t \in Int /\ a <= t /\ t <= b
  BY <1>1, <1>3, <1>4, FrameParts
<1>6. ASSUME T = {t \in DOMAIN df : a <= t /\ t <= b}, \A t \in T : Above(df, t)
      PROVE  (\A t \in T \ {b} : Near(t)) <=> Linked(df, a, b)
  <2>1. ASSUME \A t \in T \ {b} : Near(t), NEW u \in T, a < u
        PROVE  Gap(df, u) <= MaxGap
    <3>1. u \in DOMAIN df /\ u \in Int /\ a \in Earlier(df, u)
      BY <1>3, <1>5, <2>1 DEF Earlier
    <3>2. PICK p : p = Max(Earlier(df, u))
      OBVIOUS
    <3>3. /\ p \in DOMAIN df /\ p \in Int /\ p < u /\ \A x \in DOMAIN df : x < u => x <= p
          /\ Gap(df, u) = u - p
      BY <1>1, <3>1, <3>2, RowAbove DEF Gap
    <3>4. a <= p /\ p < b
      BY <1>3, <1>5, <2>1, <3>1, <3>3
    <3>5. p \in T \ {b}
      BY <1>5, <1>6, <3>3, <3>4
    <3>6. PICK v \in T : p < v /\ v <= p + MaxGap
      BY <2>1, <3>5
    <3>7. v \in Int /\ v \in DOMAIN df /\ ~(v < u)
      BY <1>3, <1>5, <3>3, <3>6
    <3> QED BY <3>1, <3>3, <3>6, <3>7, DetectionFacts
  <2>2. ASSUME \A u \in T : a < u => Gap(df, u) <= MaxGap, NEW t \in T \ {b}
        PROVE  Near(t)
    <3> DEFINE later == {u \in T : t < u}
    <3>1. later \in SUBSET DOMAIN df /\ b \in later /\ t \in DOMAIN df /\ t \in Int
      BY <1>3, <1>5
    <3>2. PICK u : u = Min(later)
      OBVIOUS
    <3>3. u \in later /\ u \in Int /\ \A x \in later : u <= x
      BY <1>1, <3>1, <3>2, FrameParts
    <3>4. u \in T /\ t < u /\ a < u /\ t \in Earlier(df, u) /\ u \in DOMAIN df
      BY <1>3, <1>5, <3>1, <3>3 DEF Earlier
    <3>5. PICK p : p = Max(Earlier(df, u))
      OBVIOUS
    <3>6. /\ p \in DOMAIN df /\ p \in Int /\ p < u /\ t <= p
          /\ Gap(df, u) = u - p
      BY <1>1, <3>1, <3>4, <3>5, RowAbove DEF Gap
    <3>7. p = t
      <4>1. a <= p /\ p <= b
        BY <1>5, <3>1, <3>3, <3>4, <3>6
      <4>2. p \in T
        BY <1>6, <3>6, <4>1
      <4>3. ~(t < p)
        BY <3>3, <3>6, <4>2
      <4> QED BY <3>1, <3>6, <4>3
    <3>8. u - t <= MaxGap
      BY <2>2, <3>4, <3>6, <3>7
    <3>9. u <= t + MaxGap
      BY <3>1, <3>3, <3>8, DetectionFacts
    <3> QED BY <3>4, <3>9
  <2>3. Linked(df, a, b) <=> \A u \in T : a < u => Gap(df, u) <= MaxGap
    BY <1>5, <1>6 DEF Linked
  <2> QED BY <2>1, <2>2, <2>3
<1>7. Linked(df, a, b) /\ T = {t \in DOMAIN df : a <= t /\ t <= b} => \A t \in T : Above(df, t)
  BY DEF Linked
<1>8. Sustained(T) <=> IsRun(df, T)
  BY <1>1, <1>2, <1>3, <1>4, <1>6, <1>7 DEF IsRun
<1> QED BY <1>8 DEF df

(* What a detection has found. *)
DetectionInv ==
  /\ IsReading(observations)
  /\ detected =>
       episodes = {e \in {Event(Deduplicated(observations), G) : G \in Groups(Deduplicated(observations))} :
                     e.length >= 2 * MinDuration}

LEMMA DetectionInitInv == DetectionInit \/ NothingDetected => DetectionInv
<1>1. DetectionInit => DetectionInv
  <2>1. DetectionInit => IsReading(observations)
    BY DetectionFacts DEF DetectionInit, IsReading
  <2> QED BY <2>1 DEF DetectionInit, DetectionInv
<1>2. NothingDetected => DetectionInv
  <2> SUFFICES ASSUME NothingDetected PROVE DetectionInv
    OBVIOUS
  <2>1. observations \in [1..0 -> SampleTimes \X Levels]
    BY DEF NothingDetected
  <2>2. TimesIn(observations) = {}
    BY DEF NothingDetected, TimesIn
  <2>3. Groups(Deduplicated(observations)) = {}
    BY <2>2 DEF Groups, Deduplicated
  <2> QED BY <2>1, <2>3 DEF NothingDetected, DetectionInv, IsReading
<1> QED BY <1>1, <1>2

LEMMA DetectionNextInv == DetectionInv /\ [Detect]_detection => DetectionInv'
<1>1. DetectionInv /\ Detect => DetectionInv'
  BY DEF DetectionInv, Detect
<1>2. DetectionInv /\ UNCHANGED detection => DetectionInv'
  BY DEF DetectionInv, detection
<1> QED BY <1>1, <1>2

LEMMA InvImpliesMaximal == DetectionInv => EpisodesAreMaximal
<1> SUFFICES ASSUME DetectionInv, detected PROVE EpisodesAreMaximal
  BY DEF EpisodesAreMaximal
<1> DEFINE df == Deduplicated(observations)
           all == (SUBSET TimesIn(observations)) \ {{}}
           maximal == {T \in all : Sustained(T) /\ \A U \in all : Sustained(U) /\ T \subseteq U => U = T}
           reported(T) == \E e \in episodes : e.first = Min(T) /\ e.last = Max(T)
<1>1. IsReading(observations)
  BY DEF DetectionInv
<1>2. /\ IsFrame(df) /\ DOMAIN df = TimesIn(observations)
      /\ \A t \in TimesIn(observations) : df[t] = ValueAt(observations, t)
  BY <1>1, FrameOfReading
<1>3. \A T : T \in all => (Sustained(T) <=> IsRun(df, T))
  BY <1>1, SustainedIsRun
<1>4. \A T : IsRun(df, T) => T \in all
  BY <1>2 DEF IsRun
<1> HIDE DEF df
<1>5. maximal = Groups(df)
  <2>1. \A T : T \in maximal <=>
                 (IsRun(df, T) /\ \A U : (IsRun(df, U) /\ T \subseteq U) => U = T)
    BY <1>3, <1>4
  <2> QED BY <1>2, <2>1, GroupsAreMaximalRuns
<1>6. episodes = {e \in {Event(df, G) : G \in Groups(df)} : e.length >= 2 * MinDuration}
  BY DEF DetectionInv, df
<1>7. \A T \in maximal : T \in SUBSET DOMAIN df /\ T # {}
  BY <1>2
<1> HIDE DEF maximal
<1>8. PICK L : L = Max({MaxGap, DefaultPeriod})
  OBVIOUS
<1>9. PICK P : P = SamplePeriod(df)
  OBVIOUS
<1>10. P \in Int /\ 0 <= P /\ P <= 2 * L
  BY <1>2, <1>8, <1>9, PeriodIsBounded
<1>11. L \in Nat
  <2>1. \E x \in {MaxGap, DefaultPeriod} : \A y \in {MaxGap, DefaultPeriod} : x >= y
    BY DetectionFacts
  <2> QED BY <1>8, <2>1, DetectionFacts DEF Max
<1>12. ASSUME NEW T \in maximal
       PROVE  /\ Event(df, T).first = Min(T) /\ Event(df, T).last = Max(T)
              /\ Event(df, T).length = 2 * (Max(T) - Min(T)) + P
              /\ Event(df, T).value = Max({ValueAt(observations, t) : t \in T})
              /\ Min(T) \in Int /\ Max(T) \in Int
  <2>1. Min(T) \in Int /\ Max(T) \in Int
    BY <1>2, <1>7, FrameParts
  <2>2. {df[t] : t \in T} = {ValueAt(observations, t) : t \in T}
    BY <1>2, <1>7
  <2> QED BY <1>9, <2>1, <2>2 DEF Event
<1>13. \A e \in episodes : \E T \in maximal :
         /\ e.first = Min(T) /\ e.last = Max(T)
         /\ e.value = Max({ValueAt(observations, t) : t \in T})
         /\ e.length >= 2 * MinDuration
  <2>1. SUFFICES ASSUME NEW e \in episodes
        PROVE  \E T \in maximal :
                 /\ e.first = Min(T) /\ e.last = Max(T)
                 /\ e.value = Max({ValueAt(observations, t) : t \in T})
                 /\ e.length >= 2 * MinDuration
    OBVIOUS
  <2>2. PICK T \in maximal : e = Event(df, T)
    BY <1>5, <1>6
  <2>3. e.length >= 2 * MinDuration
    BY <1>6
  <2> QED BY <1>12, <2>2, <2>3
<1>14. ASSUME NEW T \in maximal, Max(T) - Min(T) >= MinDuration PROVE reported(T)
  <2>1. Event(df, T).length >= 2 * MinDuration
    <3>1. PICK x, y : x = Min(T) /\ y = Max(T)
      OBVIOUS
    <3>2. x \in Int /\ y \in Int /\ y - x >= MinDuration /\ Event(df, T).length = 2 * (y - x) + P
      BY <1>12, <1>14, <3>1
    <3>3. 2 * (y - x) + P >= 2 * MinDuration
      BY <1>10, <3>2, DetectionFacts
    <3> QED BY <3>2, <3>3
  <2>2. Event(df, T) \in episodes
    BY <1>5, <1>6, <2>1
  <2> QED BY <1>12, <2>2
<1>15. ASSUME NEW T \in maximal, reported(T) PROVE Max(T) - Min(T) + L >= MinDuration
  <2>1. PICK e \in episodes : e.first = Min(T) /\ e.last = Max(T)
    BY <1>15
  <2>2. PICK G \in maximal : e = Event(df, G)
    BY <1>5, <1>6
  <2>3. e.length >= 2 * MinDuration
    BY <1>6
  <2>4. 2 * (Max(T) - Min(T)) + P >= 2 * MinDuration
    BY <1>12, <2>1, <2>2, <2>3
  <2>5. PICK x, y : x = Min(T) /\ y = Max(T)
    OBVIOUS
  <2>6. x \in Int /\ y \in Int /\ 2 * (y - x) + P >= 2 * MinDuration
    BY <1>12, <2>4, <2>5
  <2>7. y - x + L >= MinDuration
    BY <1>10, <1>11, <2>6, DetectionFacts
  <2> QED BY <2>5, <2>7
<1> QED BY <1>8, <1>13, <1>14, <1>15 DEF EpisodesAreMaximal, maximal

(* Of a series of any length, in any order and with any repeats, exactly   *)
(* the longest sustained exceedances are reported: none bridges an outage, *)
(* none is cut short, and MinDuration decides between one that surely is   *)
(* long enough and one that cannot be.                                     *)
THEOREM DetectionIsMaximal == AlgorithmSpec => []EpisodesAreMaximal
<1>1. AlgorithmInit => DetectionInv
  BY DetectionInitInv DEF AlgorithmInit
<1>2. [AlgorithmNext]_algorithmVars => [Detect]_detection
  BY DEF AlgorithmNext, algorithmVars
<1> QED BY <1>1, <1>2, DetectionNextInv, InvImpliesMaximal, PTL DEF AlgorithmSpec
=============================================================================
