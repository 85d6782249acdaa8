---------------------- MODULE IngestIdempotencyProofs ----------------------
(***************************************************************************)
(* Theorems about IngestIdempotency for every set of requests, keys, slots *)
(* and bodies: answers are true, the key is free when it is stored, and    *)
(* batches handled concurrently take effect one at a time.                 *)
(***************************************************************************)
EXTENDS IngestIdempotency, FiniteSetTheorems, SequenceTheorems, TLAPS

USE RequestAssumption

-----------------------------------------------------------------------------
(* The answer to a body. *)

(* The event at i comes after a valid one for the same slot. *)
Repeated(b, i) ==
  \E h \in 1..(i - 1) : Atomic!Valid(b.events[h]) /\ b.events[h].slot = b.events[i].slot

(* An event is refused as invalid, as a duplicate of what is stored or of  *)
(* an earlier one, and accepted otherwise.                                 *)
LEMMA AnswerFacts ==
  ASSUME NEW b \in Bodies, NEW s
  PROVE  LET a == Atomic!AnswerTo(b, s) IN
         /\ b.events \in Seq([slot : Slots, value : Values \cup {Invalid}])
         /\ a \in Seq(Atomic!Verdict) /\ Len(a) = Len(b.events)
         /\ \A i \in DOMAIN b.events :
              /\ b.events[i].slot \in Slots
              /\ a[i] = "invalid" <=> ~Atomic!Valid(b.events[i])
              /\ a[i] = "accepted" <=>
                   /\ Atomic!Valid(b.events[i])
                   /\ s[b.events[i].slot] = NoValue /\ ~Repeated(b, i)
              /\ a[i] = "duplicate" <=>
                   /\ Atomic!Valid(b.events[i])
                   /\ s[b.events[i].slot] # NoValue \/ Repeated(b, i)
<1>1. b.events \in Seq([slot : Slots, value : Values \cup {Invalid}])
  BY IngestAssumption
<1> DEFINE a == Atomic!AnswerTo(b, s)
<1>2. /\ DOMAIN a = 1..Len(b.events) /\ DOMAIN b.events = 1..Len(b.events)
      /\ \A i \in DOMAIN b.events :
           a[i] = IF ~Atomic!Valid(b.events[i]) THEN "invalid"
                  ELSE IF s[b.events[i].slot] # NoValue \/ Repeated(b, i)
                       THEN "duplicate" ELSE "accepted"
  BY <1>1 DEF Atomic!AnswerTo, Repeated
<1> HIDE DEF a
<1>3. a = [i \in DOMAIN b.events |-> a[i]]
  BY <1>2 DEF a, Atomic!AnswerTo
<1>4. a \in [1..Len(b.events) -> Atomic!Verdict]
  BY <1>2, <1>3 DEF Atomic!Verdict
<1>5. a \in Seq(Atomic!Verdict) /\ Len(a) = Len(b.events)
  BY <1>1, <1>4
<1>6. ASSUME NEW i \in DOMAIN b.events
      PROVE  /\ b.events[i].slot \in Slots
             /\ a[i] = "invalid" <=> ~Atomic!Valid(b.events[i])
             /\ a[i] = "accepted" <=>
                  /\ Atomic!Valid(b.events[i])
                  /\ s[b.events[i].slot] = NoValue /\ ~Repeated(b, i)
             /\ a[i] = "duplicate" <=>
                  /\ Atomic!Valid(b.events[i])
                  /\ s[b.events[i].slot] # NoValue \/ Repeated(b, i)
  <2>1. b.events[i] \in [slot : Slots, value : Values \cup {Invalid}]
    <3>1. i \in 1..Len(b.events)
      BY <1>1
    <3>. QED
      BY <1>1, <3>1, ElementOfSeq
  <2>2. /\ ~Atomic!Valid(b.events[i]) => a[i] = "invalid"
        /\ Atomic!Valid(b.events[i]) /\ (s[b.events[i].slot] # NoValue \/ Repeated(b, i)) => a[i] = "duplicate"
        /\ Atomic!Valid(b.events[i]) /\ ~(s[b.events[i].slot] # NoValue \/ Repeated(b, i)) => a[i] = "accepted"
    BY <1>2
  <2>. QED
    BY <2>1, <2>2
<1>. QED
  BY <1>1, <1>5, <1>6, Zenon DEF a

(* Observations that others add where this batch has inserted nothing do   *)
(* not change a verdict of it.                                             *)
LEMMA AnswerStable ==
  ASSUME NEW b \in Bodies, NEW s, NEW t
  PROVE  \A i \in DOMAIN b.events :
           \/ t[b.events[i].slot] = s[b.events[i].slot]
           \/ /\ t[b.events[i].slot] # NoValue
              /\ Atomic!AnswerTo(b, s)[i] # "accepted"
           => Atomic!AnswerTo(b, t)[i] = Atomic!AnswerTo(b, s)[i]
<1>1. SUFFICES ASSUME NEW i \in DOMAIN b.events,
                      \/ t[b.events[i].slot] = s[b.events[i].slot]
                      \/ /\ t[b.events[i].slot] # NoValue
                         /\ Atomic!AnswerTo(b, s)[i] # "accepted"
               PROVE  Atomic!AnswerTo(b, t)[i] = Atomic!AnswerTo(b, s)[i]
  OBVIOUS
<1>2. Atomic!AnswerTo(b, s)[i] \in Atomic!Verdict /\ Atomic!AnswerTo(b, t)[i] \in Atomic!Verdict
  BY AnswerFacts
<1>3. Atomic!AnswerTo(b, s)[i] \in {"accepted", "duplicate", "invalid"}
  BY <1>2 DEF Atomic!Verdict
<1>. QED
  BY <1>1, <1>3, AnswerFacts

-----------------------------------------------------------------------------
(* Requests that a step does not concern. *)

(* The verdicts of r hold on whatever others store, where r has inserted   *)
(* nothing.                                                                *)
LEMMA VerdictsFrame ==
  ASSUME TypeOK, NEW r \in Requests, body[r] \in Bodies, VerdictsHold(r),
         UNCHANGED <<body[r], results[r], mine[r]>>,
         \A s \in Slots : \/ store'[s] = store[s]
                          \/ store'[s] # NoValue /\ mine[r][s] = NoValue
  PROVE  VerdictsHold(r)'
<1> DEFINE b == body[r]
<1>1. /\ Len(results[r]) <= Len(b.events)
      /\ \A i \in DOMAIN results[r] : i \in DOMAIN b.events /\ b.events[i].slot \in Slots
  <2>1. /\ b.events \in Seq([slot : Slots, value : Values \cup {Invalid}])
        /\ \A i \in DOMAIN b.events : b.events[i].slot \in Slots
    BY AnswerFacts
  <2>2. results[r] \in Seq(Atomic!Verdict) /\ Len(results[r]) <= Len(b.events)
    BY DEF TypeOK, VerdictsHold
  <2>. QED
    BY <2>1, <2>2
<1>2. ASSUME NEW i \in DOMAIN results[r]
      PROVE  /\ results[r][i] = Atomic!AnswerTo(b, store')[i]
             /\ Atomic!Valid(b.events[i]) =>
                  store'[b.events[i].slot] # NoValue \/ mine[r][b.events[i].slot] # NoValue
  <2> DEFINE s == b.events[i].slot
  <2>1. /\ results[r][i] = Atomic!AnswerTo(b, store)[i] /\ s \in Slots
        /\ Atomic!Valid(b.events[i]) => store[s] # NoValue \/ mine[r][s] # NoValue
    BY <1>1 DEF VerdictsHold
  <2>2. ASSUME results[r][i] = "accepted"
        PROVE  mine[r][s] # NoValue
    <3>1. i \in AcceptedAt(r, s)
      BY <2>2 DEF AcceptedAt
    <3>. QED
      BY <2>1, <3>1 DEF VerdictsHold
  <2>3. \/ store'[s] = store[s]
        \/ store'[s] # NoValue /\ Atomic!AnswerTo(b, store)[i] # "accepted"
    BY <2>1, <2>2
  <2>4. Atomic!AnswerTo(b, store')[i] = Atomic!AnswerTo(b, store)[i]
    <3>1. \A j \in DOMAIN b.events :
            \/ store'[b.events[j].slot] = store[b.events[j].slot]
            \/ /\ store'[b.events[j].slot] # NoValue
               /\ Atomic!AnswerTo(b, store)[j] # "accepted"
            => Atomic!AnswerTo(b, store')[j] = Atomic!AnswerTo(b, store)[j]
      BY AnswerStable
    <3>. QED
      BY <1>1, <2>3, <3>1
  <2>5. Atomic!Valid(b.events[i]) => store'[s] # NoValue \/ mine[r][s] # NoValue
    BY <2>1, <2>3
  <2>. QED
    BY <2>1, <2>4, <2>5
<1>3. \A s : AcceptedAt(r, s)' = AcceptedAt(r, s)
  BY DEF AcceptedAt
<1>. QED
  BY <1>1, <1>2, <1>3 DEF VerdictsHold

(* Requests that hold nothing but what they held before, or let it go, or  *)
(* begin to insert.                                                        *)
LEMMA InsertsFrame ==
  ASSUME TypeOK, RequestsAgree, InsertsAgree, UNCHANGED store,
         \A r \in Requests :
           \/ pc[r] = "inserting" /\ UNCHANGED <<body[r], results[r], mine[r]>>
           \/ pc'[r] # "inserting" /\ mine'[r] \in {mine[r], NoInserts}
           \/ results'[r] = <<>> /\ mine'[r] = NoInserts
  PROVE  InsertsAgree'
<1>1. \A r \in Requests, s \in Slots : mine'[r][s] = NoValue \/ mine'[r][s] = mine[r][s]
  BY DEF NoInserts
<1>2. ASSUME NEW r \in Requests, pc'[r] = "inserting"
      PROVE  VerdictsHold(r)'
  <2>1. CASE pc[r] = "inserting" /\ UNCHANGED <<body[r], results[r], mine[r]>>
    BY <2>1, VerdictsFrame DEF InsertsAgree, RequestsAgree
  <2>2. CASE results'[r] = <<>> /\ mine'[r] = NoInserts
    BY <2>2 DEF VerdictsHold, AcceptedAt, NoInserts
  <2>. QED
    BY <1>2, <2>1, <2>2
<1>. QED
  BY <1>1, <1>2 DEF InsertsAgree

(* What clients were told and what was credited, while nothing is          *)
(* committed.                                                              *)
LEMMA HistoryFrame ==
  ASSUME AnswersAgree, AcceptedOnce, UNCHANGED <<store, keyRow, credit>>,
         \A t \in told' \ told :
           keyRow[t.key] # NoRow /\ keyRow[t.key].body = t.body /\ keyRow[t.key].answer = t.answer
  PROVE  AnswersAgree' /\ AcceptedOnce'
BY DEF AnswersAgree, AcceptedOnce

-----------------------------------------------------------------------------
(* A request on its way to its first INSERT. *)

LEMMA ReceiveIInv ==
  ASSUME IInv, NEW r \in Requests, NEW k \in Keys \cup {NoKey}, NEW b \in Bodies, Receive(r, k, b)
  PROVE  IInv'
<1>. USE DEF IInv, Receive
<1>1. TypeOK'
  BY DEF TypeOK, Open, Row, committed, history
<1>2. LocksAgree'
  BY DEF TypeOK, LocksAgree, Locked
<1>3. RequestsAgree'
  BY IngestAssumption DEF TypeOK, RequestsAgree, committed
<1>4. InsertsAgree'
  BY InsertsFrame DEF TypeOK, committed
<1>5. KeyIsFree'
  BY DEF TypeOK, KeyIsFree, Seen, committed
<1>6. AnswersAgree' /\ AcceptedOnce'
  BY HistoryFrame DEF committed, history
<1>. QED
  BY <1>1, <1>2, <1>3, <1>4, <1>5, <1>6

LEMMA LockIInv ==
  ASSUME IInv, NEW r \in Requests, Lock(r)
  PROVE  IInv'
<1>. USE DEF IInv, Lock
<1>1. TypeOK'
  BY DEF TypeOK, Open, Row, committed, history
<1>2. LocksAgree'
  BY DEF TypeOK, LocksAgree, RequestsAgree, Locked
<1>3. RequestsAgree'
  BY DEF TypeOK, RequestsAgree, committed
<1>4. InsertsAgree'
  BY InsertsFrame DEF TypeOK, committed
<1>5. KeyIsFree'
  BY DEF TypeOK, KeyIsFree, Seen, committed
<1>6. AnswersAgree' /\ AcceptedOnce'
  BY HistoryFrame DEF committed, history
<1>. QED
  BY <1>1, <1>2, <1>3, <1>4, <1>5, <1>6

LEMMA ExpireKeyIInv ==
  ASSUME IInv, NEW r \in Requests, ExpireKey(r)
  PROVE  IInv'
<1>. USE DEF IInv, ExpireKey
<1>1. TypeOK'
  BY DEF TypeOK, Open, Row, committed, history
<1>2. LocksAgree'
  BY DEF TypeOK, LocksAgree, RequestsAgree, Locked
<1>3. RequestsAgree'
  BY DEF TypeOK, RequestsAgree, committed
<1>4. InsertsAgree'
  BY InsertsFrame DEF TypeOK, committed
<1>5. KeyIsFree'
  BY DEF TypeOK, KeyIsFree, Seen, committed
<1>6. AnswersAgree' /\ AcceptedOnce'
  BY HistoryFrame DEF committed, history
<1>. QED
  BY <1>1, <1>2, <1>3, <1>4, <1>5, <1>6

LEMMA FirstUseIInv ==
  ASSUME IInv, NEW r \in Requests, FirstUse(r)
  PROVE  IInv'
<1>. USE DEF IInv, FirstUse
<1>1. TypeOK'
  BY DEF TypeOK, Open, Row, committed, history
<1>2. LocksAgree'
  BY DEF TypeOK, LocksAgree, RequestsAgree, Locked
<1>3. RequestsAgree'
  BY DEF TypeOK, RequestsAgree, committed
<1>4. InsertsAgree'
  BY InsertsFrame DEF TypeOK, committed
<1>5. KeyIsFree'
  BY DEF TypeOK, KeyIsFree, Seen, committed
<1>6. AnswersAgree' /\ AcceptedOnce'
  BY HistoryFrame DEF committed, history
<1>. QED
  BY <1>1, <1>2, <1>3, <1>4, <1>5, <1>6

(* A request whose transaction ends: it has no lock, row or insert left.   *)
LEMMA FinishIInv ==
  ASSUME IInv, NEW r \in Requests, Finish(r), UNCHANGED <<committed, pruning, credit>>,
         \A t \in told' \ told :
           /\ t \in [key : Keys, body : Bodies, answer : Seq(Atomic!Verdict)]
           /\ keyRow[t.key] # NoRow /\ keyRow[t.key].body = t.body /\ keyRow[t.key].answer = t.answer
  PROVE  IInv'
<1>. USE DEF IInv, Finish
<1>1. TypeOK'
  BY DEF TypeOK, NoInserts, Open, Row, committed
<1>2. LocksAgree'
  BY DEF TypeOK, LocksAgree, Locked
<1>3. RequestsAgree'
  BY DEF TypeOK, RequestsAgree, committed
<1>4. InsertsAgree'
  BY InsertsFrame DEF TypeOK, committed
<1>5. KeyIsFree'
  BY DEF TypeOK, KeyIsFree, Seen, committed
<1>6. AnswersAgree' /\ AcceptedOnce'
  BY HistoryFrame DEF committed
<1>. QED
  BY <1>1, <1>2, <1>3, <1>4, <1>5, <1>6

LEMMA ReplayIInv ==
  ASSUME IInv, NEW r \in Requests, Replay(r)
  PROVE  IInv'
<1>1. Seen(r) = keyRow[key[r]] /\ Seen(r) # NoRow /\ key[r] \in Keys /\ Seen(r) \in Row
  BY DEF IInv, TypeOK, RequestsAgree, Replay, Seen
<1>2. \A t \in told' \ told :
        /\ t \in [key : Keys, body : Bodies, answer : Seq(Atomic!Verdict)]
        /\ keyRow[t.key] # NoRow /\ keyRow[t.key].body = t.body /\ keyRow[t.key].answer = t.answer
  BY <1>1 DEF Replay, Tell, Row
<1>. QED
  BY <1>2, FinishIInv DEF Replay

LEMMA CheckAssetIInv ==
  ASSUME IInv, NEW r \in Requests, CheckAsset(r)
  PROVE  IInv'
<1>1. CASE body[r].known
  <2>. USE <1>1 DEF IInv, CheckAsset
  <2>1. TypeOK'
    BY DEF TypeOK, Open, Row, committed, history
  <2>2. LocksAgree'
    <3>1. /\ UNCHANGED <<holder, key>>
          /\ \A q \in Requests : pc'[q] \in Locked <=> pc[q] \in Locked
      BY DEF TypeOK, Locked
    <3>. QED
      BY <3>1 DEF TypeOK, LocksAgree
  <2>3. RequestsAgree'
    BY DEF TypeOK, RequestsAgree, committed
  <2>4. InsertsAgree'
    <3>1. results'[r] = <<>> /\ mine'[r] = NoInserts
      BY DEF RequestsAgree
    <3>. QED
      BY <3>1, InsertsFrame DEF TypeOK, committed
  <2>5. KeyIsFree'
    BY DEF TypeOK, KeyIsFree, Seen, committed
  <2>6. AnswersAgree' /\ AcceptedOnce'
    BY HistoryFrame DEF committed, history
  <2>. QED
    BY <2>1, <2>2, <2>3, <2>4, <2>5, <2>6
<1>2. CASE ~body[r].known
  BY <1>2, FinishIInv DEF CheckAsset, history
<1>. QED
  BY <1>1, <1>2

LEMMA ReplyIInv ==
  ASSUME IInv, NEW r \in Requests, Reply(r)
  PROVE  IInv'
<1>1. ASSUME key[r] # NoKey
      PROVE  /\ key[r] \in Keys /\ keyRow[key[r]] = [body |-> body[r], answer |-> results[r]]
             /\ body[r] \in Bodies /\ results[r] \in Seq(Atomic!Verdict)
             /\ keyRow[key[r]] # NoRow
  BY <1>1, RowAssumption DEF IInv, TypeOK, RequestsAgree, Reply, Row
<1>2. \A t \in told' \ told :
        /\ t \in [key : Keys, body : Bodies, answer : Seq(Atomic!Verdict)]
        /\ keyRow[t.key] # NoRow /\ keyRow[t.key].body = t.body /\ keyRow[t.key].answer = t.answer
  BY <1>1 DEF Reply, Tell
<1>. QED
  BY <1>2, FinishIInv DEF Reply

LEMMA AbortIInv ==
  ASSUME IInv, NEW r \in Requests, Abort(r)
  PROVE  IInv'
BY FinishIInv DEF Abort, history

-----------------------------------------------------------------------------
(* The events, one INSERT after the other. *)

(* What stays when a request adds a verdict. *)
LEMMA InsertFrame ==
  ASSUME IInv, NEW r \in Requests, Pending(r), NEW v \in Atomic!Verdict, Verdict(r, v),
         UNCHANGED <<committed, holder, pruning, pc, key, body, late, dropped, history>>,
         mine' \in [Requests -> [Slots -> Values \cup {NoValue}]],
         \A q \in Requests \ {r} : mine'[q] = mine[q]
  PROVE  /\ TypeOK' /\ LocksAgree' /\ RequestsAgree' /\ KeyIsFree' /\ AnswersAgree' /\ AcceptedOnce'
         /\ \A q \in Requests \ {r} : pc'[q] = "inserting" => VerdictsHold(q)'
<1>. USE DEF IInv, Pending, Verdict
<1>1. TypeOK'
  <2>1. Append(results[r], v) \in Seq(Atomic!Verdict)
    BY AppendProperties DEF TypeOK
  <2>2. results' \in [Requests -> Seq(Atomic!Verdict)]
    BY <2>1 DEF TypeOK
  <2>. QED
    BY <2>2 DEF TypeOK, Open, Row, committed, history
<1>2. LocksAgree'
  BY DEF TypeOK, LocksAgree, Locked
<1>3. RequestsAgree'
  BY DEF TypeOK, RequestsAgree, committed
<1>4. KeyIsFree'
  BY DEF TypeOK, KeyIsFree, Seen, committed
<1>5. AnswersAgree' /\ AcceptedOnce'
  BY HistoryFrame DEF committed, history
<1>6. ASSUME NEW q \in Requests \ {r}, pc'[q] = "inserting"
      PROVE  VerdictsHold(q)'
  <2>1. UNCHANGED <<body[q], results[q], mine[q], store>> /\ pc[q] = "inserting"
    BY <1>6 DEF TypeOK, committed
  <2>. QED
    BY <2>1, VerdictsFrame DEF InsertsAgree, RequestsAgree
<1>. QED
  BY <1>1, <1>2, <1>3, <1>4, <1>5, <1>6

LEMMA PendingFacts ==
  ASSUME IInv, NEW r \in Requests, Pending(r)
  PROVE  /\ body[r] \in Bodies /\ VerdictsHold(r)
         /\ results[r] \in Seq(Atomic!Verdict) /\ DOMAIN results[r] = 1..Len(results[r])
         /\ \A i \in DOMAIN results[r] : i \in DOMAIN body[r].events
         /\ Len(results[r]) + 1 \in DOMAIN body[r].events
         /\ NextEvent(r) \in [slot : Slots, value : Values \cup {Invalid}]
<1>1. body[r] \in Bodies /\ VerdictsHold(r) /\ results[r] \in Seq(Atomic!Verdict)
  BY DEF IInv, TypeOK, RequestsAgree, InsertsAgree, Pending
<1>2. body[r].events \in Seq([slot : Slots, value : Values \cup {Invalid}])
  BY <1>1, IngestAssumption
<1>3. /\ DOMAIN results[r] = 1..Len(results[r]) /\ DOMAIN body[r].events = 1..Len(body[r].events)
      /\ Len(results[r]) \in Nat /\ Len(body[r].events) \in Nat
      /\ Len(results[r]) < Len(body[r].events)
  BY <1>1, <1>2 DEF Pending
<1>4. Len(results[r]) + 1 \in 1..Len(body[r].events)
  BY <1>3
<1>5. NextEvent(r) \in [slot : Slots, value : Values \cup {Invalid}]
  BY <1>2, <1>4, ElementOfSeq DEF NextEvent
<1>. QED
  BY <1>1, <1>3, <1>4, <1>5

(* Where nothing is stored, a batch has inserted exactly what it repeats.  *)
LEMMA RepeatedInserts ==
  ASSUME IInv, NEW r \in Requests, Pending(r), store[NextEvent(r).slot] = NoValue
  PROVE  Repeated(body[r], Len(results[r]) + 1) <=> mine[r][NextEvent(r).slot] # NoValue
<1> DEFINE b == body[r]
           n == Len(results[r])
           s == NextEvent(r).slot
<1>1. /\ b \in Bodies /\ VerdictsHold(r) /\ n \in Nat /\ DOMAIN results[r] = 1..n /\ s \in Slots
      /\ \A i \in DOMAIN results[r] : i \in DOMAIN b.events
  BY PendingFacts
<1>2. ASSUME Repeated(b, n + 1)
      PROVE  mine[r][s] # NoValue
  <2>1. PICK h \in 1..n : Atomic!Valid(b.events[h]) /\ b.events[h].slot = s
    BY <1>1, <1>2 DEF Repeated, NextEvent
  <2>. QED
    BY <1>1, <2>1 DEF VerdictsHold
<1>3. ASSUME mine[r][s] # NoValue
      PROVE  Repeated(b, n + 1)
  <2>1. PICK i \in DOMAIN results[r] : AcceptedAt(r, s) = {i}
    BY <1>1, <1>3 DEF VerdictsHold
  <2>2. results[r][i] = "accepted" /\ b.events[i].slot = s
    BY <2>1 DEF AcceptedAt
  <2>3. Atomic!AnswerTo(b, store)[i] = "accepted"
    BY <1>1, <2>2 DEF VerdictsHold
  <2>4. Atomic!Valid(b.events[i])
    BY <1>1, <2>3, AnswerFacts
  <2>. QED
    BY <1>1, <2>2, <2>4 DEF Repeated, NextEvent
<1>. QED
  BY <1>2, <1>3

(* The verdict added is the one the whole batch would get, and an accepted *)
(* event is inserted.                                                      *)
LEMMA NewVerdict ==
  ASSUME IInv, NEW r \in Requests, Pending(r), NEW v, Verdict(r, v), UNCHANGED <<store, body>>,
         v = Atomic!AnswerTo(body[r], store)[Len(results[r]) + 1],
         \/ v # "accepted" /\ UNCHANGED mine
         \/ /\ v = "accepted" /\ mine[r][NextEvent(r).slot] = NoValue
            /\ mine' = [mine EXCEPT ![r][NextEvent(r).slot] = NextEvent(r).value]
            /\ NextEvent(r).value # NoValue,
         Atomic!Valid(NextEvent(r)) =>
           store[NextEvent(r).slot] # NoValue \/ mine'[r][NextEvent(r).slot] # NoValue
  PROVE  VerdictsHold(r)'
<1> DEFINE b == body[r]
           n == Len(results[r])
<1>1. /\ b \in Bodies /\ VerdictsHold(r) /\ n \in Nat /\ DOMAIN results[r] = 1..n
      /\ results[r] \in Seq(Atomic!Verdict)
      /\ n + 1 \in DOMAIN b.events /\ DOMAIN b.events = 1..Len(b.events) /\ Len(b.events) \in Nat
      /\ NextEvent(r).slot \in Slots
  BY PendingFacts
<1>2. /\ DOMAIN results'[r] = 1..(n + 1) /\ Len(results'[r]) = n + 1
      /\ results'[r][n + 1] = v /\ \A i \in 1..n : results'[r][i] = results[r][i]
  BY <1>1 DEF Verdict, IInv, TypeOK
<1>3. \A s \in Slots : mine'[r][s] = IF v = "accepted" /\ s = NextEvent(r).slot
                                     THEN NextEvent(r).value ELSE mine[r][s]
  BY DEF IInv, TypeOK
<1>4. ASSUME NEW i \in DOMAIN results'[r]
      PROVE  /\ results'[r][i] = Atomic!AnswerTo(b, store)[i]
             /\ Atomic!Valid(b.events[i]) =>
                  store[b.events[i].slot] # NoValue \/ mine'[r][b.events[i].slot] # NoValue
  <2>1. CASE i = n + 1
    BY <1>2, <2>1 DEF NextEvent
  <2>2. CASE i \in 1..n
    <3>1. /\ results[r][i] = Atomic!AnswerTo(b, store)[i]
          /\ Atomic!Valid(b.events[i]) =>
               store[b.events[i].slot] # NoValue \/ mine[r][b.events[i].slot] # NoValue
      BY <1>1, <2>2 DEF VerdictsHold
    <3>2. b.events[i].slot \in Slots
      BY <1>1, <2>2, AnswerFacts
    <3>. QED
      BY <1>2, <1>3, <2>2, <3>1, <3>2
  <2>. QED
    BY <1>1, <1>2, <2>1, <2>2
<1>5. ASSUME NEW s \in Slots
      PROVE  AcceptedAt(r, s)' = IF v = "accepted" /\ s = NextEvent(r).slot
                                 THEN AcceptedAt(r, s) \cup {n + 1} ELSE AcceptedAt(r, s)
  <2>1. AcceptedAt(r, s) = {i \in 1..n : results[r][i] = "accepted" /\ b.events[i].slot = s}
    BY <1>1 DEF AcceptedAt
  <2>2. AcceptedAt(r, s)' = {i \in 1..(n + 1) : results'[r][i] = "accepted" /\ b.events[i].slot = s}
    BY <1>2 DEF AcceptedAt
  <2>3. 1..(n + 1) = 1..n \cup {n + 1}
    BY <1>1
  <2>4. results'[r][n + 1] = v /\ b.events[n + 1].slot = NextEvent(r).slot
    BY <1>2 DEF NextEvent
  <2>. HIDE DEF n, b
  <2>. QED
    BY <1>2, <2>1, <2>2, <2>3, <2>4
<1>6. ASSUME NEW s \in Slots
      PROVE  IF mine'[r][s] = NoValue THEN AcceptedAt(r, s)' = {}
             ELSE \E i \in DOMAIN results'[r] :
                    AcceptedAt(r, s)' = {i} /\ mine'[r][s] = b.events[i].value
  <2>1. IF mine[r][s] = NoValue THEN AcceptedAt(r, s) = {}
        ELSE \E i \in DOMAIN results[r] : AcceptedAt(r, s) = {i} /\ mine[r][s] = b.events[i].value
    BY <1>1 DEF VerdictsHold
  <2>2. CASE v = "accepted" /\ s = NextEvent(r).slot
    <3>1. AcceptedAt(r, s)' = {n + 1} /\ mine'[r][s] = b.events[n + 1].value /\ mine'[r][s] # NoValue
      BY <1>3, <1>5, <2>1, <2>2 DEF NextEvent
    <3>. QED
      BY <1>1, <1>2, <3>1
  <2>3. CASE ~(v = "accepted" /\ s = NextEvent(r).slot)
    <3>1. AcceptedAt(r, s)' = AcceptedAt(r, s) /\ mine'[r][s] = mine[r][s]
      BY <1>3, <1>5, <2>3
    <3>. QED
      BY <1>1, <1>2, <2>1, <3>1
  <2>. QED
    BY <2>2, <2>3
<1>. QED
  BY <1>1, <1>2, <1>4, <1>6 DEF VerdictsHold

(* A verdict other than "accepted" inserts nothing.                        *)
LEMMA RejectIInv ==
  ASSUME IInv, NEW r \in Requests, Pending(r), NEW v \in Atomic!Verdict, v # "accepted", Verdict(r, v),
         v = Atomic!AnswerTo(body[r], store)[Len(results[r]) + 1],
         Atomic!Valid(NextEvent(r)) =>
           store[NextEvent(r).slot] # NoValue \/ mine[r][NextEvent(r).slot] # NoValue,
         UNCHANGED <<committed, holder, pruning, pc, key, body, late, dropped, mine, history>>
  PROVE  IInv'
<1>1. VerdictsHold(r)'
  BY NewVerdict DEF committed
<1>2. mine' \in [Requests -> [Slots -> Values \cup {NoValue}]]
  BY DEF IInv, TypeOK
<1>3. /\ TypeOK' /\ LocksAgree' /\ RequestsAgree' /\ KeyIsFree' /\ AnswersAgree' /\ AcceptedOnce'
      /\ \A q \in Requests \ {r} : pc'[q] = "inserting" => VerdictsHold(q)'
  BY <1>2, InsertFrame
<1>4. InsertsAgree'
  BY <1>1, <1>3 DEF IInv, InsertsAgree, committed
<1>. QED
  BY <1>3, <1>4 DEF IInv

LEMMA RejectInvalidIInv ==
  ASSUME IInv, NEW r \in Requests, RejectInvalid(r)
  PROVE  IInv'
<1>1. Pending(r) /\ ~Atomic!Valid(NextEvent(r)) /\ Verdict(r, "invalid")
  BY DEF RejectInvalid
<1>2. Atomic!AnswerTo(body[r], store)[Len(results[r]) + 1] = "invalid"
  BY <1>1, PendingFacts, AnswerFacts DEF NextEvent
<1>. QED
  BY <1>1, <1>2, RejectIInv DEF RejectInvalid, Atomic!Verdict

LEMMA RejectDuplicateIInv ==
  ASSUME IInv, NEW r \in Requests, RejectDuplicate(r)
  PROVE  IInv'
<1>1. /\ Pending(r) /\ Atomic!Valid(NextEvent(r)) /\ Verdict(r, "duplicate")
      /\ store[NextEvent(r).slot] # NoValue \/ mine[r][NextEvent(r).slot] # NoValue
  BY DEF RejectDuplicate
<1>2. store[NextEvent(r).slot] # NoValue \/ Repeated(body[r], Len(results[r]) + 1)
  BY <1>1, RepeatedInserts
<1>3. Atomic!AnswerTo(body[r], store)[Len(results[r]) + 1] = "duplicate"
  BY <1>1, <1>2, PendingFacts, AnswerFacts DEF NextEvent
<1>. QED
  BY <1>1, <1>3, RejectIInv DEF RejectDuplicate, Atomic!Verdict

LEMMA AcceptIInv ==
  ASSUME IInv, NEW r \in Requests, Accept(r)
  PROVE  IInv'
<1> DEFINE s == NextEvent(r).slot
<1>1. /\ Pending(r) /\ Atomic!Valid(NextEvent(r)) /\ Verdict(r, "accepted")
      /\ store[s] = NoValue /\ mine[r][s] = NoValue
      /\ \A q \in Requests \ {r} : mine[q][s] = NoValue
      /\ mine' = [mine EXCEPT ![r][s] = NextEvent(r).value]
      /\ UNCHANGED <<store, body>>
  BY DEF Accept, Waits, WaitsFor, committed
<1>2. s \in Slots /\ NextEvent(r).value \in Values /\ NextEvent(r).value # NoValue
  BY <1>1, PendingFacts, IngestAssumption DEF Atomic!Valid
<1>3. ~Repeated(body[r], Len(results[r]) + 1)
  BY <1>1, RepeatedInserts
<1>4. Atomic!AnswerTo(body[r], store)[Len(results[r]) + 1] = "accepted"
  BY <1>1, <1>3, PendingFacts, AnswerFacts DEF NextEvent
<1>5. /\ mine' \in [Requests -> [Slots -> Values \cup {NoValue}]]
      /\ \A q \in Requests \ {r} : mine'[q] = mine[q]
      /\ \A x \in Slots : mine'[r][x] = IF x = s THEN NextEvent(r).value ELSE mine[r][x]
  BY <1>1, <1>2 DEF IInv, TypeOK
<1>6. VerdictsHold(r)'
  BY <1>1, <1>2, <1>4, <1>5, NewVerdict
<1>7. /\ TypeOK' /\ LocksAgree' /\ RequestsAgree' /\ KeyIsFree' /\ AnswersAgree' /\ AcceptedOnce'
      /\ \A q \in Requests \ {r} : pc'[q] = "inserting" => VerdictsHold(q)'
  <2>1. "accepted" \in Atomic!Verdict
    BY DEF Atomic!Verdict
  <2>. QED
    BY <1>1, <1>5, <2>1, InsertFrame DEF Accept
<1>8. InsertsAgree'
  <2>1. ASSUME NEW p \in Requests, NEW q \in Requests, NEW x \in Slots, p # q
        PROVE  mine'[p][x] = NoValue \/ mine'[q][x] = NoValue
    BY <1>1, <1>5, <2>1 DEF IInv, InsertsAgree
  <2>2. ASSUME NEW p \in Requests, NEW x \in Slots, mine'[p][x] # NoValue
        PROVE  store'[x] = NoValue
    BY <1>1, <1>5, <2>2 DEF IInv, InsertsAgree
  <2>. QED
    BY <1>6, <1>7, <2>1, <2>2 DEF InsertsAgree
<1>. QED
  BY <1>7, <1>8 DEF IInv

-----------------------------------------------------------------------------
(* The commit. *)

(* At its commit a request gets the answer of the whole batch against what *)
(* is stored now and stores what the batch stores; no answer is stored     *)
(* under its key that still counts.                                        *)
LEMMA CommitFacts ==
  ASSUME IInv, NEW r \in Requests, Commit(r)
  PROVE  /\ body[r] \in Bodies /\ body[r].known /\ VerdictsHold(r)
         /\ results[r] = Atomic!AnswerTo(body[r], store)
         /\ store' = Atomic!StoreAfter(body[r], store)
         /\ key[r] # NoKey => /\ key[r] \in Keys \ pruning
                              /\ Atomic!Free(key[r])
<1> DEFINE b == body[r]
           a == Atomic!AnswerTo(b, store)
<1>1. b \in Bodies /\ b.known /\ VerdictsHold(r)
  BY DEF IInv, TypeOK, RequestsAgree, InsertsAgree, Commit
<1>2. /\ b.events \in Seq([slot : Slots, value : Values \cup {Invalid}])
      /\ a \in Seq(Atomic!Verdict) /\ Len(a) = Len(b.events)
      /\ results[r] \in Seq(Atomic!Verdict)
  BY <1>1, AnswerFacts DEF IInv, TypeOK
<1>3. Len(results[r]) = Len(b.events)
  BY <1>1, <1>2 DEF VerdictsHold, Commit, Pending
<1>4. \A i \in 1..Len(results[r]) : results[r][i] = a[i]
  BY <1>1, <1>2 DEF VerdictsHold
<1>5. results[r] = a
  <2>. HIDE DEF a, b
  <2>. QED
    BY <1>2, <1>3, <1>4, SeqEqual
<1>6. ASSUME NEW s \in Slots
      PROVE  store'[s] = Atomic!StoreAfter(b, store)[s]
  <2> DEFINE new == {i \in DOMAIN b.events : b.events[i].slot = s /\ a[i] = "accepted"}
  <2>1. new = AcceptedAt(r, s)
    BY <1>2, <1>3, <1>5 DEF AcceptedAt
  <2>2. /\ store'[s] = IF mine[r][s] # NoValue THEN mine[r][s] ELSE store[s]
        /\ Atomic!StoreAfter(b, store)[s] =
              IF new = {} THEN store[s] ELSE b.events[CHOOSE i \in new : TRUE].value
    BY DEF Commit, Atomic!StoreAfter
  <2>3. IF mine[r][s] = NoValue THEN AcceptedAt(r, s) = {}
        ELSE \E i \in DOMAIN results[r] : AcceptedAt(r, s) = {i} /\ mine[r][s] = b.events[i].value
    BY <1>1 DEF VerdictsHold
  <2>. HIDE DEF new
  <2>. QED
    BY <2>1, <2>2, <2>3
<1>7. store' = Atomic!StoreAfter(b, store)
  BY <1>6 DEF Commit, Atomic!StoreAfter
<1>8. ASSUME key[r] # NoKey
      PROVE  /\ key[r] \in Keys \ pruning
             /\ Atomic!Free(key[r])
  <2>1. key[r] \in Keys /\ Seen(r) = NoRow /\ pc[r] = "inserting"
    BY <1>8 DEF IInv, TypeOK, KeyIsFree, Commit
  <2>2. CASE dropped[r]
    BY <2>1, <2>2 DEF IInv, RequestsAgree, Atomic!Free
  <2>3. CASE ~dropped[r]
    BY <2>1, <2>3 DEF IInv, TypeOK, Seen, Atomic!Free
  <2>. QED
    BY <2>2, <2>3
<1>. QED
  BY <1>1, <1>5, <1>7, <1>8

(* No other request is past the lock of the key, or has an answer stored   *)
(* under it that it has yet to give.                                       *)
LEMMA CommitAlone ==
  ASSUME IInv, NEW r \in Requests, Commit(r), key[r] # NoKey,
         NEW q \in Requests, q # r, pc[q] \in Locked \cup {"committed"}
  PROVE  key[q] # key[r]
<1>1. SUFFICES ASSUME key[q] = key[r]
               PROVE  FALSE
  OBVIOUS
<1>2. CASE pc[q] \in Locked
  BY <1>1, <1>2 DEF IInv, LocksAgree, Locked, Commit
<1>3. CASE pc[q] = "committed"
  <2>1. /\ key[r] \notin expired /\ key[r] \in Keys
        /\ keyRow[key[r]] = [body |-> body[q], answer |-> results[q]]
        /\ body[q] \in Bodies /\ results[q] \in Seq(Atomic!Verdict)
    BY <1>1, <1>3 DEF IInv, RequestsAgree, TypeOK
  <2>2. keyRow[key[r]] # NoRow
    BY <2>1, RowAssumption DEF Row
  <2>3. ~Atomic!Free(key[r])
    BY <2>1, <2>2 DEF Atomic!Free
  <2>. QED
    BY <2>3, CommitFacts
<1>. QED
  BY <1>2, <1>3

LEMMA CommitIInv ==
  ASSUME IInv, NEW r \in Requests, Commit(r)
  PROVE  IInv'
<1>1. /\ body[r] \in Bodies /\ results[r] \in Seq(Atomic!Verdict) /\ VerdictsHold(r)
      /\ pc[r] = "inserting" /\ mine[r] \in [Slots -> Values \cup {NoValue}]
      /\ pc' = [pc EXCEPT ![r] = "committed"] /\ mine' = [mine EXCEPT ![r] = NoInserts]
      /\ UNCHANGED <<pruning, key, body, late, dropped, results>>
  BY CommitFacts DEF Commit, IInv, TypeOK
<1>2. /\ \A s \in Slots : store'[s] = IF mine[r][s] # NoValue THEN mine[r][s] ELSE store[s]
      /\ store' \in [Slots -> Values \cup {NoValue}]
  BY <1>1 DEF Commit, IInv, TypeOK
<1>3. \A q \in Requests \ {r} : UNCHANGED <<pc[q], mine[q]>>
  BY <1>1 DEF IInv, TypeOK
<1>4. ASSUME NEW s \in Slots
      PROVE  credit'[s] = credit[s] + (IF mine[r][s] = NoValue THEN 0 ELSE 1)
  <2>1. credit'[s] = credit[s] + Cardinality(AcceptedAt(r, s))
    BY DEF Commit, AcceptedAt
  <2>2. IF mine[r][s] = NoValue THEN AcceptedAt(r, s) = {}
        ELSE \E i \in DOMAIN results[r] :
               AcceptedAt(r, s) = {i} /\ mine[r][s] = body[r].events[i].value
    BY <1>1 DEF VerdictsHold
  <2>3. Cardinality(AcceptedAt(r, s)) = IF mine[r][s] = NoValue THEN 0 ELSE 1
    BY <2>2, FS_EmptySet, FS_Singleton
  <2>. QED
    BY <2>1, <2>3
<1>5. TypeOK'
  <2>1. credit' \in [Slots -> Nat]
    <3>1. ASSUME NEW s \in Slots
          PROVE  credit'[s] \in Nat
      <4>1. credit[s] \in Nat
        BY DEF IInv, TypeOK
      <4>. QED
        BY <1>4, <4>1
    <3>2. credit' = [s \in Slots |-> credit'[s]]
      BY DEF Commit
    <3>. QED
      BY <3>1, <3>2
  <2>2. CASE key[r] = NoKey
    BY <1>1, <1>2, <2>1, <2>2 DEF Commit, IInv, TypeOK, NoInserts, Open, Row
  <2>3. CASE key[r] # NoKey
    <3>1. key[r] \in Keys \ pruning /\ [body |-> body[r], answer |-> results[r]] \in Row
      BY <1>1, <2>3, CommitFacts DEF Row
    <3>2. /\ keyRow' \in [Keys -> Row \cup {NoRow}] /\ pruning' \subseteq expired'
          /\ expired' \subseteq {k \in Keys : keyRow'[k] # NoRow} /\ told' \subseteq told
      <4>1. /\ keyRow' = [keyRow EXCEPT ![key[r]] = [body |-> body[r], answer |-> results[r]]]
            /\ expired' = expired \ {key[r]} /\ told' \subseteq told
        BY <2>3 DEF Commit
      <4>2. /\ keyRow \in [Keys -> Row \cup {NoRow}] /\ pruning \subseteq expired
            /\ expired \subseteq {k \in Keys : keyRow[k] # NoRow}
        BY DEF IInv, TypeOK
      <4>. QED
        BY <1>1, <3>1, <4>1, <4>2
    <3>. QED
      BY <1>1, <1>2, <2>1, <3>2 DEF Commit, IInv, TypeOK, NoInserts, Open
  <2>. QED
    BY <2>2, <2>3
<1>6. LocksAgree'
  BY <1>1 DEF Commit, IInv, TypeOK, LocksAgree, Locked
<1>7. RequestsAgree'
  <2>1. ASSUME NEW q \in Requests, q # r, dropped[q], pc[q] # "committed"
        PROVE  key[q] \in expired' \ pruning'
    <3>1. pc[q] \in Locked /\ key[q] \in expired \ pruning
      BY <2>1 DEF IInv, RequestsAgree, Locked
    <3>2. key[r] = NoKey \/ key[q] # key[r]
      BY <2>1, <3>1, CommitAlone
    <3>. QED
      BY <1>1, <3>1, <3>2 DEF Commit
  <2>2. ASSUME NEW q \in Requests, q # r, pc[q] = "committed", key[q] # NoKey
        PROVE  /\ key[q] \notin expired'
               /\ keyRow'[key[q]] = [body |-> body[q], answer |-> results[q]]
    <3>1. key[r] = NoKey \/ key[q] # key[r]
      BY <2>2, CommitAlone
    <3>2. /\ key[q] \notin expired /\ key[q] \in Keys /\ keyRow \in [Keys -> Row \cup {NoRow}]
          /\ keyRow[key[q]] = [body |-> body[q], answer |-> results[q]]
      BY <2>2 DEF IInv, RequestsAgree, TypeOK
    <3>. QED
      BY <2>2, <3>1, <3>2 DEF Commit
  <2>3. key[r] # NoKey => /\ key[r] \notin expired'
                         /\ keyRow'[key[r]] = [body |-> body[r], answer |-> results[r]]
    BY CommitFacts DEF Commit, IInv, TypeOK
  <2>4. pc'[r] = "committed" /\ mine'[r] = NoInserts
    BY <1>1 DEF IInv, TypeOK
  <2>. QED
    BY <1>1, <1>3, <2>1, <2>2, <2>3, <2>4 DEF IInv, RequestsAgree
<1>8. InsertsAgree'
  <2>1. mine'[r] = NoInserts
    BY <1>1 DEF IInv, TypeOK
  <2>2. ASSUME NEW q \in Requests, q # r, NEW s \in Slots
        PROVE  /\ mine[q][s] # NoValue => store'[s] = NoValue
               /\ store'[s] = store[s] \/ (store'[s] # NoValue /\ mine[q][s] = NoValue)
    BY <1>2, <2>2 DEF IInv, InsertsAgree
  <2>3. ASSUME NEW q \in Requests, q # r, pc'[q] = "inserting"
        PROVE  VerdictsHold(q)'
    <3>1. pc[q] = "inserting" /\ UNCHANGED <<body[q], results[q], mine[q]>>
      BY <1>1, <1>3, <2>3
    <3>2. body[q] \in Bodies /\ VerdictsHold(q) /\ TypeOK
      BY <3>1 DEF IInv, RequestsAgree, InsertsAgree
    <3>. QED
      BY <2>2, <2>3, <3>1, <3>2, VerdictsFrame
  <2>4. ASSUME NEW p \in Requests, NEW q \in Requests, p # q, NEW s \in Slots
        PROVE  mine'[p][s] = NoValue \/ mine'[q][s] = NoValue
    BY <1>3, <2>1, <2>4 DEF IInv, InsertsAgree, NoInserts
  <2>5. ASSUME NEW q \in Requests, NEW s \in Slots, mine'[q][s] # NoValue
        PROVE  store'[s] = NoValue
    BY <1>3, <2>1, <2>2, <2>5 DEF NoInserts
  <2>6. pc'[r] = "committed"
    BY <1>1 DEF IInv, TypeOK
  <2>. QED
    BY <2>3, <2>4, <2>5, <2>6 DEF InsertsAgree
<1>9. KeyIsFree'
  <2>1. ASSUME NEW q \in Requests, pc'[q] \in {"checking", "inserting"}, key[q] # NoKey
        PROVE  Seen(q)' = NoRow
    <3>1. q # r /\ pc[q] \in {"checking", "inserting"}
      BY <1>1, <1>3, <2>1 DEF IInv, TypeOK
    <3>2. key[q] \in Keys /\ (key[r] = NoKey \/ key[q] # key[r]) /\ Seen(q) = NoRow
      BY <2>1, <3>1, CommitAlone DEF IInv, TypeOK, KeyIsFree, Locked
    <3>3. keyRow'[key[q]] = keyRow[key[q]]
      BY <3>2 DEF Commit, IInv, TypeOK
    <3>. QED
      BY <1>1, <3>2, <3>3 DEF Seen
  <2>. QED
    BY <1>1, <2>1 DEF KeyIsFree
<1>10. AnswersAgree'
  <2>1. ASSUME NEW t \in told'
        PROVE  t \in told /\ keyRow'[t.key] = keyRow[t.key]
    BY DEF Commit, IInv, TypeOK
  <2>. QED
    BY <2>1 DEF IInv, AnswersAgree
<1>11. AcceptedOnce'
  <2>1. ASSUME NEW s \in Slots
        PROVE  credit'[s] = IF store'[s] = NoValue THEN 0 ELSE 1
    <3>1. /\ credit[s] = IF store[s] = NoValue THEN 0 ELSE 1
          /\ mine[r][s] # NoValue => store[s] = NoValue
      BY DEF IInv, AcceptedOnce, InsertsAgree
    <3>. QED
      BY <1>2, <1>4, <3>1
  <2>. QED
    BY <2>1 DEF AcceptedOnce
<1>. QED
  BY <1>5, <1>6, <1>7, <1>8, <1>9, <1>10, <1>11 DEF IInv

-----------------------------------------------------------------------------
(* Retention. *)

LEMMA ExpireIInv ==
  ASSUME IInv, NEW k \in Keys, Expire(k)
  PROVE  IInv'
<1>. USE DEF IInv, Expire
<1>1. TypeOK'
  BY DEF TypeOK, request, history
<1>2. LocksAgree'
  BY DEF LocksAgree, request
<1>3. RequestsAgree'
  BY DEF RequestsAgree, request
<1>4. InsertsAgree'
  BY InsertsFrame DEF InsertsAgree, request
<1>5. KeyIsFree'
  BY DEF KeyIsFree, Seen, request
<1>6. AnswersAgree' /\ AcceptedOnce'
  BY HistoryFrame DEF history
<1>. QED
  BY <1>1, <1>2, <1>3, <1>4, <1>5, <1>6

LEMMA PruneIInv ==
  ASSUME IInv, Prune
  PROVE  IInv'
<1>. USE DEF IInv, Prune
<1>1. TypeOK'
  BY DEF TypeOK, Prunable, committed, request, history
<1>2. LocksAgree'
  BY DEF LocksAgree, request
<1>3. RequestsAgree'
  BY DEF RequestsAgree, Prunable, Open, committed, request
<1>4. InsertsAgree'
  BY InsertsFrame DEF InsertsAgree, committed, request
<1>5. KeyIsFree'
  BY DEF KeyIsFree, Seen, committed, request
<1>6. AnswersAgree' /\ AcceptedOnce'
  BY HistoryFrame DEF committed, history
<1>. QED
  BY <1>1, <1>2, <1>3, <1>4, <1>5, <1>6

(* The scheduler removes only rows that no request has deleted or stored.  *)
LEMMA EndPruneIInv ==
  ASSUME IInv, EndPrune
  PROVE  IInv'
<1>. USE DEF IInv, EndPrune
<1>1. TypeOK'
  BY DEF TypeOK, request
<1>2. LocksAgree'
  BY DEF LocksAgree, request
<1>3. RequestsAgree'
  BY DEF TypeOK, RequestsAgree, request
<1>4. InsertsAgree'
  BY InsertsFrame DEF InsertsAgree, request
<1>5. KeyIsFree'
  BY DEF TypeOK, KeyIsFree, Seen, request
<1>6. AnswersAgree'
  BY DEF TypeOK, AnswersAgree
<1>7. AcceptedOnce'
  BY DEF AcceptedOnce
<1>. QED
  BY <1>1, <1>2, <1>3, <1>4, <1>5, <1>6, <1>7

-----------------------------------------------------------------------------
LEMMA InitIInv ==
  ASSUME Init
  PROVE  IInv
<1>. USE DEF Init, Atomic!Init
<1>1. TypeOK
  BY DEF TypeOK, Open, NoInserts
<1>2. InsertsAgree
  BY DEF InsertsAgree, NoInserts
<1>. QED
  BY <1>1, <1>2 DEF IInv, LocksAgree, Locked, RequestsAgree, KeyIsFree, AnswersAgree, AcceptedOnce

LEMMA NextIInv ==
  ASSUME IInv, [Next]_vars
  PROVE  IInv'
<1>1. CASE UNCHANGED vars
  <2>1. InsertsAgree'
    BY <1>1, InsertsFrame DEF IInv, InsertsAgree, vars, committed, request
  <2>. QED
    BY <1>1, <2>1 DEF IInv, TypeOK, LocksAgree, RequestsAgree, KeyIsFree, Seen, AnswersAgree,
                      AcceptedOnce, vars, committed, request, history
<1>2. ASSUME NEW r \in Requests, Handle(r) PROVE IInv'
  BY <1>2, LockIInv, ExpireKeyIInv, ReplayIInv, FirstUseIInv, CheckAssetIInv, RejectInvalidIInv,
     RejectDuplicateIInv, AcceptIInv, CommitIInv, ReplyIInv DEF Handle, Insert
<1>. QED
  BY <1>1, <1>2, ReceiveIInv, AbortIInv, ExpireIInv, PruneIInv, EndPruneIInv
     DEF Next, BreakDeadlock, Retention

(* The inductive invariant holds in every state: locks, rows, verdicts and *)
(* inserts of all requests agree.                                          *)
THEOREM IngestInvariance == Spec => []IInv
<1>. QED
  BY InitIInv, NextIInv, PTL DEF Spec

(* However requests with one key overlap, abort and come again, and        *)
(* whenever the scheduler prunes, the INSERT of the answer cannot fail on  *)
(* the primary key after the events were inserted.                         *)
THEOREM IngestKeyIsFree == Spec => []KeyIsFree
<1>1. IInv => KeyIsFree
  BY DEF IInv
<1>. QED
  BY <1>1, IngestInvariance, PTL

(* Every answer a client has for the present row of a key is the stored    *)
(* one, and each stored observation was reported as accepted exactly once. *)
THEOREM IngestAnswersAreTrue == Spec => []AnswersAreTrue
<1>1. IInv => AnswersAreTrue
  BY DEF IInv, AnswersAreTrue
<1>. QED
  BY <1>1, IngestInvariance, PTL

-----------------------------------------------------------------------------
(* Refinement of AtomicIngest: a batch takes effect at its commit, the     *)
(* retention when a row expires and when the scheduler commits its pass.   *)

(* The commit of a batch is the step that AtomicIngest promises.           *)
LEMMA CommitRefines ==
  ASSUME IInv, NEW r \in Requests, Commit(r)
  PROVE  Atomic!Next
<1>1. /\ body[r] \in Bodies /\ body[r].known
      /\ results[r] = Atomic!AnswerTo(body[r], store)
      /\ store' = Atomic!StoreAfter(body[r], store)
      /\ key[r] # NoKey => key[r] \in Keys /\ Atomic!Free(key[r])
  BY CommitFacts
<1>2. CASE key[r] = NoKey
  <2>1. Atomic!Apply(body[r])
    BY <1>1, <1>2 DEF Commit, Atomic!Apply
  <2>. QED
    BY <1>1, <2>1 DEF Atomic!Next
<1>3. CASE key[r] # NoKey
  <2>1. Atomic!ApplyKeyed(key[r], body[r])
    BY <1>1, <1>3 DEF Commit, Atomic!ApplyKeyed
  <2>. QED
    BY <1>1, <1>3, <2>1 DEF Atomic!Next
<1>. QED
  BY <1>2, <1>3

LEMMA RetentionRefines ==
  ASSUME IInv, Retention
  PROVE  [Atomic!Next]_(Atomic!promise)
<1>1. ASSUME NEW k \in Keys, Expire(k) PROVE Atomic!Next
  <2>1. Atomic!Expire(k)
    BY <1>1 DEF Expire, Atomic!Expire
  <2>. QED
    BY <2>1 DEF Atomic!Next
<1>2. CASE Prune
  BY <1>2 DEF Prune, committed, Atomic!promise
<1>3. CASE EndPrune /\ ~UNCHANGED keyRow
  <2>1. pruning \subseteq expired /\ pruning \in SUBSET Keys
    BY DEF IInv, TypeOK
  <2>2. Atomic!Remove(pruning)
    BY <1>3, <2>1 DEF EndPrune, Atomic!Remove
  <2>. QED
    BY <2>1, <2>2 DEF Atomic!Next
<1>4. CASE EndPrune /\ UNCHANGED <<keyRow, expired>>
  BY <1>4 DEF EndPrune, Atomic!promise
<1>5. ASSUME EndPrune, UNCHANGED keyRow, expired' # expired PROVE FALSE
  <2>1. PICK k \in pruning : keyRow'[k] = NoRow
    BY <1>5 DEF EndPrune, IInv, TypeOK
  <2>. QED
    BY <1>5, <2>1 DEF IInv, TypeOK
<1>. QED
  BY <1>1, <1>2, <1>3, <1>4, <1>5 DEF Retention

(* Batches handled concurrently, with crossing keys and slots, aborts,     *)
(* retries and the scheduler, are indistinguishable in what is stored from *)
(* batches that take effect one at a time.                                 *)
THEOREM IngestImplementsAtomicIngest == Spec => ImplementsAtomicIngest
<1>1. Init => Atomic!Init
  BY DEF Init
<1>2. ASSUME IInv, [Next]_vars
      PROVE  [Atomic!Next]_(Atomic!promise)
  <2>1. CASE UNCHANGED vars
    BY <2>1 DEF vars, committed, Atomic!promise
  <2>2. ASSUME NEW r \in Requests, NEW k \in Keys \cup {NoKey}, NEW b \in Bodies, Receive(r, k, b)
        PROVE  UNCHANGED Atomic!promise
    BY <2>2 DEF Receive, committed, Atomic!promise
  <2>3. ASSUME NEW r \in Requests, Handle(r) \/ Abort(r) \/ BreakDeadlock(r), ~Commit(r)
        PROVE  UNCHANGED Atomic!promise
    BY <2>3 DEF Handle, Lock, ExpireKey, Replay, FirstUse, CheckAsset, Insert, RejectInvalid,
                RejectDuplicate, Accept, Reply, Abort, BreakDeadlock, committed, Atomic!promise
  <2>. QED
    BY <1>2, <2>1, <2>2, <2>3, CommitRefines, RetentionRefines DEF Next
<1>. QED
  BY <1>1, <1>2, IngestInvariance, PTL DEF Spec, ImplementsAtomicIngest, Atomic!Spec
=============================================================================
