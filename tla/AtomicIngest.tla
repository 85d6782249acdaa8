---------------------------- MODULE AtomicIngest ----------------------------
(***************************************************************************)
(* What POST /v1/telemetry/events:batch promises: a batch takes effect in  *)
(* one step, an observation once stored is never changed, and the answer   *)
(* kept under an idempotency key is the one that step gave.                *)
(***************************************************************************)
EXTENDS Naturals, Sequences

CONSTANTS
  Slots,    \* primary keys (asset_id, metric, ts) of telemetry_observation
  Values,   \* what an observation can hold
  NoValue,  \* no observation is stored
  Invalid,  \* the value of an event that fails validation
  Bodies,   \* request bodies: [known, events], events a sequence of [slot, value]
  Keys,     \* idempotency keys
  NoKey,    \* a request without the Idempotency-Key header
  NoRow     \* no row for a key

VARIABLES
  store,    \* store[s]: the observation in slot s
  keyRow,   \* keyRow[k]: the ingest_idempotency row of k
  expired   \* keys whose row is older than seven days

promise == <<store, keyRow, expired>>

Verdict == {"accepted", "duplicate", "invalid"}

Valid(e) == e.value # Invalid

(* The answer to a body against the observations stored before it. *)
AnswerTo(b, s) ==
  [i \in DOMAIN b.events |->
     LET e == b.events[i]
         repeated == \E h \in 1..(i - 1) : Valid(b.events[h]) /\ b.events[h].slot = e.slot
     IN  IF ~Valid(e) THEN "invalid"
         ELSE IF s[e.slot] # NoValue \/ repeated THEN "duplicate" ELSE "accepted"]

(* The observations after it: what AnswerTo accepts is stored. *)
StoreAfter(b, s) ==
  [x \in Slots |->
     LET new == {i \in DOMAIN b.events : b.events[i].slot = x /\ AnswerTo(b, s)[i] = "accepted"}
     IN  IF new = {} THEN s[x] ELSE b.events[CHOOSE i \in new : TRUE].value]

Init ==
  /\ store = [s \in Slots |-> NoValue]
  /\ keyRow = [k \in Keys |-> NoRow]
  /\ expired = {}

Free(k) == keyRow[k] = NoRow \/ k \in expired

Apply(b) ==
  /\ store' = StoreAfter(b, store)
  /\ UNCHANGED <<keyRow, expired>>

ApplyKeyed(k, b) ==
  /\ Free(k)
  /\ store' = StoreAfter(b, store)
  /\ keyRow' = [keyRow EXCEPT ![k] = [body |-> b, answer |-> AnswerTo(b, store)]]
  /\ expired' = expired \ {k}

Expire(k) ==
  /\ keyRow[k] # NoRow
  /\ expired' = expired \cup {k}
  /\ UNCHANGED <<store, keyRow>>

Remove(gone) ==
  /\ gone \subseteq expired
  /\ keyRow' = [k \in Keys |-> IF k \in gone THEN NoRow ELSE keyRow[k]]
  /\ expired' = expired \ gone
  /\ UNCHANGED store

Next ==
  \/ \E b \in Bodies : b.known /\ (Apply(b) \/ \E k \in Keys : ApplyKeyed(k, b))
  \/ \E k \in Keys : Expire(k)
  \/ \E gone \in SUBSET Keys : Remove(gone)

Spec == Init /\ [][Next]_promise
=============================================================================
