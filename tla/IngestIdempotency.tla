-------------------------- MODULE IngestIdempotency --------------------------
(***************************************************************************)
(* The handler ingest_events_batch and the retention of its keys.          *)
(*                                                                         *)
(* Several requests are handled at once, each in one transaction under     *)
(* READ COMMITTED.  A request with a key takes the advisory lock of the    *)
(* key, deletes its row if it has expired, and either replays the stored   *)
(* answer or inserts its events one by one with ON CONFLICT DO NOTHING and *)
(* stores its answer.  Clients retry: a request can come again while the   *)
(* first one is being handled, after it was cancelled by the request       *)
(* timeout, or after its answer was lost.  The scheduler prunes expired    *)
(* keys in a transaction of its own.                                       *)
(***************************************************************************)
EXTENDS Naturals, Sequences, FiniteSets

CONSTANTS
  Requests,   \* requests handled at the same time
  NoRequest,  \* an advisory lock nobody holds
  Slots, Values, NoValue, Invalid, Bodies, Keys, NoKey, NoRow,  \* as in AtomicIngest
  PruneBatch  \* keys the scheduler removes in one pass

ASSUME IngestAssumption ==
  /\ NoValue \notin Values
  /\ Invalid \notin Values
  /\ NoKey \notin Keys
  /\ Bodies \subseteq [known  : BOOLEAN,
                       events : Seq([slot : Slots, value : Values \cup {Invalid}])]

ASSUME RequestAssumption == NoRequest \notin Requests /\ PruneBatch \in Nat \ {0}

VARIABLES
  store, keyRow, expired,  \* committed, as in AtomicIngest
  holder,   \* holder[k]: the request that holds the advisory lock of k
  pruning,  \* keys whose rows the scheduler has deleted and not committed
  pc,       \* pc[r]: where the handler of r is
  key,      \* key[r]: the key r came with
  body,     \* body[r]: its body
  late,     \* late[r]: the row of its key had expired when its transaction began
  dropped,  \* dropped[r]: r has deleted the row of its key
  mine,     \* mine[r]: observations r has inserted and not committed
  results,  \* results[r]: the verdicts so far
  told,     \* answers clients received for the present row of a key (auxiliary)
  credit    \* credit[s]: committed answers that accepted an event for s (auxiliary)

committed == <<store, keyRow, expired>>
request == <<pc, key, body, late, dropped, mine, results>>
history == <<told, credit>>
vars == <<committed, holder, pruning, request, history>>

Atomic == INSTANCE AtomicIngest

Row == [body : Bodies, answer : Seq(Atomic!Verdict)]

ASSUME RowAssumption == NoRow \notin Row

Open == {"locking", "expiring", "looking", "checking", "inserting"}

NoInserts == [s \in Slots |-> NoValue]

AnyBody == CHOOSE b \in Bodies : TRUE

TypeOK ==
  /\ store \in [Slots -> Values \cup {NoValue}]
  /\ keyRow \in [Keys -> Row \cup {NoRow}]
  /\ expired \subseteq {k \in Keys : keyRow[k] # NoRow}
  /\ holder \in [Keys -> Requests \cup {NoRequest}]
  /\ pruning \subseteq expired
  /\ pc \in [Requests -> Open \cup {"free", "committed"}]
  /\ key \in [Requests -> Keys \cup {NoKey}]
  /\ body \in [Requests -> Bodies \cup {AnyBody}]
  /\ late \in [Requests -> BOOLEAN]
  /\ dropped \in [Requests -> BOOLEAN]
  /\ mine \in [Requests -> [Slots -> Values \cup {NoValue}]]
  /\ results \in [Requests -> Seq(Atomic!Verdict)]
  /\ told \subseteq [key : Keys, body : Bodies, answer : Seq(Atomic!Verdict)]
  /\ credit \in [Slots -> Nat]

Init ==
  /\ Atomic!Init
  /\ holder = [k \in Keys |-> NoRequest]
  /\ pruning = {}
  /\ pc = [r \in Requests |-> "free"]
  /\ key = [r \in Requests |-> NoKey]
  /\ body = [r \in Requests |-> AnyBody]
  /\ late = [r \in Requests |-> FALSE]
  /\ dropped = [r \in Requests |-> FALSE]
  /\ mine = [r \in Requests |-> NoInserts]
  /\ results = [r \in Requests |-> <<>>]
  /\ told = {}
  /\ credit = [s \in Slots |-> 0]

-----------------------------------------------------------------------------
(* A request arrives, authorised and with a valid key. *)
Receive(r, k, b) ==
  /\ pc[r] = "free"
  /\ pc' = [pc EXCEPT ![r] = IF k = NoKey THEN "checking" ELSE "locking"]
  /\ key' = [key EXCEPT ![r] = k]
  /\ body' = [body EXCEPT ![r] = b]
  /\ late' = [late EXCEPT ![r] = k \in expired]
  /\ UNCHANGED <<committed, holder, pruning, dropped, mine, results, history>>

(* Mutant of Lock: pg_advisory_xact_lock is not called. *)
LockNothing(r) ==
  /\ pc[r] = "locking"
  /\ pc' = [pc EXCEPT ![r] = "expiring"]
  /\ UNCHANGED <<committed, holder, pruning, key, body, late, dropped, mine, results, history>>

Lock(r) ==
  /\ pc[r] = "locking"
  /\ holder[key[r]] = NoRequest
  /\ holder' = [holder EXCEPT ![key[r]] = r]
  /\ pc' = [pc EXCEPT ![r] = "expiring"]
  /\ UNCHANGED <<committed, pruning, key, body, late, dropped, mine, results, history>>

(* The row of the key is deleted if it had expired when the transaction    *)
(* began; the DELETE waits for the scheduler when it is deleting the row.  *)
ExpireKey(r) ==
  /\ pc[r] = "expiring"
  /\ late[r] => key[r] \notin pruning
  /\ dropped' = [dropped EXCEPT ![r] = late[r] /\ key[r] \in expired]
  /\ pc' = [pc EXCEPT ![r] = "looking"]
  /\ UNCHANGED <<committed, holder, pruning, key, body, late, mine, results, history>>

(* The row r sees for its key. *)
Seen(r) == IF dropped[r] THEN NoRow ELSE keyRow[key[r]]

(* The transaction of r ends and its locks go. *)
Finish(r) ==
  /\ holder' = [k \in Keys |-> IF holder[k] = r THEN NoRequest ELSE holder[k]]
  /\ key' = [key EXCEPT ![r] = NoKey]
  /\ body' = [body EXCEPT ![r] = AnyBody]
  /\ late' = [late EXCEPT ![r] = FALSE]
  /\ dropped' = [dropped EXCEPT ![r] = FALSE]
  /\ mine' = [mine EXCEPT ![r] = NoInserts]
  /\ results' = [results EXCEPT ![r] = <<>>]
  /\ pc' = [pc EXCEPT ![r] = "free"]

Tell(r, answer) == told' = told \cup {[key |-> key[r], body |-> body[r], answer |-> answer]}

(* Mutant of Replay: a changed body gets the stored answer too. *)
ReplayAnything(r) ==
  /\ pc[r] = "looking"
  /\ Seen(r) # NoRow
  /\ Tell(r, Seen(r).answer)
  /\ Finish(r)
  /\ UNCHANGED <<committed, pruning, credit>>

(* Mutant of Replay: the session of a replay stays open. *)
ReplayKeepsSession(r) ==
  /\ pc[r] = "looking"
  /\ Seen(r) # NoRow
  /\ pc' = [pc EXCEPT ![r] = "free"]
  /\ UNCHANGED <<committed, holder, pruning, key, body, late, dropped, mine, results, history>>

(* A row is found: the stored answer is replayed to the same request and a *)
(* different one is refused with 409.  Nothing is committed.               *)
Replay(r) ==
  /\ pc[r] = "looking"
  /\ Seen(r) # NoRow
  /\ IF Seen(r).body = body[r] THEN Tell(r, Seen(r).answer) ELSE UNCHANGED told
  /\ Finish(r)
  /\ UNCHANGED <<committed, pruning, credit>>

FirstUse(r) ==
  /\ pc[r] = "looking"
  /\ Seen(r) = NoRow
  /\ pc' = [pc EXCEPT ![r] = "checking"]
  /\ UNCHANGED <<committed, holder, pruning, key, body, late, dropped, mine, results, history>>

(* 404 for an unknown device ends the request without a commit. *)
CheckAsset(r) ==
  /\ pc[r] = "checking"
  /\ IF body[r].known
     THEN /\ pc' = [pc EXCEPT ![r] = "inserting"]
          /\ UNCHANGED <<holder, key, body, late, dropped, mine, results>>
     ELSE Finish(r)
  /\ UNCHANGED <<committed, pruning, history>>

-----------------------------------------------------------------------------
(* The events, one INSERT after the other. *)

Pending(r) == pc[r] = "inserting" /\ Len(results[r]) < Len(body[r].events)

NextEvent(r) == body[r].events[Len(results[r]) + 1]

(* An INSERT waits for another transaction that has inserted the same slot.*)
WaitsFor(r, q) ==
  /\ q # r
  /\ Pending(r)
  /\ Atomic!Valid(NextEvent(r))
  /\ store[NextEvent(r).slot] = NoValue
  /\ mine[q][NextEvent(r).slot] # NoValue

Waits(r) == \E q \in Requests : WaitsFor(r, q)

Verdict(r, v) == results' = [results EXCEPT ![r] = Append(@, v)]

RejectInvalid(r) ==
  /\ Pending(r)
  /\ ~Atomic!Valid(NextEvent(r))
  /\ Verdict(r, "invalid")
  /\ UNCHANGED <<committed, holder, pruning, pc, key, body, late, dropped, mine, history>>

RejectDuplicate(r) ==
  /\ Pending(r)
  /\ Atomic!Valid(NextEvent(r))
  /\ store[NextEvent(r).slot] # NoValue \/ mine[r][NextEvent(r).slot] # NoValue
  /\ Verdict(r, "duplicate")
  /\ UNCHANGED <<committed, holder, pruning, pc, key, body, late, dropped, mine, history>>

(* Mutant of Accept: an event repeated in the batch overwrites the first.  *)
AcceptRepeated(r) ==
  /\ Pending(r)
  /\ Atomic!Valid(NextEvent(r))
  /\ store[NextEvent(r).slot] = NoValue
  /\ ~Waits(r)
  /\ mine' = [mine EXCEPT ![r][NextEvent(r).slot] = NextEvent(r).value]
  /\ Verdict(r, "accepted")
  /\ UNCHANGED <<committed, holder, pruning, pc, key, body, late, dropped, history>>

Accept(r) ==
  /\ Pending(r)
  /\ Atomic!Valid(NextEvent(r))
  /\ store[NextEvent(r).slot] = NoValue
  /\ mine[r][NextEvent(r).slot] = NoValue
  /\ ~Waits(r)
  /\ mine' = [mine EXCEPT ![r][NextEvent(r).slot] = NextEvent(r).value]
  /\ Verdict(r, "accepted")
  /\ UNCHANGED <<committed, holder, pruning, pc, key, body, late, dropped, history>>

(* The answer is stored under the key and everything is committed. *)
Commit(r) ==
  /\ pc[r] = "inserting"
  /\ ~Pending(r)
  /\ store' = [s \in Slots |-> IF mine[r][s] # NoValue THEN mine[r][s] ELSE store[s]]
  /\ IF key[r] = NoKey
     THEN UNCHANGED <<keyRow, expired, told>>
     ELSE /\ keyRow' = [keyRow EXCEPT ![key[r]] = [body |-> body[r], answer |-> results[r]]]
          /\ expired' = expired \ {key[r]}
          /\ told' = {t \in told : t.key # key[r]}
  /\ credit' = [s \in Slots |-> credit[s] +
                  Cardinality({i \in DOMAIN results[r] :
                                 results[r][i] = "accepted" /\ body[r].events[i].slot = s})]
  /\ holder' = [k \in Keys |-> IF holder[k] = r THEN NoRequest ELSE holder[k]]
  /\ mine' = [mine EXCEPT ![r] = NoInserts]
  /\ pc' = [pc EXCEPT ![r] = "committed"]
  /\ UNCHANGED <<pruning, key, body, late, dropped, results>>

(* The answer reaches the client, or is lost on the way: the request       *)
(* timeout answers 504 although the batch is stored.                       *)
Reply(r) ==
  /\ pc[r] = "committed"
  /\ IF key[r] = NoKey THEN UNCHANGED told
     ELSE Tell(r, results[r]) \/ UNCHANGED told
  /\ Finish(r)
  /\ UNCHANGED <<committed, pruning, credit>>

(* The request timeout, a crash of the process or a database error: the    *)
(* session is closed and rolled back.                                      *)
Abort(r) ==
  /\ pc[r] \in Open
  /\ Finish(r)
  /\ UNCHANGED <<committed, pruning, history>>

(* Requests that wait for each other in a circle. *)
Circle(S) ==
  \A q \in S : (\E p \in S : WaitsFor(q, p)) /\ (\E p \in S : WaitsFor(p, q))

(* The server fails one of the statements that wait for each other. *)
BreakDeadlock(r) ==
  /\ \E S \in SUBSET Requests : r \in S /\ Circle(S)
  /\ Abort(r)

-----------------------------------------------------------------------------
(* Retention. *)

(* A row turns seven days old.  No answer is on its way and no transaction *)
(* is open that long.                                                      *)
Expire(k) ==
  /\ keyRow[k] # NoRow
  /\ k \notin expired
  /\ \A r \in Requests : key[r] = k => pc[r] # "committed" /\ ~late[r]
  /\ expired' = expired \cup {k}
  /\ UNCHANGED <<store, keyRow, holder, pruning, request, history>>

(* Rows prune_expired_idempotency can lock: SKIP LOCKED passes over those  *)
(* an ingestion has deleted.                                               *)
Prunable == {k \in expired : \A r \in Requests : ~(dropped[r] /\ pc[r] \in Open /\ key[r] = k)}

Prune ==
  /\ pruning = {}
  /\ \E gone \in SUBSET Prunable :
       /\ gone # {}
       /\ Cardinality(gone) <= PruneBatch
       /\ Cardinality(gone) < PruneBatch => gone = Prunable
       /\ pruning' = gone
  /\ UNCHANGED <<committed, holder, request, history>>

(* The scheduler commits its pass, or dies before it. *)
EndPrune ==
  /\ pruning # {}
  /\ pruning' = {}
  /\ \/ /\ keyRow' = [k \in Keys |-> IF k \in pruning THEN NoRow ELSE keyRow[k]]
        /\ expired' = expired \ pruning
        /\ told' = {t \in told : t.key \notin pruning}
     \/ UNCHANGED <<keyRow, expired, told>>
  /\ UNCHANGED <<store, holder, request, credit>>

-----------------------------------------------------------------------------
Insert(r) == RejectInvalid(r) \/ RejectDuplicate(r) \/ Accept(r)

Handle(r) ==
  \/ Lock(r) \/ ExpireKey(r) \/ Replay(r) \/ FirstUse(r) \/ CheckAsset(r)
  \/ Insert(r) \/ Commit(r) \/ Reply(r)

Retention == Prune \/ EndPrune \/ \E k \in Keys : Expire(k)

Next ==
  \/ \E r \in Requests, k \in Keys \cup {NoKey}, b \in Bodies : Receive(r, k, b)
  \/ \E r \in Requests : Handle(r) \/ Abort(r) \/ BreakDeadlock(r)
  \/ Retention

Spec == Init /\ [][Next]_vars

(* Handlers go on and the database serves waiting statements in turn; the  *)
(* scheduler ends its pass.  No client has to send or to time out.         *)
Fairness ==
  /\ \A r \in Requests : SF_vars(Handle(r)) /\ WF_vars(BreakDeadlock(r))
  /\ WF_vars(EndPrune)

FairSpec == Spec /\ Fairness

-----------------------------------------------------------------------------
(* Properties *)

(* Every answer a client has received for a key is the one stored under it *)
(* and was given to the body stored with it: retries, simultaneous or      *)
(* after a lost answer, get the prior response.                            *)
AnswersAgree ==
  \A t \in told :
    keyRow[t.key] # NoRow /\ keyRow[t.key].body = t.body /\ keyRow[t.key].answer = t.answer

(* A handler that is about to store its answer finds no row under its key: *)
(* neither a simultaneous retry nor the scheduler can make the INSERT fail *)
(* on the primary key after all events were inserted.                      *)
KeyIsFree ==
  \A r \in Requests :
    pc[r] \in {"checking", "inserting"} /\ key[r] # NoKey => Seen(r) = NoRow

(* Every stored observation was reported as accepted by exactly one        *)
(* committed batch and an event that was reported as accepted is stored,   *)
(* however batches with and without keys overlap, abort and retry.         *)
AcceptedOnce ==
  \A s \in Slots : credit[s] = IF store[s] = NoValue THEN 0 ELSE 1

(* Retries and crossing batches, with and without keys, leave clients and  *)
(* store in agreement: the two properties above of answers and of events.  *)
AnswersAreTrue == AnswersAgree /\ AcceptedOnce

(* Every request that came in is ended without the help of a timeout:      *)
(* retries wait for the lock of their key and then go on, and batches that *)
(* wait for each other's events are told apart by the server.              *)
RequestsEnd == \A r \in Requests : pc[r] # "free" ~> pc[r] = "free"

(* Handled concurrently, batches take effect one at a time at their        *)
(* commits, with the answers of AtomicIngest.                              *)
ImplementsAtomicIngest == Atomic!Spec

-----------------------------------------------------------------------------
(* The inductive invariant behind the safety properties above. *)

(* The phases in which a request with a key holds the lock of the key. *)
Locked == {"expiring", "looking", "checking", "inserting"}

LocksAgree ==
  /\ \A k \in Keys : holder[k] # NoRequest =>
       key[holder[k]] = k /\ pc[holder[k]] \in Locked
  /\ \A r \in Requests : pc[r] \in Locked /\ key[r] # NoKey => holder[key[r]] = r

(* A row that r has deleted is expired and not the scheduler's; a row that *)
(* r has committed stays until r has answered.                             *)
RequestsAgree ==
  \A r \in Requests :
    /\ pc[r] # "free" => body[r] \in Bodies
    /\ pc[r] \in {"locking", "expiring", "looking"} => key[r] # NoKey
    /\ dropped[r] => pc[r] \in {"looking", "checking", "inserting", "committed"}
    /\ dropped[r] /\ pc[r] # "committed" => key[r] \in expired \ pruning
    /\ pc[r] = "committed" /\ key[r] # NoKey =>
         /\ key[r] \notin expired
         /\ keyRow[key[r]] = [body |-> body[r], answer |-> results[r]]
    /\ pc[r] = "inserting" => body[r].known
    /\ pc[r] # "inserting" => mine[r] = NoInserts
    /\ pc[r] \notin {"inserting", "committed"} => results[r] = <<>>

(* The events for s that r has reported as accepted. *)
AcceptedAt(r, s) ==
  {i \in DOMAIN results[r] : results[r][i] = "accepted" /\ body[r].events[i].slot = s}

(* The verdicts so far are those the whole batch would get now, whatever   *)
(* others have committed meanwhile, and the inserts are what they accept.  *)
VerdictsHold(r) ==
  LET events == body[r].events
  IN  /\ Len(results[r]) <= Len(events)
      /\ \A i \in DOMAIN results[r] :
           /\ results[r][i] = Atomic!AnswerTo(body[r], store)[i]
           /\ Atomic!Valid(events[i]) =>
                store[events[i].slot] # NoValue \/ mine[r][events[i].slot] # NoValue
      /\ \A s \in Slots :
           IF mine[r][s] = NoValue THEN AcceptedAt(r, s) = {}
           ELSE \E i \in DOMAIN results[r] :
                  AcceptedAt(r, s) = {i} /\ mine[r][s] = events[i].value

(* No slot is inserted twice, by two requests or over a stored one. *)
InsertsAgree ==
  /\ \A r, q \in Requests, s \in Slots :
       r # q => mine[r][s] = NoValue \/ mine[q][s] = NoValue
  /\ \A r \in Requests, s \in Slots : mine[r][s] # NoValue => store[s] = NoValue
  /\ \A r \in Requests : pc[r] = "inserting" => VerdictsHold(r)

IInv ==
  /\ TypeOK
  /\ LocksAgree
  /\ RequestsAgree
  /\ InsertsAgree
  /\ KeyIsFree
  /\ AnswersAgree
  /\ AcceptedOnce
=============================================================================
