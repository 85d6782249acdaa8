------------------------------- MODULE Gateway -------------------------------
(***************************************************************************)
(* The HTTP middleware add_request_id: every request asks the bucket of    *)
(* its client and then the bucket of its tenant, its body is read up to a  *)
(* limit, and the endpoint is called, all before one deadline.  The event  *)
(* loop runs what is between two awaits as one step, and it is never       *)
(* blocked for as long as a tick: a timer fires before the next one.       *)
(***************************************************************************)
EXTENDS Integers, Sequences

CONSTANTS
  Requests,                 \* requests at the same time; each may be made again
  ClientIds, Tenants,
  Capacity, NoBucket,
  ClientFull, ClientCost,   \* burst and rate of a client
  TenantFull, TenantCost,   \* burst and rate of a tenant
  Timeout,                  \* request_timeout_s
  MaxBytes,                 \* request_max_bytes
  ChunkSizes,               \* sizes of the parts a body arrives in
  Horizon                   \* bound: no request is made after it

VARIABLES
  clientBucket, clientOrder, clientLog, clientUses,  \* _RATE_LIMITS
  tenantBucket, tenantOrder, tenantLog, tenantUses,  \* _TENANT_LIMITS
  now,
  pc,        \* pc[r]: "idle", "reading" its body, or "handling" it
  got,       \* got[r]: bytes read
  deadline,  \* deadline[r]: when its timer fires
  arrived    \* history: arrived[r], when it came

clientCache == <<clientBucket, clientOrder, clientLog, clientUses>>
tenantCache == <<tenantBucket, tenantOrder, tenantLog, tenantUses>>
request == <<pc, got, deadline, arrived>>
vars == <<clientCache, tenantCache, now, request>>

Clients == INSTANCE TokenBuckets
  WITH Keys <- ClientIds, Full <- ClientFull, Cost <- ClientCost,
       bucket <- clientBucket, order <- clientOrder, log <- clientLog, uses <- clientUses

Quotas == INSTANCE TokenBuckets
  WITH Keys <- Tenants, Full <- TenantFull, Cost <- TenantCost,
       bucket <- tenantBucket, order <- tenantOrder, log <- tenantLog, uses <- tenantUses

ASSUME GatewayAssumption ==
  /\ Clients!BucketAssumption /\ Quotas!BucketAssumption
  /\ Timeout \in Nat \ {0}
  /\ MaxBytes \in Nat \ {0}
  /\ ChunkSizes \subseteq Nat
  /\ Horizon \in Nat

TypeOK ==
  /\ Clients!TypeOK /\ Quotas!TypeOK
  /\ pc \in [Requests -> {"idle", "reading", "handling"}]
  /\ got \in [Requests -> 0..MaxBytes]
  /\ deadline \in [Requests -> 0..(Horizon + Timeout)]
  /\ arrived \in [Requests -> 0..Horizon]

Init ==
  /\ Clients!Init /\ Quotas!Init
  /\ pc = [r \in Requests |-> "idle"]
  /\ got = [r \in Requests |-> 0]
  /\ deadline = [r \in Requests |-> 0]
  /\ arrived = [r \in Requests |-> 0]

-----------------------------------------------------------------------------
(* The arrival of a request, up to the first await. *)

Arrives(r) == pc[r] = "idle" /\ now <= Horizon

(* RATE_LIMITED: the quota of the tenant is not asked. *)
RefuseClient(r, c) ==
  /\ Arrives(r)
  /\ ~Clients!Allows(c)
  /\ Clients!Ask(c)
  /\ UNCHANGED <<tenantCache, request>>

(* TENANT_RATE_LIMITED, after the client has paid. *)
RefuseTenant(r, c, t) ==
  /\ Arrives(r)
  /\ Clients!Allows(c) /\ Clients!Ask(c)
  /\ ~Quotas!Allows(t) /\ Quotas!Ask(t)
  /\ UNCHANGED request

(* REQUEST_TOO_LARGE from Content-Length alone. *)
RefuseDeclared(r, c, t) ==
  /\ Arrives(r)
  /\ Clients!Allows(c) /\ Clients!Ask(c)
  /\ Quotas!Allows(t) /\ Quotas!Ask(t)
  /\ UNCHANGED request

Admit(r, c, t) ==
  /\ Arrives(r)
  /\ Clients!Allows(c) /\ Clients!Ask(c)
  /\ Quotas!Allows(t) /\ Quotas!Ask(t)
  /\ pc' = [pc EXCEPT ![r] = "reading"]
  /\ deadline' = [deadline EXCEPT ![r] = now + Timeout]
  /\ arrived' = [arrived EXCEPT ![r] = now]
  /\ UNCHANGED got

-----------------------------------------------------------------------------
(* The body and the endpoint, under the deadline. *)

End(r) ==
  /\ pc' = [pc EXCEPT ![r] = "idle"]
  /\ got' = [got EXCEPT ![r] = 0]
  /\ deadline' = [deadline EXCEPT ![r] = 0]
  /\ arrived' = [arrived EXCEPT ![r] = 0]
  /\ UNCHANGED <<clientCache, tenantCache, now>>

Read(r, n) ==
  /\ pc[r] = "reading"
  /\ n <= MaxBytes - got[r]
  /\ got' = [got EXCEPT ![r] = @ + n]
  /\ UNCHANGED <<clientCache, tenantCache, now, pc, deadline, arrived>>

(* REQUEST_TOO_LARGE, whatever was declared. *)
RefuseBody(r, n) == pc[r] = "reading" /\ n > MaxBytes - got[r] /\ End(r)

(* Mutant of Call: the timer starts again after the upload. *)
CallWithNewTimer(r) ==
  /\ pc[r] = "reading"
  /\ pc' = [pc EXCEPT ![r] = "handling"]
  /\ deadline' = [deadline EXCEPT ![r] = now + Timeout]
  /\ UNCHANGED <<clientCache, tenantCache, now, got, arrived>>

(* The end of the body: call_next. *)
Call(r) ==
  /\ pc[r] = "reading"
  /\ pc' = [pc EXCEPT ![r] = "handling"]
  /\ UNCHANGED <<clientCache, tenantCache, now, got, deadline, arrived>>

(* The response of the endpoint, or its exception. *)
Answer(r) == pc[r] = "handling" /\ End(r)

(* The client closes the connection before its body is complete. *)
Disconnect(r) == pc[r] = "reading" /\ End(r)

(* Mutant of TimeOut: the upload is outside the timeout. *)
TimeOutHandler(r) == pc[r] = "handling" /\ now = deadline[r] /\ End(r)

TimeOut(r) == pc[r] # "idle" /\ now = deadline[r] /\ End(r)

-----------------------------------------------------------------------------
(* Requests whose timer has fired are ended before the clock goes on.  The *)
(* clock stops when no request can be open.                                *)
Tick ==
  /\ now < Horizon + Timeout
  /\ \A r \in Requests : pc[r] # "idle" => now < deadline[r]
  /\ Clients!Tick
  /\ UNCHANGED <<tenantCache, request>>

Arrival(r) ==
  \E c \in ClientIds :
    \/ RefuseClient(r, c)
    \/ \E t \in Tenants : RefuseTenant(r, c, t) \/ RefuseDeclared(r, c, t) \/ Admit(r, c, t)

Progress(r) ==
  \/ Call(r) \/ Answer(r) \/ Disconnect(r) \/ TimeOut(r)
  \/ \E n \in ChunkSizes : Read(r, n) \/ RefuseBody(r, n)

Next == Tick \/ \E r \in Requests : Arrival(r) \/ Progress(r)

Spec == Init /\ [][Next]_vars

(* Time passes and timers fire.  No client and no endpoint has to act. *)
Fairness == WF_vars(Tick) /\ \A r \in Requests : WF_vars(TimeOut(r))

FairSpec == Spec /\ Fairness

-----------------------------------------------------------------------------
(* Properties *)

(* Neither a client nor a tenant is granted more than its burst and rate,  *)
(* although every request asks two buckets and may be refused by either.   *)
RatesHold == Clients!GrantsFitRate /\ Quotas!GrantsFitRate

(* A client or tenant within its rate is not refused by its bucket.        *)
RefusalsAreJustified == Clients!RefusalsAreJustified /\ Quotas!RefusalsAreJustified

(* The account of every bucket is exact: it neither grants nor refuses too *)
(* much, however many requests interleave.                                 *)
BucketsAreExact == RatesHold /\ RefusalsAreJustified

(* Only the buckets that were idle longest are ever reset.                 *)
MostRecentStay == Clients!MostRecentStay /\ Quotas!MostRecentStay

(* "A single deadline covers both streamed uploads and the downstream      *)
(* handler": a request is over Timeout after it came, however slow.        *)
OneDeadline == \A r \in Requests : pc[r] # "idle" => now <= arrived[r] + Timeout

(* What a request costs the server is bounded whatever it declares and in  *)
(* however many parts it comes: in time by its deadline, in memory by      *)
(* request_max_bytes over all parts together.                              *)
RequestsAreBounded == OneDeadline /\ \A r \in Requests : got[r] <= MaxBytes

(* The inductive invariant of the requests: a timer is set once, at the    *)
(* arrival, and has not been passed.                                       *)
RequestsIInv ==
  /\ now \in Nat
  /\ pc \in [Requests -> {"idle", "reading", "handling"}]
  /\ got \in [Requests -> 0..MaxBytes]
  /\ deadline \in [Requests -> Nat]
  /\ arrived \in [Requests -> Nat]
  /\ \A r \in Requests : pc[r] # "idle" =>
       deadline[r] = arrived[r] + Timeout /\ now <= deadline[r]

(* Every admitted request ends, though the client and the endpoint never   *)
(* do anything more.                                                       *)
RequestsEnd == \A r \in Requests : pc[r] # "idle" ~> pc[r] = "idle"
=============================================================================
