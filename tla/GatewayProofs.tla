---------------------------- MODULE GatewayProofs ----------------------------
(***************************************************************************)
(* Both caches of the gateway are caches of token buckets, so what is      *)
(* proved of one bucket cache holds of both.                               *)
(***************************************************************************)
EXTENDS Gateway, TLAPS

ClientFacts == INSTANCE TokenBucketsProofs
  WITH Keys <- ClientIds, Full <- ClientFull, Cost <- ClientCost,
       bucket <- clientBucket, order <- clientOrder, log <- clientLog, uses <- clientUses

QuotaFacts == INSTANCE TokenBucketsProofs
  WITH Keys <- Tenants, Full <- TenantFull, Cost <- TenantCost,
       bucket <- tenantBucket, order <- tenantOrder, log <- tenantLog, uses <- tenantUses

(* A step of the gateway asks each bucket cache at most once. *)
LEMMA StepAsksOnce ==
  ASSUME Next
  PROVE  /\ Clients!Next \/ UNCHANGED <<clientCache, now>>
         /\ Quotas!Next \/ UNCHANGED <<tenantCache, now>>
<1>1. CASE Tick
  BY <1>1 DEF Tick, Clients!Tick, Quotas!Tick, Clients!Next, Quotas!Next, tenantCache
<1>2. ASSUME NEW r \in Requests, NEW c \in ClientIds, RefuseClient(r, c)
      PROVE  Clients!Next /\ UNCHANGED <<tenantCache, now>>
  BY <1>2 DEF RefuseClient, Clients!Next, Clients!Ask
<1>3. ASSUME NEW r \in Requests, NEW c \in ClientIds, NEW t \in Tenants,
             RefuseTenant(r, c, t) \/ RefuseDeclared(r, c, t) \/ Admit(r, c, t)
      PROVE  Clients!Next /\ Quotas!Next
  BY <1>3 DEF RefuseTenant, RefuseDeclared, Admit, Clients!Next, Quotas!Next
<1>4. ASSUME NEW r \in Requests, Progress(r)
      PROVE  UNCHANGED <<clientCache, tenantCache, now>>
  BY <1>4 DEF Progress, Read, RefuseBody, Call, Answer, Disconnect, TimeOut, End
<1> QED
  BY <1>1, <1>2, <1>3, <1>4 DEF Next, Arrival

(* The requests of the gateway are to _RATE_LIMITS what Ask is to a cache  *)
(* of buckets: the module of one cache describes it.                       *)
THEOREM ClientsAreBuckets == Spec => ClientFacts!Spec
<1>1. Init => ClientFacts!Init
  BY DEF Init, Clients!Init, ClientFacts!Init
<1>2. [Next]_vars => [ClientFacts!Next]_(ClientFacts!vars)
  <2>1. Clients!Next => ClientFacts!Next
    BY DEF Clients!Next, Clients!Tick, Clients!Ask, Clients!Served, Clients!Reordered,
           Clients!Grants, Clients!Allows, Clients!Evicted, Clients!Tokens, Clients!Found,
           Clients!Refilled, Clients!Least, Clients!Excess, Clients!Stay, Clients!Without, Clients!KeysOf,
           ClientFacts!Next, ClientFacts!Tick, ClientFacts!Ask, ClientFacts!Served,
           ClientFacts!Reordered, ClientFacts!Grants, ClientFacts!Allows, ClientFacts!Evicted,
           ClientFacts!Tokens, ClientFacts!Found, ClientFacts!Refilled, ClientFacts!Least,
           ClientFacts!Excess, ClientFacts!Stay, ClientFacts!Without, ClientFacts!KeysOf
  <2> QED
    BY <2>1, StepAsksOnce DEF vars, ClientFacts!vars, clientCache
<1> QED
  BY <1>1, <1>2, PTL DEF Spec, ClientFacts!Spec

(* The same of _TENANT_LIMITS, which is asked after the client has paid.   *)
THEOREM QuotasAreBuckets == Spec => QuotaFacts!Spec
<1>1. Init => QuotaFacts!Init
  BY DEF Init, Quotas!Init, QuotaFacts!Init
<1>2. [Next]_vars => [QuotaFacts!Next]_(QuotaFacts!vars)
  <2>1. Quotas!Next => QuotaFacts!Next
    BY DEF Quotas!Next, Quotas!Tick, Quotas!Ask, Quotas!Served, Quotas!Reordered,
           Quotas!Grants, Quotas!Allows, Quotas!Evicted, Quotas!Tokens, Quotas!Found,
           Quotas!Refilled, Quotas!Least, Quotas!Excess, Quotas!Stay, Quotas!Without, Quotas!KeysOf,
           QuotaFacts!Next, QuotaFacts!Tick, QuotaFacts!Ask, QuotaFacts!Served,
           QuotaFacts!Reordered, QuotaFacts!Grants, QuotaFacts!Allows, QuotaFacts!Evicted,
           QuotaFacts!Tokens, QuotaFacts!Found, QuotaFacts!Refilled, QuotaFacts!Least,
           QuotaFacts!Excess, QuotaFacts!Stay, QuotaFacts!Without, QuotaFacts!KeysOf
  <2> QED
    BY <2>1, StepAsksOnce DEF vars, QuotaFacts!vars, tenantCache
<1> QED
  BY <1>1, <1>2, PTL DEF Spec, QuotaFacts!Spec

LEMMA Configured == ClientFacts!BucketAssumption /\ QuotaFacts!BucketAssumption
BY GatewayAssumption
DEF Clients!BucketAssumption, ClientFacts!BucketAssumption,
    Quotas!BucketAssumption, QuotaFacts!BucketAssumption

(* No client and no tenant is granted more than its burst and rate.        *)
THEOREM GatewayKeepsRates == Spec => []RatesHold
<1>1. ClientFacts!Spec => []ClientFacts!GrantsFitRate
  BY Configured, ClientFacts!RateHolds
<1>2. QuotaFacts!Spec => []QuotaFacts!GrantsFitRate
  BY Configured, QuotaFacts!RateHolds
<1>3. ClientFacts!GrantsFitRate /\ QuotaFacts!GrantsFitRate => RatesHold
  BY DEF RatesHold, ClientFacts!GrantsFitRate, Clients!GrantsFitRate,
         QuotaFacts!GrantsFitRate, Quotas!GrantsFitRate
<1> QED
  BY <1>1, <1>2, <1>3, ClientsAreBuckets, QuotasAreBuckets, PTL

(* No client and no tenant is refused while it fits its burst and rate.    *)
THEOREM GatewayRefusesNothingInVain == Spec => []RefusalsAreJustified
<1>1. ClientFacts!Spec => []ClientFacts!RefusalsAreJustified
  BY Configured, ClientFacts!NothingIsRefusedInVain
<1>2. QuotaFacts!Spec => []QuotaFacts!RefusalsAreJustified
  BY Configured, QuotaFacts!NothingIsRefusedInVain
<1>3. ClientFacts!RefusalsAreJustified /\ QuotaFacts!RefusalsAreJustified => RefusalsAreJustified
  BY DEF RefusalsAreJustified, ClientFacts!RefusalsAreJustified, Clients!RefusalsAreJustified,
         QuotaFacts!RefusalsAreJustified, Quotas!RefusalsAreJustified,
         ClientFacts!Overdrawn, Clients!Overdrawn, QuotaFacts!Overdrawn, Quotas!Overdrawn,
         ClientFacts!Since, Clients!Since, QuotaFacts!Since, Quotas!Since,
         ClientFacts!Refilled, Clients!Refilled, QuotaFacts!Refilled, Quotas!Refilled,
         ClientFacts!Least, Clients!Least, QuotaFacts!Least, Quotas!Least
<1> QED
  BY <1>1, <1>2, <1>3, ClientsAreBuckets, QuotasAreBuckets, PTL

(* Both caches keep an exact account of every client and tenant.           *)
THEOREM GatewayAccountsExactly == Spec => []BucketsAreExact
<1>1. RatesHold /\ RefusalsAreJustified => BucketsAreExact
  BY DEF BucketsAreExact
<1> QED
  BY <1>1, GatewayKeepsRates, GatewayRefusesNothingInVain, PTL

(* Both caches drop who came least recently: a client or tenant loses its  *)
(* bucket, and with it its account, only when as many others asked after   *)
(* it as the cache holds.                                                  *)
THEOREM GatewayKeepsMostRecent == Spec => []MostRecentStay
<1>1. ClientFacts!Spec => []ClientFacts!MostRecentStay
  BY Configured, ClientFacts!CacheKeepsMostRecent
<1>2. QuotaFacts!Spec => []QuotaFacts!MostRecentStay
  BY Configured, QuotaFacts!CacheKeepsMostRecent
<1>3. ClientFacts!MostRecentStay /\ QuotaFacts!MostRecentStay => MostRecentStay
  BY DEF MostRecentStay, ClientFacts!MostRecentStay, Clients!MostRecentStay,
         QuotaFacts!MostRecentStay, Quotas!MostRecentStay,
         ClientFacts!Least, Clients!Least, QuotaFacts!Least, Quotas!Least,
         ClientFacts!KeysOf, Clients!KeysOf, QuotaFacts!KeysOf, Quotas!KeysOf
<1> QED
  BY <1>1, <1>2, <1>3, ClientsAreBuckets, QuotasAreBuckets, PTL

-----------------------------------------------------------------------------
(* The requests. *)

(* The steps of an arrival that open no request. *)
LEMMA RefusalKeepsRequests ==
  ASSUME RequestsIInv, UNCHANGED <<request, now>>
  PROVE  RequestsIInv'
BY DEF RequestsIInv, request

(* Every step keeps the deadline of every open request, and the clock      *)
(* waits for a timer that fires.                                           *)
LEMMA NextRequestsIInv == RequestsIInv /\ [Next]_vars => RequestsIInv'
<1> SUFFICES ASSUME RequestsIInv, [Next]_vars
             PROVE  RequestsIInv'
  OBVIOUS
<1> USE GatewayAssumption
<1>1. CASE UNCHANGED vars
  BY <1>1, RefusalKeepsRequests DEF vars
<1>2. CASE Tick
  BY <1>2 DEF RequestsIInv, Tick, Clients!Tick, request
<1>3. ASSUME NEW r \in Requests, NEW c \in ClientIds, RefuseClient(r, c)
      PROVE  RequestsIInv'
  BY <1>3, RefusalKeepsRequests DEF RefuseClient, Clients!Ask
<1>4. ASSUME NEW r \in Requests, NEW c \in ClientIds, NEW t \in Tenants,
             RefuseTenant(r, c, t) \/ RefuseDeclared(r, c, t)
      PROVE  RequestsIInv'
  BY <1>4, RefusalKeepsRequests DEF RefuseTenant, RefuseDeclared, Clients!Ask
<1>5. ASSUME NEW r \in Requests, NEW c \in ClientIds, NEW t \in Tenants, Admit(r, c, t)
      PROVE  RequestsIInv'
  BY <1>5 DEF RequestsIInv, Admit, Clients!Ask
<1>6. ASSUME NEW r \in Requests, End(r)
      PROVE  RequestsIInv'
  BY <1>6 DEF RequestsIInv, End
<1>7. ASSUME NEW r \in Requests, NEW n \in ChunkSizes, Read(r, n)
      PROVE  RequestsIInv'
  BY <1>7 DEF RequestsIInv, Read
<1>8. ASSUME NEW r \in Requests, Call(r)
      PROVE  RequestsIInv'
  BY <1>8 DEF RequestsIInv, Call
<1>9. ASSUME NEW r \in Requests, Progress(r)
      PROVE  RequestsIInv'
  BY <1>6, <1>7, <1>8, <1>9 DEF Progress, Answer, Disconnect, TimeOut, RefuseBody
<1>. QED
  BY <1>1, <1>2, <1>3, <1>4, <1>5, <1>9 DEF Next, Arrival

(* However slow its upload and its endpoint, and in however many parts the *)
(* body comes: a request is over Timeout after it came and never holds     *)
(* more than request_max_bytes.                                            *)
THEOREM GatewayBoundsRequests == Spec => []RequestsAreBounded
<1>1. Init => RequestsIInv
  BY GatewayAssumption DEF Init, Clients!Init, RequestsIInv
<1>2. RequestsIInv => RequestsAreBounded
  BY GatewayAssumption DEF RequestsIInv, RequestsAreBounded, OneDeadline
<1>. QED
  BY <1>1, <1>2, NextRequestsIInv, PTL DEF Spec
=============================================================================
