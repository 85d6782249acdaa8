----------------------------- MODULE TokenBuckets -----------------------------
(***************************************************************************)
(* A cache of token buckets: _TokenBucket and _get_bucket of the API.  The *)
(* cache has a capacity and drops its least recently used bucket.  Tokens  *)
(* are counted in the time it takes to earn them, so a bucket that was not *)
(* asked for n ticks has n more, and a request costs Cost.  The arithmetic *)
(* is exact; the code's is floating point.                                 *)
(***************************************************************************)
EXTENDS Integers, Sequences

CONSTANTS
  Keys,      \* client addresses or tenants
  Capacity,  \* rate_limit_bucket_capacity
  Full,      \* the burst, in ticks
  Cost,      \* 1 / rate, in ticks
  NoBucket   \* a key that is not in the cache

(* What the settings guarantee. *)
BucketAssumption ==
  /\ Capacity \in Nat \ {0}
  /\ Full \in Nat
  /\ Cost \in Nat \ {0}
  /\ NoBucket \notin [tokens : 0..Full, at : Nat]

VARIABLES
  bucket,  \* bucket[k]: the tokens of k when it last asked, and when that was
  order,   \* the keys of the cache, least recently used first
  now,     \* the monotonic clock
  log,     \* history: log[k], when the present bucket of k was granted a request
  uses     \* history: all keys that ever asked, the latest last

vars == <<bucket, order, now, log, uses>>

Least(a, b) == IF a <= b THEN a ELSE b
KeysOf(s) == {s[n] : n \in DOMAIN s}

Init ==
  /\ bucket = [k \in Keys |-> NoBucket]
  /\ order = <<>>
  /\ now = 0
  /\ log = [k \in Keys |-> <<>>]
  /\ uses = <<>>

-----------------------------------------------------------------------------
Refilled(b) == Least(Full, b.tokens + (now - b.at))

(* The bucket that _get_bucket returns. *)
Found(k) == IF bucket[k] = NoBucket THEN [tokens |-> Full, at |-> now] ELSE bucket[k]

Tokens(k) == Refilled(Found(k))

(* Mutant of Allows: part of a token is enough. *)
AllowsForPart(k) == Tokens(k) > 0

Allows(k) == Tokens(k) >= Cost

Served(k) == [tokens |-> IF Allows(k) THEN Tokens(k) - Cost ELSE Tokens(k), at |-> now]

(* How many buckets popitem(last=False) takes to make room for a new key. *)
Excess(k) == IF bucket[k] # NoBucket \/ Len(order) < Capacity THEN 0 ELSE Len(order) - Capacity + 1

Evicted(k) == {order[n] : n \in 1..Excess(k)}

Stay(k) == SubSeq(order, Excess(k) + 1, Len(order))

(* The keys of s but k, in their order. *)
Without(s, k) ==
  IF k \notin KeysOf(s) THEN s
  ELSE LET p == CHOOSE n \in DOMAIN s : s[n] = k
       IN  [n \in 1..(Len(s) - 1) |-> IF n < p THEN s[n] ELSE s[n + 1]]

(* Mutant of Reordered: no move_to_end, the oldest bucket is dropped. *)
ReorderedByAge(k) == IF bucket[k] # NoBucket THEN order ELSE Append(Stay(k), k)

(* A key that comes back moves to the end. *)
Reordered(k) == Append(Without(Stay(k), k), k)

Grants(k) == IF bucket[k] = NoBucket THEN <<>> ELSE log[k]

Ask(k) ==
  /\ bucket' = [x \in Keys |-> IF x = k THEN Served(k)
                               ELSE IF x \in Evicted(k) THEN NoBucket ELSE bucket[x]]
  /\ order' = Reordered(k)
  /\ log' = [log EXCEPT ![k] = IF Allows(k) THEN Append(Grants(k), now) ELSE Grants(k)]
  /\ uses' = Append(Without(uses, k), k)
  /\ UNCHANGED now

Tick == now' = now + 1 /\ UNCHANGED <<bucket, order, log, uses>>

Next == Tick \/ \E k \in Keys : Ask(k)

Spec == Init /\ [][Next]_vars

-----------------------------------------------------------------------------
(* Properties *)

TypeOK ==
  /\ bucket \in [Keys -> [tokens : 0..Full, at : 0..now] \cup {NoBucket}]
  /\ order \in Seq(Keys)
  /\ now \in Nat
  /\ log \in [Keys -> Seq(0..now)]
  /\ uses \in Seq(Keys)

(* Rate and burst: the requests a bucket is granted between any two of its *)
(* grants cost no more than the burst and what was earned between them.    *)
GrantsFitRate ==
  \A k \in Keys : \A i, j \in DOMAIN log[k] :
    i <= j => (j - i + 1) * Cost <= Full + (log[k][j] - log[k][i])

(* The ticks from the i-th grant of k until now. *)
Since(k, i) == IF i \in DOMAIN log[k] THEN now - log[k][i] ELSE 0

(* One more request would break the rate over the grants from i on. *)
Overdrawn(k, i) == (Len(log[k]) - i + 2) * Cost > Full + Since(k, i)

(* A client that has a bucket is refused only if one more request would    *)
(* break its rate: refusals, odd intervals and other clients cost nothing. *)
RefusalsAreJustified ==
  \A k \in Keys : bucket[k] # NoBucket /\ Refilled(bucket[k]) < Cost =>
    \E i \in 1..(Len(log[k]) + 1) : Overdrawn(k, i)

(* The cache holds exactly the keys that asked last, up to its capacity:   *)
(* to reset a bucket takes requests of Capacity other keys.                *)
MostRecentStay ==
  LET kept == Least(Capacity, Len(uses))
  IN  /\ order = SubSeq(uses, Len(uses) - kept + 1, Len(uses))
      /\ \A k \in Keys : bucket[k] # NoBucket <=> k \in KeysOf(order)
=============================================================================
