-------------------------- MODULE TokenBucketsProofs --------------------------
(***************************************************************************)
(* The token buckets keep their rate and refuse nothing that fits it, for  *)
(* every burst, rate, capacity and set of keys.                            *)
(*                                                                         *)
(* The tokens of a bucket are an account of its grants: as many as any     *)
(* window of grants leaves of the burst, and as few as one of them leaves. *)
(* The order of the cache is the end of the list of all keys that asked.   *)
(***************************************************************************)
EXTENDS TokenBuckets, SequenceTheorems, TLAPS

Buckets(t) == [tokens : 0..Full, at : 0..t]

(* What n grants since the first of them at time s leave at time t. *)
Spent(l, i) == (Len(l) - i + 1) * Cost

(* The account of bucket b with grants l. *)
Covers(b, l) ==
  \A i \in 1..Len(l) : b.tokens + Spent(l, i) <= Full + (b.at - l[i])

Tight(b, l) ==
  b.tokens = Full \/ \E i \in 1..Len(l) : Full + (b.at - l[i]) <= b.tokens + Spent(l, i)

Balanced(b, l) == Covers(b, l) /\ Tight(b, l)

Fits(l) ==
  \A i, j \in 1..Len(l) : i <= j => (j - i + 1) * Cost <= Full + (l[j] - l[i])

BucketsTyped ==
  /\ now \in Nat
  /\ bucket \in [Keys -> Buckets(now) \cup {NoBucket}]
  /\ log \in [Keys -> Seq(0..now)]

Accounts == \A k \in Keys : bucket[k] # NoBucket => Balanced(bucket[k], log[k])

IInv == BucketsTyped /\ Accounts /\ GrantsFitRate

-----------------------------------------------------------------------------
(* One bucket *)

LEMMA Distribute ==
  ASSUME NEW m \in Int, NEW c \in Int
  PROVE  (m + 1) * c = m * c + c
BY SMT

(* The arithmetic of an account: x tokens at time u, y at v; c is paid. *)
LEMMA EarnedMore ==
  ASSUME NEW x \in Int, NEW y \in Int, NEW z \in Int, NEW f \in Int,
         NEW u \in Int, NEW v \in Int, NEW w \in Int,
         x + z <= f + (u - w), y <= x + (v - u)
  PROVE  y + z <= f + (v - w)
BY SMT

LEMMA EarnedAll ==
  ASSUME NEW x \in Int, NEW y \in Int, NEW z \in Int, NEW f \in Int,
         NEW u \in Int, NEW v \in Int, NEW w \in Int,
         f + (u - w) <= x + z, x + (v - u) <= y
  PROVE  f + (v - w) <= y + z
BY SMT

LEMMA Paid ==
  ASSUME NEW x \in Int, NEW z \in Int, NEW c \in Int
  PROVE  (x - c) + (z + c) = x + z
BY SMT

LEMMA Remains ==
  ASSUME NEW x \in Nat, NEW z \in Int, NEW f \in Int, NEW v \in Int, NEW w \in Int,
         x + z <= f + (v - w)
  PROVE  z <= f + (v - w)
BY SMT

LEMMA Exceeds ==
  ASSUME NEW x \in Int, NEW z \in Int, NEW c \in Int, NEW e \in Int,
         e <= x + z, x < c
  PROVE  z + c > e
BY SMT

LEMMA NewBucket ==
  ASSUME BucketAssumption, NEW t \in Nat
  PROVE  Balanced([tokens |-> Full, at |-> t], <<>>)
BY DEF Balanced, Covers, Tight

(* A bucket that is not asked earns, up to the burst. *)
LEMMA Earn ==
  ASSUME BucketAssumption, NEW t \in Nat, NEW s \in 0..t,
         NEW b \in Buckets(s), NEW l \in Seq(0..s),
         Balanced(b, l)
  PROVE  LET e == [tokens |-> Least(Full, b.tokens + (t - b.at)), at |-> t]
         IN  e \in Buckets(t) /\ Balanced(e, l)
<1> DEFINE e == [tokens |-> Least(Full, b.tokens + (t - b.at)), at |-> t]
<1>1. Full \in Nat /\ Cost \in Nat
  BY DEF BucketAssumption
<1>2. s \in Nat /\ b.tokens \in 0..Full /\ b.at \in 0..s /\ b.tokens \in Int /\ b.at \in Int
  BY <1>1 DEF Buckets
<1>3. e.tokens \in 0..Full /\ e.at = t
  BY <1>1, <1>2 DEF Least
<1>4. \A i \in 1..Len(l) : l[i] \in Int /\ Spent(l, i) \in Int
  BY <1>1, <1>2 DEF Spent
<1>e. e.tokens \in Int /\ e.at \in Int
  BY <1>1, <1>3
<1> HIDE DEF e
<1>5. Covers(e, l)
  <2> SUFFICES ASSUME NEW i \in 1..Len(l)
               PROVE  e.tokens + Spent(l, i) <= Full + (e.at - l[i])
    BY DEF Covers
  <2>1. b.tokens + Spent(l, i) <= Full + (b.at - l[i])
    BY DEF Balanced, Covers
  <2>2. e.tokens <= b.tokens + (t - b.at)
    BY <1>1, <1>2 DEF Least, e
  <2>3. l[i] \in Int /\ Spent(l, i) \in Int /\ e.at = t /\ t \in Int /\ Full \in Int
    BY <1>1, <1>3, <1>4
  <2>4. e.tokens + Spent(l, i) <= Full + (t - l[i])
    BY <1>1, <1>2, <1>e, <2>1, <2>2, <2>3, EarnedMore, Zenon
  <2> QED
    BY <2>3, <2>4
<1>6. Tight(e, l)
  <2>1. CASE b.tokens + (t - b.at) >= Full
    BY <1>1, <1>2, <2>1 DEF Least, Tight, e
  <2>2. CASE b.tokens + (t - b.at) < Full
    <3>1. b.tokens # Full
      BY <1>1, <1>2, <2>2
    <3>2. PICK i \in 1..Len(l) : Full + (b.at - l[i]) <= b.tokens + Spent(l, i)
      BY <3>1 DEF Balanced, Tight
    <3>3. b.tokens + (t - b.at) <= e.tokens
      BY <1>1, <1>2, <2>2 DEF Least, e
    <3>4. l[i] \in Int /\ Spent(l, i) \in Int /\ e.at = t /\ t \in Int /\ Full \in Int
      BY <1>1, <1>3, <1>4
    <3>5. Full + (t - l[i]) <= e.tokens + Spent(l, i)
      BY <1>2, <1>e, <3>2, <3>3, <3>4, EarnedAll, Zenon
    <3> QED
      BY <3>4, <3>5 DEF Tight
  <2> QED
    BY <1>1, <1>2, <2>1, <2>2
<1> QED
  <2>1. e \in Buckets(t)
    BY <1>3 DEF Buckets, e
  <2> QED
    BY <2>1, <1>5, <1>6 DEF Balanced, e

(* A grant takes Cost of the account, and no window of grants costs more   *)
(* than it may.                                                            *)
LEMMA Grant ==
  ASSUME BucketAssumption, NEW t \in Nat, NEW b \in Buckets(t), b.at = t, b.tokens >= Cost,
         NEW l \in Seq(0..t), Balanced(b, l), Fits(l)
  PROVE  LET g == [tokens |-> b.tokens - Cost, at |-> t]
         IN  g \in Buckets(t) /\ Balanced(g, Append(l, t)) /\ Fits(Append(l, t))
<1> DEFINE g == [tokens |-> b.tokens - Cost, at |-> t]
           m == Append(l, t)
           n == Len(l)
<1>1. Full \in Nat /\ Cost \in Nat /\ n \in Nat /\ b.tokens \in 0..Full
  BY DEF BucketAssumption, Buckets
<1>2. g \in Buckets(t) /\ g.tokens = b.tokens - Cost /\ g.at = t
  BY <1>1 DEF Buckets
<1>3. Len(m) = n + 1 /\ m[n + 1] = t /\ \A i \in 1..n : m[i] = l[i] /\ l[i] \in 0..t
  OBVIOUS
<1>4. \A i \in 1..n : Spent(m, i) = Spent(l, i) + Cost /\ Spent(l, i) \in Int
  <2> SUFFICES ASSUME NEW i \in 1..n
               PROVE  Spent(m, i) = Spent(l, i) + Cost /\ Spent(l, i) \in Int
    OBVIOUS
  <2>1. n + 1 - i + 1 = (n - i + 1) + 1 /\ n - i + 1 \in Int
    BY <1>1
  <2>2. ((n - i + 1) + 1) * Cost = (n - i + 1) * Cost + Cost
    BY <1>1, <2>1, Distribute
  <2> QED
    BY <1>1, <1>3, <2>1, <2>2 DEF Spent
<1>5. Spent(m, n + 1) = Cost
  BY <1>1, <1>3 DEF Spent
<1> HIDE DEF m, g
<1>9. \A i \in 1..n : g.tokens + Spent(m, i) = b.tokens + Spent(l, i)
  <2> SUFFICES ASSUME NEW i \in 1..n
               PROVE  g.tokens + Spent(m, i) = b.tokens + Spent(l, i)
    OBVIOUS
  <2>1. b.tokens \in Int /\ Cost \in Int /\ Spent(l, i) \in Int
    BY <1>1, <1>4
  <2>2. (b.tokens - Cost) + (Spent(l, i) + Cost) = b.tokens + Spent(l, i)
    BY <2>1, Paid, Zenon
  <2> QED
    BY <1>2, <1>4, <2>2
<1>6. Covers(g, m)
  <2> SUFFICES ASSUME NEW i \in 1..(n + 1)
               PROVE  g.tokens + Spent(m, i) <= Full + (g.at - m[i])
    BY <1>3 DEF Covers
  <2>1. CASE i = n + 1
    BY <1>1, <1>2, <1>3, <1>5, <2>1
  <2>2. CASE i \in 1..n
    <3>1. b.tokens + Spent(l, i) <= Full + (t - l[i])
      BY <2>2 DEF Balanced, Covers
    <3>2. g.tokens + Spent(m, i) = b.tokens + Spent(l, i)
      BY <1>9, <2>2
    <3> QED
      BY <1>2, <1>3, <2>2, <3>1, <3>2
  <2> QED
    BY <1>1, <2>1, <2>2
<1>7. Tight(g, m)
  <2>1. CASE b.tokens = Full
    <3>1. Full + (g.at - m[n + 1]) <= g.tokens + Spent(m, n + 1)
      BY <1>1, <1>2, <1>3, <1>5, <2>1
    <3> QED
      BY <1>1, <1>3, <3>1 DEF Tight
  <2>2. CASE b.tokens # Full
    <3>1. PICK i \in 1..n : Full + (t - l[i]) <= b.tokens + Spent(l, i)
      BY <2>2 DEF Balanced, Tight
    <3>2. Full + (g.at - m[i]) <= g.tokens + Spent(m, i)
      BY <1>2, <1>3, <1>9, <3>1
    <3> QED
      BY <1>1, <1>3, <3>2 DEF Tight
  <2> QED
    BY <2>1, <2>2
<1>8. Fits(m)
  <2> SUFFICES ASSUME NEW i \in 1..(n + 1), NEW j \in 1..(n + 1), i <= j
               PROVE  (j - i + 1) * Cost <= Full + (m[j] - m[i])
    BY <1>3 DEF Fits
  <2>1. CASE j \in 1..n
    <3>1. i \in 1..n
      BY <1>1, <2>1
    <3> QED
      BY <1>3, <2>1, <3>1 DEF Fits
  <2>2. CASE j = n + 1
    <3>1. (j - i + 1) * Cost = Spent(m, i)
      BY <1>1, <1>3, <2>2 DEF Spent
    <3>2. g.tokens + Spent(m, i) <= Full + (g.at - m[i])
      BY <1>3, <1>6 DEF Covers
    <3>3. CASE i = n + 1
      BY <1>1, <1>3, <1>5, <2>2, <3>1, <3>3
    <3>4. CASE i \in 1..n
      <4>1. Spent(m, i) \in Int /\ m[i] \in Int
        BY <1>1, <1>3, <1>4, <3>4
      <4>2. g.tokens \in Nat /\ g.at = t /\ Full \in Int /\ t \in Int
        BY <1>1, <1>2
      <4>3. g.tokens + Spent(m, i) <= Full + (t - m[i])
        BY <3>2, <4>2
      <4>4. Spent(m, i) <= Full + (t - m[i])
        BY <4>1, <4>2, <4>3, Remains, Zenon
      <4> QED
        BY <1>3, <2>2, <3>1, <4>4
    <3> QED
      BY <1>1, <3>3, <3>4
  <2>3. j \in 1..n \/ j = n + 1
    BY <1>1
  <2> QED
    BY <2>1, <2>2, <2>3, Zenon
<1> QED
  BY <1>2, <1>6, <1>7, <1>8 DEF Balanced, m, g
-----------------------------------------------------------------------------
(* The cache *)

LEMMA InitHolds ==
  ASSUME BucketAssumption, Init
  PROVE  IInv
BY DEF Init, IInv, BucketsTyped, Accounts, GrantsFitRate

(* What the bucket that is asked looks like before it is served. *)
LEMMA FoundBalanced ==
  ASSUME BucketAssumption, IInv, NEW k \in Keys
  PROVE  /\ now \in Nat
         /\ Grants(k) \in Seq(0..now)
         /\ Fits(Grants(k))
         /\ [tokens |-> Tokens(k), at |-> now] \in Buckets(now)
         /\ Balanced([tokens |-> Tokens(k), at |-> now], Grants(k))
<1>1. now \in Nat /\ Full \in Nat
  BY DEF BucketAssumption, IInv, BucketsTyped
<1>2. Found(k) \in Buckets(now) /\ Grants(k) \in Seq(0..now) /\ Fits(Grants(k))
      /\ Balanced(Found(k), Grants(k))
  <2>1. CASE bucket[k] = NoBucket
    <3>1. [tokens |-> Full, at |-> now] \in Buckets(now)
      BY <1>1 DEF Buckets
    <3>2. Balanced([tokens |-> Full, at |-> now], <<>>)
      BY <1>1, NewBucket
    <3> QED
      BY <2>1, <3>1, <3>2 DEF Found, Grants, Fits
  <2>2. CASE bucket[k] # NoBucket
    <3>1. bucket[k] \in Buckets(now) /\ log[k] \in Seq(0..now)
      BY <2>2 DEF IInv, BucketsTyped
    <3>2. Balanced(bucket[k], log[k])
      BY <2>2 DEF IInv, Accounts
    <3>3. Fits(log[k])
      BY <3>1 DEF IInv, GrantsFitRate, Fits
    <3> QED
      BY <2>2, <3>1, <3>2, <3>3 DEF Found, Grants
  <2> QED
    BY <2>1, <2>2
<1>3. now \in 0..now
  BY <1>1
<1>4. /\ [tokens |-> Least(Full, Found(k).tokens + (now - Found(k).at)), at |-> now]
           \in Buckets(now)
      /\ Balanced([tokens |-> Least(Full, Found(k).tokens + (now - Found(k).at)), at |-> now],
                  Grants(k))
  BY <1>1, <1>2, <1>3, Earn
<1> QED
  BY <1>1, <1>2, <1>4 DEF Tokens, Refilled

LEMMA AskHolds ==
  ASSUME BucketAssumption, IInv, NEW k \in Keys, Ask(k)
  PROVE  IInv'
<1> DEFINE e == [tokens |-> Tokens(k), at |-> now]
           l == IF Allows(k) THEN Append(Grants(k), now) ELSE Grants(k)
<1>1. /\ now \in Nat /\ Grants(k) \in Seq(0..now) /\ Fits(Grants(k))
      /\ e \in Buckets(now) /\ Balanced(e, Grants(k))
  BY FoundBalanced
<1>2. now' = now /\ log' = [log EXCEPT ![k] = l]
  BY DEF Ask
<1>3. Served(k) \in Buckets(now) /\ Balanced(Served(k), l) /\ Fits(l) /\ l \in Seq(0..now)
  <2>1. CASE Allows(k)
    <3>1. e.at = now /\ e.tokens >= Cost
      BY <2>1 DEF Allows
    <3>2. /\ [tokens |-> e.tokens - Cost, at |-> now] \in Buckets(now)
          /\ Balanced([tokens |-> e.tokens - Cost, at |-> now], Append(Grants(k), now))
          /\ Fits(Append(Grants(k), now))
      BY <1>1, <3>1, Grant
    <3>3. Append(Grants(k), now) \in Seq(0..now)
      BY <1>1
    <3> QED
      BY <2>1, <3>2, <3>3 DEF Served
  <2>2. CASE ~Allows(k)
    BY <1>1, <2>2 DEF Served
  <2> QED
    BY <2>1, <2>2
<1> HIDE DEF l
<1>4. BucketsTyped'
  BY <1>1, <1>2, <1>3 DEF IInv, BucketsTyped, Ask
<1>5. Accounts'
  <2> SUFFICES ASSUME NEW x \in Keys, bucket'[x] # NoBucket
               PROVE  Balanced(bucket'[x], log'[x])
    BY DEF Accounts
  <2>1. CASE x = k
    BY <1>2, <1>3, <2>1 DEF IInv, BucketsTyped, Ask
  <2>2. CASE x # k
    BY <1>2, <2>2 DEF IInv, BucketsTyped, Accounts, Ask
  <2> QED
    BY <2>1, <2>2
<1>6. GrantsFitRate'
  <2> SUFFICES ASSUME NEW x \in Keys
               PROVE  \A i, j \in DOMAIN log'[x] :
                        i <= j => (j - i + 1) * Cost <= Full + (log'[x][j] - log'[x][i])
    BY DEF GrantsFitRate
  <2>1. CASE x = k
    <3>1. log'[x] = l /\ DOMAIN l = 1..Len(l)
      BY <1>2, <1>3, <2>1 DEF IInv, BucketsTyped
    <3> QED
      BY <1>3, <3>1 DEF Fits
  <2>2. CASE x # k
    <3>1. log'[x] = log[x]
      BY <1>2, <2>2 DEF IInv, BucketsTyped
    <3> QED
      BY <3>1 DEF IInv, GrantsFitRate
  <2> QED
    BY <2>1, <2>2
<1> QED
  BY <1>4, <1>5, <1>6 DEF IInv

LEMMA TickHolds ==
  ASSUME BucketAssumption, IInv, Tick
  PROVE  IInv'
<1>1. BucketsTyped'
  <2>1. now \in Nat /\ now' = now + 1 /\ now' \in Nat
    BY DEF IInv, BucketsTyped, Tick
  <2>2. 0..now \subseteq 0..now'
    BY <2>1
  <2>3. Buckets(now) \subseteq Buckets(now')
    BY <2>2 DEF Buckets
  <2>4. \A q \in Seq(0..now) : q \in Seq(0..now')
    BY <2>2, SeqMonotonic, Zenon
  <2> QED
    BY <2>1, <2>3, <2>4 DEF IInv, BucketsTyped, Tick
<1> QED
  BY <1>1 DEF IInv, Accounts, GrantsFitRate, Tick

(* Every bucket is an account of its grants.                               *)
THEOREM Invariance ==
  ASSUME BucketAssumption
  PROVE  Spec => []IInv
<1>1. Init => IInv
  BY InitHolds
<1>2. IInv /\ [Next]_vars => IInv'
  <2>1. IInv /\ UNCHANGED vars => IInv'
    BY DEF IInv, BucketsTyped, Accounts, GrantsFitRate, vars
  <2> QED
    BY <2>1, AskHolds, TickHolds DEF Next
<1> QED
  BY <1>1, <1>2, PTL DEF Spec

(* No bucket grants more than its burst and rate, whatever is evicted.     *)
THEOREM RateHolds ==
  ASSUME BucketAssumption
  PROVE  Spec => []GrantsFitRate
<1>1. IInv => GrantsFitRate
  BY DEF IInv
<1> QED
  BY <1>1, Invariance, PTL

(* A bucket refuses only what would break its rate.                        *)
THEOREM NothingIsRefusedInVain ==
  ASSUME BucketAssumption
  PROVE  Spec => []RefusalsAreJustified
<1>1. IInv => RefusalsAreJustified
  <2> SUFFICES ASSUME IInv, NEW k \in Keys, bucket[k] # NoBucket, Refilled(bucket[k]) < Cost
               PROVE  \E i \in 1..(Len(log[k]) + 1) : Overdrawn(k, i)
    BY DEF RefusalsAreJustified
  <2> DEFINE e == [tokens |-> Tokens(k), at |-> now]
             l == log[k]
             n == Len(l)
  <2>1. now \in Nat /\ l \in Seq(0..now) /\ e \in Buckets(now) /\ Balanced(e, l)
    BY FoundBalanced DEF Grants
  <2>2. Tokens(k) = Refilled(bucket[k])
    BY DEF Tokens, Found
  <2>3. Full \in Nat /\ Cost \in Nat /\ n \in Nat /\ DOMAIN l = 1..n
        /\ Tokens(k) \in Nat /\ Tokens(k) < Cost
    BY <2>1, <2>2 DEF BucketAssumption, Buckets
  <2>4. CASE Tokens(k) = Full
    <3>1. Since(k, n + 1) = 0 /\ (n - (n + 1) + 2) * Cost = Cost
      BY <2>3 DEF Since
    <3>2. Overdrawn(k, n + 1)
      BY <2>3, <2>4, <3>1 DEF Overdrawn
    <3> QED
      BY <2>3, <3>2
  <2>5. CASE Tokens(k) # Full
    <3>1. PICK i \in 1..n : Full + (now - l[i]) <= Tokens(k) + Spent(l, i)
      BY <2>1, <2>5 DEF Balanced, Tight
    <3>2. (n - i + 2) * Cost = Spent(l, i) + Cost
      <4>1. n - i + 2 = (n - i + 1) + 1 /\ n - i + 1 \in Int
        BY <2>3
      <4>2. ((n - i + 1) + 1) * Cost = (n - i + 1) * Cost + Cost
        BY <2>3, <4>1, Distribute
      <4> QED
        BY <4>1, <4>2 DEF Spent
    <3>3. Since(k, i) = now - l[i]
      BY <2>3 DEF Since
    <3>4. Spent(l, i) \in Int /\ Full + (now - l[i]) \in Int /\ Tokens(k) \in Int /\ Cost \in Int
      BY <2>1, <2>3 DEF Spent
    <3>5. Spent(l, i) + Cost > Full + (now - l[i])
      BY <2>3, <3>1, <3>4, Exceeds, Zenon
    <3>6. Overdrawn(k, i)
      BY <3>2, <3>3, <3>5 DEF Overdrawn
    <3> QED
      BY <2>3, <3>6
  <2> QED
    BY <2>4, <2>5
<1> QED
  BY <1>1, Invariance, PTL

-----------------------------------------------------------------------------
(* The order of the cache. *)

Distinct(s) == \A i, j \in DOMAIN s : s[i] = s[j] => i = j

(* The cache is the end of the list of all keys, which has none twice. *)
CacheInv == IInv /\ uses \in Seq(Keys) /\ Distinct(uses) /\ MostRecentStay

(* A sequence is the end of another one when its elements are. *)
LEMMA TailIs ==
  ASSUME NEW u \in Seq(Keys), NEW c \in 0..Len(u), NEW o \in Seq(Keys)
  PROVE  o = SubSeq(u, Len(u) - c + 1, Len(u))
           <=> (Len(o) = c /\ \A i \in 1..c : o[i] = u[(Len(u) - c) + i])
<1> DEFINE a == Len(u) - c + 1
           t == SubSeq(u, a, Len(u))
<1>1. Len(u) \in Nat /\ a \in 1..(Len(u) + 1) /\ Len(u) - a + 1 = c
  OBVIOUS
<1>2. t \in Seq(Keys) /\ Len(t) = c /\ \A i \in 1..c : t[i] = u[(Len(u) - c) + i]
  <2>1. t = [i \in 1..c |-> u[i + a - 1]]
    BY <1>1
  <2>2. \A i \in 1..c : i + a - 1 = (Len(u) - c) + i /\ (Len(u) - c) + i \in 1..Len(u)
    BY <1>1
  <2>3. \A i \in 1..c : t[i] = u[(Len(u) - c) + i]
    BY <2>1, <2>2
  <2>4. t \in Seq(Keys) /\ Len(t) = c
    BY <1>1, SubSeqProperties
  <2> QED BY <2>3, <2>4
<1> HIDE DEF t
<1>3. ASSUME Len(o) = c, \A i \in 1..c : o[i] = u[(Len(u) - c) + i] PROVE o = t
  <2>1. \A i \in 1..Len(o) : o[i] = t[i]
    BY <1>2, <1>3
  <2>2. Len(o) = Len(t)
    BY <1>2, <1>3
  <2> QED BY <1>2, <2>1, <2>2, SeqEqual
<1> QED BY <1>2, <1>3 DEF t

(* What is left of a list of distinct keys without one of them. *)
LEMMA WithoutAt ==
  ASSUME NEW s \in Seq(Keys), Distinct(s), NEW p \in 1..Len(s)
  PROVE  /\ Without(s, s[p]) \in Seq(Keys)
         /\ Len(Without(s, s[p])) = Len(s) - 1
         /\ \A n \in 1..(Len(s) - 1) : Without(s, s[p])[n] = IF n < p THEN s[n] ELSE s[n + 1]
<1> DEFINE w == [n \in 1..(Len(s) - 1) |-> IF n < p THEN s[n] ELSE s[n + 1]]
<1>1. s[p] \in KeysOf(s)
  BY DEF KeysOf
<1>2. (CHOOSE n \in DOMAIN s : s[n] = s[p]) = p
  BY DEF Distinct
<1>3. Without(s, s[p]) = w
  BY <1>1, <1>2 DEF Without
<1>4. w \in [1..(Len(s) - 1) -> Keys]
  OBVIOUS
<1>5. Len(s) - 1 \in Nat
  OBVIOUS
<1>6. \A n \in 1..(Len(s) - 1) : w[n] = IF n < p THEN s[n] ELSE s[n + 1]
  OBVIOUS
<1> HIDE DEF w
<1>7. w \in Seq(Keys) /\ Len(w) = Len(s) - 1
  BY <1>4, <1>5
<1> QED BY <1>3, <1>6, <1>7

(* The others stay, each once. *)
LEMMA WithoutIsDistinct ==
  ASSUME NEW s \in Seq(Keys), Distinct(s), NEW k \in Keys
  PROVE  /\ Without(s, k) \in Seq(Keys) /\ Distinct(Without(s, k))
         /\ KeysOf(Without(s, k)) = KeysOf(s) \ {k}
<1>1. CASE k \notin KeysOf(s)
  BY <1>1 DEF Without
<1>2. CASE k \in KeysOf(s)
  <2>1. PICK p \in 1..Len(s) : s[p] = k
    BY <1>2 DEF KeysOf
  <2> DEFINE w == Without(s, k)
  <2>2. /\ w \in Seq(Keys) /\ Len(w) = Len(s) - 1
        /\ \A n \in 1..(Len(s) - 1) : w[n] = IF n < p THEN s[n] ELSE s[n + 1]
    BY <2>1, WithoutAt
  <2> HIDE DEF w
  <2>3. DOMAIN w = 1..(Len(s) - 1) /\ DOMAIN s = 1..Len(s) /\ Len(s) \in Nat
    BY <2>2
  <2>4. Distinct(w)
    <3>1. SUFFICES ASSUME NEW i \in 1..(Len(s) - 1), NEW j \in 1..(Len(s) - 1), w[i] = w[j] PROVE i = j
      BY <2>3 DEF Distinct
    <3>2. i \in 1..Len(s) /\ i + 1 \in 1..Len(s) /\ j \in 1..Len(s) /\ j + 1 \in 1..Len(s)
      BY <2>3
    <3>3. (IF i < p THEN s[i] ELSE s[i + 1]) = (IF j < p THEN s[j] ELSE s[j + 1])
      BY <2>2, <3>1
    <3>4. CASE i < p /\ j < p
      BY <2>3, <3>2, <3>3, <3>4 DEF Distinct
    <3>5. CASE i < p /\ ~(j < p)
      BY <2>3, <3>2, <3>3, <3>5 DEF Distinct
    <3>6. CASE ~(i < p) /\ j < p
      BY <2>3, <3>2, <3>3, <3>6 DEF Distinct
    <3>7. CASE ~(i < p) /\ ~(j < p)
      <4>1. i + 1 = j + 1
        BY <2>3, <3>2, <3>3, <3>7 DEF Distinct
      <4> QED BY <4>1
    <3> QED BY <3>4, <3>5, <3>6, <3>7
  <2>5. KeysOf(w) \subseteq KeysOf(s) \ {k}
    <3>1. SUFFICES ASSUME NEW i \in 1..(Len(s) - 1) PROVE w[i] \in KeysOf(s) /\ w[i] # k
      BY <2>3 DEF KeysOf
    <3>2. i \in 1..Len(s) /\ i + 1 \in 1..Len(s)
      BY <2>3
    <3>3. CASE i < p
      BY <2>1, <2>2, <2>3, <3>2, <3>3 DEF KeysOf, Distinct
    <3>4. CASE ~(i < p)
      BY <2>1, <2>2, <2>3, <3>2, <3>4 DEF KeysOf, Distinct
    <3> QED BY <3>3, <3>4
  <2>6. KeysOf(s) \ {k} \subseteq KeysOf(w)
    <3>1. SUFFICES ASSUME NEW i \in 1..Len(s), s[i] # k PROVE s[i] \in KeysOf(w)
      BY <2>3 DEF KeysOf
    <3>2. CASE i < p
      <4>1. i \in 1..(Len(s) - 1) /\ w[i] = s[i]
        BY <2>2, <2>3, <3>2
      <4> QED BY <2>3, <4>1 DEF KeysOf
    <3>3. CASE i > p
      <4>1. i - 1 \in 1..(Len(s) - 1) /\ ~(i - 1 < p) /\ (i - 1) + 1 = i
        BY <2>3, <3>3
      <4>2. w[i - 1] = s[i]
        BY <2>2, <4>1
      <4> QED BY <2>3, <4>1, <4>2 DEF KeysOf
    <3>4. i # p
      BY <2>1, <3>1
    <3> QED BY <3>2, <3>3, <3>4
  <2> QED BY <2>2, <2>4, <2>5, <2>6 DEF w
<1> QED BY <1>1, <1>2

(* What the order says of the list of all keys. *)
LEMMA OrderIsTail ==
  ASSUME BucketAssumption, CacheInv
  PROVE  /\ order \in Seq(Keys) /\ Distinct(order)
         /\ Len(uses) \in Nat /\ Len(order) = Least(Capacity, Len(uses))
         /\ \A i \in 1..Len(order) : order[i] = uses[(Len(uses) - Len(order)) + i]
<1> DEFINE U == Len(uses)
           kept == Least(Capacity, U)
           tail == SubSeq(uses, U - kept + 1, U)
<1>1. uses \in Seq(Keys) /\ U \in Nat /\ Capacity \in Nat
  BY DEF CacheInv, BucketAssumption
<1>2. kept \in 0..U
  BY <1>1 DEF Least
<1>3. order = tail
  BY DEF CacheInv, MostRecentStay
<1> HIDE DEF kept
<1>4. tail \in Seq(Keys)
  BY <1>1, <1>2
<1>5. Len(order) = kept /\ \A i \in 1..kept : order[i] = uses[(U - kept) + i]
  <2> HIDE DEF U
  <2> QED BY <1>1, <1>2, <1>3, <1>4, TailIs DEF U
<1>6. Distinct(order)
  <2>1. SUFFICES ASSUME NEW i \in 1..kept, NEW j \in 1..kept, order[i] = order[j] PROVE i = j
    <3>1. DOMAIN order = 1..kept
      BY <1>3, <1>4, <1>5
    <3> QED BY <3>1 DEF Distinct
  <2>2. (U - kept) + i \in DOMAIN uses /\ (U - kept) + j \in DOMAIN uses
    BY <1>1, <1>2
  <2>3. (U - kept) + i = (U - kept) + j
    BY <1>5, <2>1, <2>2 DEF CacheInv, Distinct
  <2> QED BY <1>1, <1>2, <2>3
<1> QED BY <1>1, <1>3, <1>4, <1>5, <1>6 DEF kept

(* The buckets that stay when k asks: all, or all but the first.           *)
LEMMA StayIsRest ==
  ASSUME BucketAssumption, CacheInv, NEW k \in Keys
  PROVE  /\ Excess(k) \in {0, 1} /\ Excess(k) <= Len(order)
         /\ Excess(k) = 0 <=> bucket[k] # NoBucket \/ Len(order) < Capacity
         /\ Stay(k) \in Seq(Keys) /\ Distinct(Stay(k))
         /\ Len(Stay(k)) = Len(order) - Excess(k)
         /\ \A i \in 1..Len(Stay(k)) : Stay(k)[i] = order[Excess(k) + i]
         /\ KeysOf(Stay(k)) = KeysOf(order) \ Evicted(k)
<1> DEFINE x == Excess(k)
           t == Stay(k)
           L == Len(order)
<1>1. /\ order \in Seq(Keys) /\ Distinct(order) /\ L \in Nat /\ L <= Capacity
      /\ Capacity \in Nat \ {0}
  BY OrderIsTail DEF Least, BucketAssumption
<1>2. x \in {0, 1} /\ x <= L /\ (x = 0 <=> bucket[k] # NoBucket \/ L < Capacity)
  BY <1>1 DEF Excess
<1>3. t = SubSeq(order, x + 1, L)
  BY DEF Stay
<1> HIDE DEF x, t
<1>4. t \in Seq(Keys) /\ Len(t) = L - x
  BY <1>1, <1>2, <1>3, SubSeqProperties
<1>5. \A i \in 1..(L - x) : t[i] = order[x + i]
  <2>1. t = [i \in 1..(L - (x + 1) + 1) |-> order[i + (x + 1) - 1]]
    BY <1>1, <1>2, <1>3
  <2>2. \A i \in 1..(L - x) : i \in 1..(L - (x + 1) + 1) /\ i + (x + 1) - 1 = x + i
    BY <1>1, <1>2
  <2> QED BY <2>1, <2>2
<1>6. DOMAIN t = 1..(L - x) /\ DOMAIN order = 1..L
  BY <1>1, <1>4
<1>7. \A i \in 1..(L - x) : x + i \in 1..L
  BY <1>1, <1>2
<1>8. Distinct(t)
  <2>1. SUFFICES ASSUME NEW i \in 1..(L - x), NEW j \in 1..(L - x), t[i] = t[j] PROVE i = j
    BY <1>6 DEF Distinct
  <2>2. x + i = x + j
    BY <1>1, <1>5, <1>6, <1>7, <2>1 DEF Distinct
  <2> QED BY <1>2, <2>2
<1>9. KeysOf(t) = KeysOf(order) \ Evicted(k)
  <2>1. Evicted(k) = {order[n] : n \in 1..x}
    BY DEF Evicted, x
  <2>2. \A n \in 1..L : n \in 1..x \/ (n - x \in 1..(L - x) /\ x + (n - x) = n)
    BY <1>1, <1>2
  <2>3. \A n \in 1..x : n \in 1..L
    BY <1>1, <1>2
  <2>4. KeysOf(order) \ Evicted(k) \subseteq KeysOf(t)
    <3>1. SUFFICES ASSUME NEW n \in 1..L, n \notin 1..x PROVE order[n] \in KeysOf(t)
      BY <1>6, <2>1 DEF KeysOf
    <3>2. n - x \in 1..(L - x) /\ t[n - x] = order[n]
      BY <1>5, <2>2, <3>1
    <3> QED BY <1>6, <3>2 DEF KeysOf
  <2>5. KeysOf(t) \subseteq KeysOf(order) \ Evicted(k)
    <3>1. SUFFICES ASSUME NEW i \in 1..(L - x) PROVE t[i] \in KeysOf(order) /\ t[i] \notin Evicted(k)
      BY <1>6 DEF KeysOf
    <3>2. t[i] = order[x + i] /\ x + i \in 1..L
      BY <1>5, <1>7
    <3>3. x + i \notin 1..x
      BY <1>2
    <3>4. \A n \in 1..x : order[n] # order[x + i]
      BY <1>1, <1>6, <2>3, <3>2, <3>3 DEF Distinct
    <3> QED BY <1>6, <2>1, <3>2, <3>4 DEF KeysOf
  <2> QED BY <2>4, <2>5
<1> QED BY <1>1, <1>2, <1>4, <1>5, <1>8, <1>9 DEF x, t

(* The list s is the end of the list u. *)
IsTail(s, u) ==
  Len(s) <= Len(u) /\ \A i \in 1..Len(s) : s[i] = u[(Len(u) - Len(s)) + i]

(* The end of an end. *)
LEMMA TailOfTail ==
  ASSUME NEW t \in Seq(Keys), NEW s \in Seq(Keys), NEW u \in Seq(Keys), IsTail(t, s), IsTail(s, u)
  PROVE  IsTail(t, u)
<1>1. Len(t) \in Nat /\ Len(s) \in Nat /\ Len(u) \in Nat /\ Len(t) <= Len(s) /\ Len(s) <= Len(u)
  BY DEF IsTail
<1>2. ASSUME NEW i \in 1..Len(t) PROVE t[i] = u[(Len(u) - Len(t)) + i]
  <2>1. t[i] = s[(Len(s) - Len(t)) + i]
    BY <1>2 DEF IsTail
  <2>2. (Len(s) - Len(t)) + i \in 1..Len(s)
    BY <1>1
  <2>3. s[(Len(s) - Len(t)) + i] = u[(Len(u) - Len(s)) + ((Len(s) - Len(t)) + i)]
    BY <2>2 DEF IsTail
  <2>4. (Len(u) - Len(s)) + ((Len(s) - Len(t)) + i) = (Len(u) - Len(t)) + i
    BY <1>1
  <2> QED BY <2>1, <2>3, <2>4
<1> QED BY <1>1, <1>2 DEF IsTail

(* One more at the end of both. *)
LEMMA TailGrows ==
  ASSUME NEW s \in Seq(Keys), NEW u \in Seq(Keys), NEW k \in Keys, IsTail(s, u)
  PROVE  IsTail(Append(s, k), Append(u, k))
<1> DEFINE o == Append(s, k)
           v == Append(u, k)
           a == Len(s)
           b == Len(u)
<1>1. /\ a \in Nat /\ b \in Nat /\ a <= b
      /\ \A i \in 1..a : s[i] = u[(b - a) + i]
  BY DEF IsTail
<1>2. /\ Len(o) = a + 1 /\ Len(v) = b + 1
      /\ o[a + 1] = k /\ v[b + 1] = k
      /\ \A i \in 1..a : o[i] = s[i]
      /\ \A i \in 1..b : v[i] = u[i]
  OBVIOUS
<1> HIDE DEF o, v, a, b
<1>3. ASSUME NEW i \in 1..(a + 1) PROVE o[i] = v[(b - a) + i]
  <2>1. CASE i = a + 1
    <3>1. (b - a) + i = b + 1
      BY <1>1, <2>1
    <3> QED BY <1>2, <2>1, <3>1
  <2>2. CASE i \in 1..a
    <3>1. (b - a) + i \in 1..b
      BY <1>1, <2>2
    <3> QED BY <1>1, <1>2, <2>2, <3>1
  <2> QED BY <1>1, <2>1, <2>2
<1>4. (b + 1) - (a + 1) = b - a /\ a + 1 <= b + 1
  BY <1>1
<1>5. Len(o) <= Len(v) /\ \A i \in 1..Len(o) : o[i] = v[(Len(v) - Len(o)) + i]
  BY <1>2, <1>3, <1>4
<1> QED BY <1>5 DEF IsTail, o, v

(* One less in both. *)
LEMMA TailLoses ==
  ASSUME NEW s \in Seq(Keys), NEW u \in Seq(Keys), Distinct(s), Distinct(u), IsTail(s, u),
         NEW p \in 1..Len(s)
  PROVE  /\ IsTail(Without(s, s[p]), Without(u, s[p]))
         /\ Len(Without(s, s[p])) = Len(s) - 1
         /\ Len(Without(u, s[p])) = Len(u) - 1
<1> DEFINE k == s[p]
           w == Without(s, k)
           v == Without(u, k)
           a == Len(s)
           b == Len(u)
           q == (b - a) + p
<1>1. /\ a \in Nat /\ b \in Nat /\ a <= b
      /\ \A i \in 1..a : s[i] = u[(b - a) + i]
  BY DEF IsTail
<1>2. Len(w) = a - 1 /\ \A n \in 1..(a - 1) : w[n] = IF n < p THEN s[n] ELSE s[n + 1]
  BY WithoutAt
<1>3. q \in 1..b /\ u[q] = k
  BY <1>1
<1>4. Len(v) = b - 1 /\ \A n \in 1..(b - 1) : v[n] = IF n < q THEN u[n] ELSE u[n + 1]
  <2> HIDE DEF q
  <2>1. /\ Len(Without(u, u[q])) = Len(u) - 1
        /\ \A n \in 1..(Len(u) - 1) : Without(u, u[q])[n] = IF n < q THEN u[n] ELSE u[n + 1]
    BY <1>3, WithoutAt
  <2> QED BY <1>3, <2>1
<1>5. p \in 1..a
  OBVIOUS
<1> HIDE DEF k, w, v, a, b
<1>6. ASSUME NEW i \in 1..(a - 1) PROVE w[i] = v[(b - a) + i]
  <2>1. /\ (b - a) + i \in 1..(b - 1) /\ i \in 1..a /\ i + 1 \in 1..a
        /\ ((b - a) + i) + 1 = (b - a) + (i + 1)
        /\ ((b - a) + i < q <=> i < p)
    BY <1>1, <1>5
  <2>2. s[i] = u[(b - a) + i] /\ s[i + 1] = u[(b - a) + (i + 1)]
    BY <1>1, <2>1
  <2>3. w[i] = IF i < p THEN s[i] ELSE s[i + 1]
    BY <1>2
  <2>4. v[(b - a) + i] = IF i < p THEN u[(b - a) + i] ELSE u[(b - a) + (i + 1)]
    BY <1>4, <2>1
  <2> QED BY <2>2, <2>3, <2>4
<1>7. (b - 1) - (a - 1) = b - a /\ a - 1 <= b - 1
  BY <1>1
<1>8. Len(w) <= Len(v) /\ \A i \in 1..Len(w) : w[i] = v[(Len(v) - Len(w)) + i]
  BY <1>2, <1>4, <1>6, <1>7
<1>9. IsTail(w, v)
  BY <1>8 DEF IsTail
<1> QED BY <1>2, <1>4, <1>9 DEF w, v, k, a, b

(* One less before the end. *)
LEMMA HeadLoses ==
  ASSUME NEW s \in Seq(Keys), NEW u \in Seq(Keys), Distinct(u), IsTail(s, u),
         NEW k \in KeysOf(u), k \notin KeysOf(s)
  PROVE  /\ IsTail(s, Without(u, k)) /\ Len(s) < Len(u)
         /\ Len(Without(u, k)) = Len(u) - 1
<1> DEFINE v == Without(u, k)
           a == Len(s)
           b == Len(u)
<1>1. /\ a \in Nat /\ b \in Nat /\ a <= b
      /\ DOMAIN s = 1..a
      /\ \A i \in 1..a : s[i] = u[(b - a) + i]
  BY DEF IsTail
<1>2. PICK q \in 1..b : u[q] = k
  BY DEF KeysOf
<1>3. Len(v) = b - 1 /\ \A n \in 1..(b - 1) : v[n] = IF n < q THEN u[n] ELSE u[n + 1]
  BY <1>2, WithoutAt
<1> HIDE DEF v, a, b
<1>4. q <= b - a
  <2>1. SUFFICES ASSUME q > b - a PROVE FALSE
    BY <1>1
  <2>2. q - (b - a) \in 1..a /\ (b - a) + (q - (b - a)) = q
    BY <1>1, <2>1
  <2>3. s[q - (b - a)] = k
    BY <1>1, <1>2, <2>2
  <2> QED BY <1>1, <2>2, <2>3 DEF KeysOf
<1>5. ASSUME NEW i \in 1..a PROVE s[i] = v[((b - 1) - a) + i]
  <2>1. /\ ((b - 1) - a) + i \in 1..(b - 1) /\ ~(((b - 1) - a) + i < q)
        /\ (((b - 1) - a) + i) + 1 = (b - a) + i
    BY <1>1, <1>2, <1>4
  <2>2. v[((b - 1) - a) + i] = u[(b - a) + i]
    BY <1>3, <2>1
  <2> QED BY <1>1, <2>2
<1>6. a <= b - 1 /\ a < b
  BY <1>1, <1>2, <1>4
<1>7. a <= Len(v) /\ \A i \in 1..a : s[i] = v[(Len(v) - a) + i]
  BY <1>3, <1>5, <1>6
<1>8. IsTail(s, v)
  BY <1>7 DEF IsTail, a
<1> QED BY <1>3, <1>6, <1>8 DEF v, a, b

(* A key at the end of both lists: the cache is the end of all keys again. *)
LEMMA AskKeepsTail ==
  ASSUME BucketAssumption, CacheInv, NEW k \in Keys, bucket[k] # NoBucket <=> k \in KeysOf(order)
  PROVE  LET o == Append(Without(Stay(k), k), k)
             u == Append(Without(uses, k), k)
         IN  IsTail(o, u) /\ Len(o) = Least(Capacity, Len(u))
<1> DEFINE t == Stay(k)
           w == Without(t, k)
           v == Without(uses, k)
           a == Len(order)
           b == Len(uses)
           x == Excess(k)
<1>1. /\ order \in Seq(Keys) /\ Distinct(order) /\ uses \in Seq(Keys) /\ Distinct(uses)
      /\ a \in Nat /\ b \in Nat /\ a = Least(Capacity, b) /\ Capacity \in Nat \ {0}
  BY OrderIsTail DEF CacheInv, BucketAssumption
<1>2. IsTail(order, uses)
  <2>1. a <= b
    BY <1>1 DEF Least
  <2> QED BY <2>1, OrderIsTail DEF IsTail
<1>3. /\ x \in {0, 1} /\ x <= a
      /\ (x = 0 <=> bucket[k] # NoBucket \/ a < Capacity)
      /\ t \in Seq(Keys) /\ Distinct(t) /\ Len(t) = a - x
      /\ KeysOf(t) = KeysOf(order) \ Evicted(k)
  BY StayIsRest
<1>4. IsTail(t, order)
  <2>1. \A i \in 1..Len(t) : t[i] = order[x + i]
    BY StayIsRest
  <2>2. Len(t) <= a /\ a - Len(t) = x
    BY <1>1, <1>3
  <2> HIDE DEF t, x
  <2> QED BY <2>1, <2>2 DEF IsTail
<1>5. w \in Seq(Keys) /\ v \in Seq(Keys)
  BY <1>1, <1>3, WithoutIsDistinct
<1>6. IsTail(w, v) /\ Len(w) + 1 = Least(Capacity, Len(v) + 1)
  <2>1. CASE k \in KeysOf(order)
    <3>1. x = 0
      BY <1>3, <2>1
    <3>2. t = order
      <4> HIDE DEF t, x
      <4>1. Len(t) = Len(order)
        BY <1>1, <1>3, <3>1
      <4>2. \A i \in 1..Len(t) : t[i] = order[i]
        BY <1>1, <1>4, <4>1 DEF IsTail
      <4> QED BY <1>1, <1>3, <4>1, <4>2, SeqEqual
    <3>3. PICK p \in 1..a : order[p] = k
      BY <1>1, <2>1 DEF KeysOf
    <3>4. IsTail(w, v) /\ Len(w) = a - 1 /\ Len(v) = b - 1
      <4>1. /\ IsTail(Without(order, order[p]), Without(uses, order[p]))
            /\ Len(Without(order, order[p])) = Len(order) - 1
            /\ Len(Without(uses, order[p])) = Len(uses) - 1
        BY <1>1, <1>2, <3>3, TailLoses
      <4> HIDE DEF t
      <4> QED BY <3>2, <3>3, <4>1
    <3> HIDE DEF w, v, a, b
    <3>5. (a - 1) + 1 = Least(Capacity, (b - 1) + 1)
      BY <1>1
    <3> QED BY <3>4, <3>5
  <2>2. CASE k \notin KeysOf(order)
    <3>1. w = t
      <4>1. k \notin KeysOf(t)
        BY <1>3, <2>2
      <4> HIDE DEF t
      <4> QED BY <4>1 DEF Without
    <3>2. x = IF a < Capacity THEN 0 ELSE 1
      BY <1>3, <2>2
    <3>3. CASE k \notin KeysOf(uses)
      <4>1. v = uses
        BY <3>3 DEF Without
      <4>2. IsTail(w, v)
        <5> HIDE DEF t, w, v
        <5> QED BY <1>1, <1>2, <1>3, <1>4, <3>1, <4>1, TailOfTail
      <4>3. Len(w) = a - x /\ Len(v) = b
        <5> HIDE DEF t, w, v
        <5> QED BY <1>3, <3>1, <4>1
      <4> HIDE DEF w, v, a, b, x
      <4>4. (a - x) + 1 = Least(Capacity, b + 1)
        BY <1>1, <3>2 DEF Least
      <4> QED BY <4>2, <4>3, <4>4
    <3>4. CASE k \in KeysOf(uses)
      <4>1. IsTail(order, v) /\ a < b /\ Len(v) = b - 1
        BY <1>1, <1>2, <2>2, <3>4, HeadLoses
      <4>2. IsTail(w, v)
        <5> HIDE DEF t, w, v
        <5> QED BY <1>1, <1>3, <1>4, <1>5, <3>1, <4>1, TailOfTail
      <4>3. Len(w) = a - x
        <5> HIDE DEF t, w
        <5> QED BY <1>3, <3>1
      <4> HIDE DEF w, v, a, b, x
      <4>4. (a - x) + 1 = Least(Capacity, (b - 1) + 1)
        BY <1>1, <3>2, <4>1 DEF Least
      <4> QED BY <4>1, <4>2, <4>3, <4>4
    <3> QED BY <3>3, <3>4
  <2> QED BY <2>1, <2>2
<1>7. IsTail(Append(w, k), Append(v, k))
  BY <1>5, <1>6, TailGrows
<1>8. Len(Append(w, k)) = Len(w) + 1 /\ Len(Append(v, k)) = Len(v) + 1
  BY <1>5
<1> HIDE DEF w, v
<1>9. IsTail(Append(w, k), Append(v, k)) /\ Len(Append(w, k)) = Least(Capacity, Len(Append(v, k)))
  BY <1>6, <1>7, <1>8
<1> QED BY <1>9 DEF w, v, t

(* A new key at the end. *)
LEMMA AppendIsDistinct ==
  ASSUME NEW s \in Seq(Keys), Distinct(s), NEW k \in Keys, k \notin KeysOf(s)
  PROVE  /\ Append(s, k) \in Seq(Keys) /\ Distinct(Append(s, k))
         /\ KeysOf(Append(s, k)) = KeysOf(s) \cup {k}
<1> DEFINE u == Append(s, k)
           b == Len(s)
<1>1. /\ b \in Nat /\ DOMAIN s = 1..b
      /\ u \in Seq(Keys) /\ DOMAIN u = 1..(b + 1)
      /\ u[b + 1] = k /\ \A i \in 1..b : u[i] = s[i]
  OBVIOUS
<1> HIDE DEF u, b
<1>2. \A i \in 1..b : s[i] # k
  BY <1>1 DEF KeysOf
<1>3. Distinct(u)
  <2>1. SUFFICES ASSUME NEW i \in 1..(b + 1), NEW j \in 1..(b + 1), u[i] = u[j] PROVE i = j
    BY <1>1 DEF Distinct
  <2>2. (i \in 1..b \/ i = b + 1) /\ (j \in 1..b \/ j = b + 1)
    BY <1>1
  <2> QED BY <1>1, <1>2, <2>1, <2>2 DEF Distinct
<1>4. KeysOf(u) = KeysOf(s) \cup {k}
  <2>1. \A i \in 1..(b + 1) : i \in 1..b \/ i = b + 1
    BY <1>1
  <2>2. KeysOf(u) \subseteq KeysOf(s) \cup {k}
    BY <1>1, <2>1 DEF KeysOf
  <2>3. b + 1 \in 1..(b + 1) /\ \A i \in 1..b : i \in 1..(b + 1)
    BY <1>1
  <2>4. KeysOf(s) \cup {k} \subseteq KeysOf(u)
    BY <1>1, <2>3 DEF KeysOf
  <2> QED BY <2>2, <2>4
<1> QED BY <1>1, <1>3, <1>4 DEF u

(* A request moves its key to the end of both lists.                       *)
LEMMA AskKeepsCache ==
  ASSUME BucketAssumption, CacheInv, NEW k \in Keys, Ask(k)
  PROVE  CacheInv'
<1> DEFINE w == Without(Stay(k), k)
           v == Without(uses, k)
           o == Append(w, k)
           u == Append(v, k)
<1>1. IInv /\ uses \in Seq(Keys) /\ Distinct(uses)
      /\ (\A y \in Keys : bucket[y] # NoBucket <=> y \in KeysOf(order))
  BY DEF CacheInv, MostRecentStay
<1>2. IInv'
  BY <1>1, AskHolds
<1>3. order' = o /\ uses' = u
  BY DEF Ask, Reordered
<1>4. v \in Seq(Keys) /\ Distinct(v) /\ KeysOf(v) = KeysOf(uses) \ {k}
  BY <1>1, WithoutIsDistinct
<1>5. Stay(k) \in Seq(Keys) /\ Distinct(Stay(k)) /\ KeysOf(Stay(k)) = KeysOf(order) \ Evicted(k)
  BY StayIsRest
<1>6. w \in Seq(Keys) /\ Distinct(w) /\ KeysOf(w) = KeysOf(Stay(k)) \ {k}
  BY <1>5, WithoutIsDistinct
<1>7. IsTail(o, u) /\ Len(o) = Least(Capacity, Len(u))
  BY <1>1, AskKeepsTail
<1> HIDE DEF w, v
<1>8. u \in Seq(Keys) /\ Distinct(u)
  BY <1>4, AppendIsDistinct
<1>9. o \in Seq(Keys) /\ KeysOf(o) = (KeysOf(order) \ Evicted(k)) \cup {k}
  BY <1>5, <1>6, AppendIsDistinct
<1>10. ASSUME NEW y \in Keys PROVE bucket'[y] # NoBucket <=> y \in KeysOf(order')
  <2>1. Served(k) # NoBucket
    <3>1. now \in Nat /\ [tokens |-> Tokens(k), at |-> now] \in Buckets(now)
      BY <1>1, FoundBalanced
    <3>2. Tokens(k) \in 0..Full /\ Full \in Nat /\ Cost \in Nat
      BY <3>1 DEF Buckets, BucketAssumption
    <3>3. Served(k) \in [tokens : 0..Full, at : Nat]
      BY <3>1, <3>2 DEF Served, Allows
    <3> QED BY <3>3 DEF BucketAssumption
  <2>2. bucket'[y] = IF y = k THEN Served(k) ELSE IF y \in Evicted(k) THEN NoBucket ELSE bucket[y]
    BY DEF Ask
  <2>3. KeysOf(order') = (KeysOf(order) \ Evicted(k)) \cup {k}
    BY <1>3, <1>9
  <2>4. bucket[y] # NoBucket <=> y \in KeysOf(order)
    BY <1>1
  <2> QED BY <2>1, <2>2, <2>3, <2>4
<1>11. order' = SubSeq(uses', Len(uses') - Least(Capacity, Len(uses')) + 1, Len(uses'))
  <2> DEFINE c == Least(Capacity, Len(u))
  <2> HIDE DEF o, u
  <2>1. Len(u) \in Nat /\ c \in 0..Len(u)
    BY <1>8 DEF Least, BucketAssumption
  <2>2. Len(o) = c /\ \A i \in 1..c : o[i] = u[(Len(u) - c) + i]
    BY <1>7 DEF IsTail
  <2> HIDE DEF c
  <2>3. o = SubSeq(u, Len(u) - c + 1, Len(u))
    BY <1>8, <1>9, <2>1, <2>2, TailIs
  <2> QED BY <1>3, <2>3 DEF c
<1>12. MostRecentStay'
  BY <1>10, <1>11 DEF MostRecentStay
<1>13. uses' \in Seq(Keys) /\ Distinct(uses')
  BY <1>3, <1>8
<1> QED BY <1>2, <1>12, <1>13 DEF CacheInv

(* The cache holds the keys that asked last, for every capacity: eviction  *)
(* takes the least recently used bucket and a key that comes back keeps    *)
(* its own.                                                                *)
THEOREM CacheKeepsMostRecent ==
  ASSUME BucketAssumption
  PROVE  Spec => []MostRecentStay
<1>1. Init => CacheInv
  <2> SUFFICES ASSUME Init PROVE CacheInv
    OBVIOUS
  <2>1. uses = <<>> /\ order = <<>> /\ \A y \in Keys : bucket[y] = NoBucket
    BY DEF Init
  <2>2. Len(uses) = 0 /\ Least(Capacity, 0) = 0 /\ DOMAIN uses = {} /\ DOMAIN order = {}
    BY <2>1 DEF Least, BucketAssumption
  <2>3. SubSeq(uses, 0 - 0 + 1, 0) = <<>>
    BY <2>1
  <2>4. MostRecentStay
    BY <2>1, <2>2, <2>3 DEF MostRecentStay, KeysOf
  <2>5. uses \in Seq(Keys) /\ Distinct(uses)
    BY <2>1, <2>2 DEF Distinct
  <2> QED BY <2>4, <2>5, InitHolds DEF CacheInv
<1>2. CacheInv /\ [Next]_vars => CacheInv'
  <2> SUFFICES ASSUME CacheInv, [Next]_vars PROVE CacheInv'
    OBVIOUS
  <2>1. ASSUME UNCHANGED <<bucket, order, uses>> PROVE (uses \in Seq(Keys) /\ Distinct(uses) /\ MostRecentStay)'
    BY <2>1 DEF CacheInv, MostRecentStay, Distinct
  <2>2. CASE Tick
    BY <2>1, <2>2, TickHolds DEF CacheInv, Tick
  <2>3. CASE UNCHANGED vars
    BY <2>1, <2>3 DEF CacheInv, vars, IInv, BucketsTyped, Accounts, GrantsFitRate
  <2>4. ASSUME NEW k \in Keys, Ask(k) PROVE CacheInv'
    BY <2>4, AskKeepsCache
  <2> QED BY <2>2, <2>3, <2>4 DEF Next
<1>3. CacheInv => MostRecentStay
  BY DEF CacheInv
<1> QED BY <1>1, <1>2, <1>3, PTL DEF Spec
=============================================================================
