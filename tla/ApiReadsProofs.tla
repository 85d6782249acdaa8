--------------------------- MODULE ApiReadsProofs ---------------------------
(***************************************************************************)
(* Theorems about ApiReads for every network, settings, caller and query,  *)
(* and every way in which others write in the meantime.                    *)
(***************************************************************************)
EXTENDS ApiReads, FiniteSetTheorems, WellFoundedInduction, TLAPS

(* A set of natural numbers has a smallest one. *)
LEMMA SmallestOf ==
  ASSUME NEW T, T \subseteq Nat, T # {}
  PROVE  \E n \in T : \A m \in T : n <= m
<1>1. PICK n \in T : \A m \in T : ~(<<m, n>> \in OpToRel(<, Nat))
  BY NatLessThanWellFounded, WFMin
<1>2. \A m \in T : ~(m < n)
  BY <1>1 DEF OpToRel
<1> QED BY <1>2

-----------------------------------------------------------------------------
(* The nodes a search can reach. *)

(* f is NodesWithin up to n. *)
Upto(assets, r, f, n) ==
  f = [k \in 0 .. n |-> IF k = 0 THEN Starts(r) ELSE Grown(assets, r, f[k - 1])]

LEMMA UptoAt ==
  ASSUME NEW assets, NEW r, NEW f, NEW n \in Nat, Upto(assets, r, f, n), NEW k \in 0 .. n
  PROVE  f[k] = IF k = 0 THEN Starts(r) ELSE Grown(assets, r, f[k - 1])
<1> DEFINE g == [i \in 0 .. n |-> IF i = 0 THEN Starts(r) ELSE Grown(assets, r, f[i - 1])]
<1>1. f = g
  BY DEF Upto
<1>2. g[k] = IF k = 0 THEN Starts(r) ELSE Grown(assets, r, f[k - 1])
  OBVIOUS
<1> HIDE DEF g
<1> QED BY <1>1, <1>2

LEMMA UptoAgree ==
  ASSUME NEW assets, NEW r, NEW m \in Nat, NEW n \in Nat, m <= n,
         NEW f, NEW g, Upto(assets, r, f, m), Upto(assets, r, g, n)
  PROVE  \A k \in 0 .. m : f[k] = g[k]
<1> DEFINE T == {k \in 0 .. m : f[k] # g[k]}
<1>1. SUFFICES ASSUME T # {} PROVE FALSE
  OBVIOUS
<1>2. PICK k \in T : \A j \in T : k <= j
  <2>1. T \subseteq Nat
    OBVIOUS
  <2> HIDE DEF T
  <2> QED BY <1>1, <2>1, SmallestOf
<1>3. k \in 0 .. m /\ k \in 0 .. n /\ f[k] # g[k]
  BY <1>2
<1>4. f[k] = (IF k = 0 THEN Starts(r) ELSE Grown(assets, r, f[k - 1]))
      /\ g[k] = (IF k = 0 THEN Starts(r) ELSE Grown(assets, r, g[k - 1]))
  BY <1>3, UptoAt
<1>5. k # 0 => k - 1 \in 0 .. m /\ ~(k <= k - 1)
  BY <1>3
<1>6. k # 0 => f[k - 1] = g[k - 1]
  BY <1>2, <1>5
<1> QED BY <1>3, <1>4, <1>6

LEMMA UptoExists ==
  ASSUME NEW assets, NEW r, NEW n \in Nat
  PROVE  \E f : Upto(assets, r, f, n)
<1> DEFINE T == {m \in Nat : ~\E f : Upto(assets, r, f, m)}
<1>1. SUFFICES ASSUME T # {} PROVE FALSE
  OBVIOUS
<1>2. PICK m \in T : \A j \in T : m <= j
  BY <1>1, SmallestOf
<1>3. CASE m = 0
  <2> DEFINE f == [k \in 0 .. 0 |-> Starts(r)]
  <2>1. f = [k \in 0 .. 0 |-> IF k = 0 THEN Starts(r) ELSE Grown(assets, r, f[k - 1])]
    OBVIOUS
  <2> QED BY <1>2, <1>3, <2>1 DEF Upto
<1>4. CASE m # 0
  <2>1. m - 1 \in Nat /\ ~(m <= m - 1)
    BY <1>2, <1>4
  <2>2. PICK f : Upto(assets, r, f, m - 1)
    BY <1>2, <2>1
  <2> DEFINE g == [k \in 0 .. m |-> IF k < m THEN f[k] ELSE Grown(assets, r, f[m - 1])]
  <2>3. ASSUME NEW k \in 0 .. m
        PROVE  g[k] = IF k = 0 THEN Starts(r) ELSE Grown(assets, r, g[k - 1])
    <3>1. CASE k < m
      <4>1. k \in 0 .. (m - 1) /\ g[k] = f[k]
        BY <2>1, <3>1
      <4>2. f[k] = IF k = 0 THEN Starts(r) ELSE Grown(assets, r, f[k - 1])
        BY <2>1, <2>2, <4>1, UptoAt
      <4>3. k # 0 => g[k - 1] = f[k - 1]
        BY <2>1, <3>1
      <4> QED BY <4>1, <4>2, <4>3
    <3>2. CASE k = m
      <4>1. g[k] = Grown(assets, r, f[m - 1])
        BY <3>2
      <4>2. m - 1 \in 0 .. m /\ m - 1 < m
        BY <2>1
      <4>3. g[m - 1] = f[m - 1]
        BY <4>2
      <4> HIDE DEF g
      <4> QED BY <1>4, <3>2, <4>1, <4>3
    <3> QED BY <2>1, <3>1, <3>2
  <2>4. g = [k \in 0 .. m |-> IF k = 0 THEN Starts(r) ELSE Grown(assets, r, g[k - 1])]
    <3>1. g = [k \in 0 .. m |-> g[k]]
      OBVIOUS
    <3> HIDE DEF g
    <3> QED BY <2>3, <3>1
  <2> HIDE DEF g
  <2>5. Upto(assets, r, g, m)
    BY <2>4 DEF Upto
  <2> QED BY <1>2, <2>5
<1> QED BY <1>3, <1>4

(* The equation that defines NodesWithin has a solution. *)
LEMMA WithinIs ==
  ASSUME NEW assets, NEW r
  PROVE  LET W == NodesWithin(assets, r)
         IN  /\ W[0] = Starts(r)
             /\ \A k \in Nat : W[k + 1] = Grown(assets, r, W[k])
<1> DEFINE F(n) == CHOOSE f : Upto(assets, r, f, n)
           G == [n \in Nat |-> F(n)[n]]
           H(h) == [k \in Nat |-> IF k = 0 THEN Starts(r) ELSE Grown(assets, r, h[k - 1])]
           W == NodesWithin(assets, r)
<1>1. \A n \in Nat : Upto(assets, r, F(n), n)
  BY UptoExists
<1> HIDE DEF F
<1>2. ASSUME NEW k \in Nat PROVE G[k] = IF k = 0 THEN Starts(r) ELSE Grown(assets, r, G[k - 1])
  <2>1. k \in 0 .. k /\ G[k] = F(k)[k]
    OBVIOUS
  <2>2. F(k)[k] = IF k = 0 THEN Starts(r) ELSE Grown(assets, r, F(k)[k - 1])
    BY <1>1, <2>1, UptoAt
  <2>3. CASE k # 0
    <3>1. k - 1 \in Nat /\ k - 1 <= k /\ k - 1 \in 0 .. (k - 1)
      BY <2>3
    <3>2. F(k - 1)[k - 1] = F(k)[k - 1]
      BY <1>1, <3>1, UptoAgree
    <3>3. G[k - 1] = F(k - 1)[k - 1]
      BY <3>1
    <3> QED BY <2>1, <2>2, <2>3, <3>2, <3>3
  <2> QED BY <2>1, <2>2, <2>3
<1>3. G = H(G)
  <2>1. G = [n \in Nat |-> G[n]]
    OBVIOUS
  <2> HIDE DEF G
  <2> QED BY <1>2, <2>1
<1>4. W = CHOOSE f : f = H(f)
  BY DEF NodesWithin
<1> HIDE DEF H
<1>5. W = H(W)
  BY <1>3, <1>4
<1>6. \A k \in Nat : H(W)[k] = IF k = 0 THEN Starts(r) ELSE Grown(assets, r, W[k - 1])
  BY DEF H
<1> HIDE DEF W
<1>7. W[0] = Starts(r)
  BY <1>5, <1>6
<1>8. ASSUME NEW k \in Nat PROVE W[k + 1] = Grown(assets, r, W[k])
  <2>1. k + 1 \in Nat /\ k + 1 # 0 /\ (k + 1) - 1 = k
    OBVIOUS
  <2> QED BY <1>5, <1>6, <2>1
<1> QED BY <1>7, <1>8 DEF W

Adjacent(assets, r, nodes) == _list_pipes_by_nodes(assets, nodes, r.direction, CityOf(r))
Named(assets, r, nodes) == _list_assets_by_ids(assets, nodes, CityOf(r))

(* More assets and more nodes lead further. *)
LEMMA GrownGrows ==
  ASSUME NEW A, NEW B, A \subseteq B, NEW r, NEW M, NEW N, M \subseteq N
  PROVE  /\ Adjacent(A, r, M) \subseteq Adjacent(B, r, N)
         /\ Named(A, r, M) \subseteq Named(B, r, N)
         /\ Ends(Adjacent(A, r, M), r.direction) \subseteq Ends(Adjacent(B, r, N), r.direction)
         /\ Grown(A, r, M) \subseteq Grown(B, r, N)
<1>1. Adjacent(A, r, M) \subseteq Adjacent(B, r, N)
  BY DEF Adjacent, _list_pipes_by_nodes
<1>2. Named(A, r, M) \subseteq Named(B, r, N)
  BY DEF Named, _list_assets_by_ids
<1>3. Ends(Adjacent(A, r, M), r.direction) \subseteq Ends(Adjacent(B, r, N), r.direction)
  BY <1>1 DEF Ends
<1> QED BY <1>1, <1>2, <1>3 DEF Grown, Adjacent

LEMMA WithinGrows ==
  ASSUME NEW A, NEW B, A \subseteq B, NEW r
  PROVE  \A k \in Nat : NodesWithin(A, r)[k] \subseteq NodesWithin(B, r)[k]
<1> DEFINE V == NodesWithin(A, r)
           W == NodesWithin(B, r)
           T == {k \in Nat : ~(V[k] \subseteq W[k])}
<1>1. SUFFICES ASSUME T # {} PROVE FALSE
  OBVIOUS
<1>2. PICK k \in T : \A j \in T : k <= j
  BY <1>1, SmallestOf
<1>3. /\ V[0] = Starts(r) /\ W[0] = Starts(r)
      /\ \A n \in Nat : V[n + 1] = Grown(A, r, V[n]) /\ W[n + 1] = Grown(B, r, W[n])
  BY WithinIs
<1> HIDE DEF V, W
<1>4. k # 0
  BY <1>2, <1>3
<1>5. k - 1 \in Nat /\ (k - 1) + 1 = k /\ ~(k <= k - 1)
  BY <1>2, <1>4
<1>6. V[k - 1] \subseteq W[k - 1]
  BY <1>2, <1>5
<1>7. V[k] = Grown(A, r, V[k - 1]) /\ W[k] = Grown(B, r, W[k - 1])
  BY <1>3, <1>5
<1>8. V[k] \subseteq W[k]
  <2> DEFINE M == V[k - 1]
             N == W[k - 1]
  <2>1. M \subseteq N
    BY <1>6
  <2> HIDE DEF M, N
  <2>2. Grown(A, r, M) \subseteq Grown(B, r, N)
    BY <2>1, GrownGrows
  <2> QED BY <1>7, <2>2 DEF M, N
<1>9. ~(V[k] \subseteq W[k])
  BY <1>2
<1> QED BY <1>8, <1>9

LEMMA WithinWidens ==
  ASSUME NEW A, NEW r, NEW k \in Nat, NEW m \in Nat, k <= m
  PROVE  NodesWithin(A, r)[k] \subseteq NodesWithin(A, r)[m]
<1> DEFINE W == NodesWithin(A, r)
           T == {n \in Nat : k <= n /\ ~(W[k] \subseteq W[n])}
<1>1. SUFFICES ASSUME T # {} PROVE FALSE
  OBVIOUS
<1>2. PICK n \in T : \A j \in T : n <= j
  BY <1>1, SmallestOf
<1>3. \A i \in Nat : W[i] \subseteq W[i + 1]
  BY WithinIs DEF Grown
<1> HIDE DEF W
<1>4. n # k
  BY <1>2
<1>5. n - 1 \in Nat /\ (n - 1) + 1 = n /\ ~(n <= n - 1) /\ k <= n - 1
  BY <1>2, <1>4
<1>6. W[k] \subseteq W[n - 1]
  BY <1>2, <1>5
<1>7. W[n - 1] \subseteq W[n]
  BY <1>3, <1>5
<1> QED BY <1>2, <1>6, <1>7

(* Nodes from which no pipe leads away are all that can be reached. *)
LEMMA WithinClosed ==
  ASSUME NEW A, NEW r, NEW D, Starts(r) \subseteq D,
         Ends(Adjacent(A, r, D), r.direction) \subseteq D
  PROVE  \A k \in Nat : NodesWithin(A, r)[k] \subseteq D
<1> DEFINE W == NodesWithin(A, r)
           T == {k \in Nat : ~(W[k] \subseteq D)}
<1>1. SUFFICES ASSUME T # {} PROVE FALSE
  OBVIOUS
<1>2. PICK k \in T : \A j \in T : k <= j
  BY <1>1, SmallestOf
<1>3. W[0] = Starts(r) /\ \A n \in Nat : W[n + 1] = Grown(A, r, W[n])
  BY WithinIs
<1> HIDE DEF W
<1>4. k # 0
  BY <1>2, <1>3
<1>5. k - 1 \in Nat /\ (k - 1) + 1 = k /\ ~(k <= k - 1)
  BY <1>2, <1>4
<1>6. W[k - 1] \subseteq D
  BY <1>2, <1>5
<1>7. W[k] = Grown(A, r, W[k - 1])
  BY <1>3, <1>5
<1>8. Ends(Adjacent(A, r, W[k - 1]), r.direction) \subseteq D
  BY <1>6, GrownGrows
<1>9. W[k] \subseteq D
  BY <1>6, <1>7, <1>8 DEF Grown, Adjacent
<1> QED BY <1>2, <1>9

(* One pipe further. *)
LEMMA WithinStep ==
  ASSUME NEW A, NEW r, NEW k \in Nat
  PROVE  /\ NodesWithin(A, r)[0] = Starts(r)
         /\ NodesWithin(A, r)[k + 1] =
              NodesWithin(A, r)[k] \cup Ends(Adjacent(A, r, NodesWithin(A, r)[k]), r.direction)
BY WithinIs DEF Grown, Adjacent
-----------------------------------------------------------------------------
(* The search. *)

(* What is reported is there, and what is to be followed can be reached.   *)
SearchSound ==
  /\ request \in Requests
  /\ hop \in Nat /\ hop <= request.depth
  /\ request.asset \in before /\ before \subseteq stored /\ stored \subseteq DOMAIN Network
  /\ visited = results \cup {request.asset}
  /\ frontier \subseteq NodesWithin(stored, request)[hop]
  /\ results \subseteq Reach(stored, request)
  /\ pc = "endpoint" => /\ hop = 0 /\ results = {} /\ frontier = Starts(request)
                        /\ Network[request.asset].type = "pipe"
  /\ pc = "nodes" => /\ hop < request.depth
                     /\ pipes \subseteq Adjacent(stored, request, frontier)

(* D are the nodes that were followed, from what was stored at first.      *)
Followed(D) ==
  LET nodes == D \cup frontier
      within == NodesWithin(before, request)
  IN  /\ Starts(request) \subseteq nodes
      /\ within[hop] \subseteq nodes
      /\ hop > 0 => within[hop - 1] \subseteq D
      /\ Adjacent(before, request, D) \subseteq visited
      /\ Ends(Adjacent(before, request, D), request.direction) \subseteq nodes
      /\ {v \in visited : Network[v].type # "pipe"} \subseteq nodes
      /\ pc # "endpoint" => Named(before, request, nodes) \subseteq visited
      /\ pc = "nodes" => Adjacent(before, request, frontier) \subseteq pipes /\ pipes \subseteq visited

Searching == pc \in {"endpoint", "hop", "nodes"}

SearchInv ==
  /\ topic # "network" => pc = "arrived"
  /\ topic = "network" => request \in Requests /\ stored \in Snapshots
  /\ pc \in {"arrived", "lookup"} => hop = 0 /\ results = {}
  /\ pc \in {"arrived", "lookup"} \/ Searching => status = 0
  /\ Searching => SearchSound /\ \E D : Followed(D)
  /\ TraversalIsReach

(* The pipes that end a search end at nodes. *)
LEMMA EndsAreNodes ==
  ASSUME NEW r \in Requests, NEW P, P \subseteq DOMAIN Network
  PROVE  \A n \in Ends(P, r.direction) : n \in DOMAIN Network => Network[n].type # "pipe"
BY NetworkAssumption, RequestsAssumption DEF Ends, _pipe_endpoint

LEMMA AccessAnswers == \A s, c : require_deployment_access(s, c) \in {200, 401, 403, 503}
BY DEF require_deployment_access, require_privileged_access, ByToken, ByKey, get_current_user,
       require_roles

LEMMA AdmitSearches ==
  ASSUME SearchInv, topic = "network", Admit, UNCHANGED topic
  PROVE  SearchInv'
BY AccessAnswers DEF SearchInv, Searching, TraversalIsReach, Admit, Respond, search

LEMMA LookupSearches ==
  ASSUME SearchInv, topic = "network", Lookup, UNCHANGED topic
  PROVE  SearchInv'
<1> DEFINE r == request
<1>1. /\ r \in Requests /\ stored \in Snapshots /\ stored' = stored /\ request' = request
      /\ pc = "lookup" /\ status = 0 /\ before' = stored
      /\ hop = 0 /\ results = {} /\ hop' = hop /\ results' = results
  BY DEF SearchInv, Lookup
<1>2. stored \subseteq DOMAIN Network
  BY <1>1, NetworkAssumption
<1>3. CASE r.asset \notin stored
  <2>1. pc' = "ended" /\ status' = 404
    BY <1>3 DEF Lookup, Respond
  <2> QED BY <1>1, <1>3, <2>1 DEF SearchInv, Searching, TraversalIsReach
<1>4. CASE r.asset \in stored
  <2>1. /\ visited' = {r.asset} /\ frontier' = Starts(r) /\ status' = status
        /\ pc' = IF Network[r.asset].type = "pipe" THEN "endpoint" ELSE "hop"
    BY <1>4 DEF Lookup
  <2>2. NodesWithin(stored, r)[0] = Starts(r)
    BY WithinIs
  <2>3. r.depth \in 1 .. 20
    BY <1>1, RequestsAssumption
  <2>4. SearchSound'
    BY <1>1, <1>2, <1>4, <2>1, <2>2, <2>3 DEF SearchSound
  <2>5. Followed({})'
    <3>1. Adjacent(stored, r, {}) = {} /\ Ends({}, r.direction) = {}
      BY DEF Adjacent, _list_pipes_by_nodes, Ends
    <3>2. CASE Network[r.asset].type = "pipe"
      BY <1>1, <2>1, <2>2, <3>1, <3>2 DEF Followed
    <3>3. CASE Network[r.asset].type # "pipe"
      <4>1. Starts(r) = {r.asset}
        BY <3>3 DEF Starts
      <4>2. Named(stored, r, {r.asset}) \subseteq {r.asset}
        BY DEF Named, _list_assets_by_ids
      <4> QED BY <1>1, <2>1, <2>2, <3>1, <3>3, <4>1, <4>2 DEF Followed
    <3> QED BY <3>2, <3>3
  <2>6. (\E D : Followed(D))'
    BY <2>5
  <2>7. status' = 0 /\ pc' \in {"endpoint", "hop"} /\ topic' = "network"
    BY <1>1, <2>1
  <2> QED BY <1>1, <2>4, <2>6, <2>7 DEF SearchInv, Searching, TraversalIsReach
<1> QED BY <1>3, <1>4

(* What one hop finds is part of what can be reached. *)
LEMMA HopsReach ==
  ASSUME NEW r \in Requests, NEW A, NEW k \in Nat, NEW N, N \subseteq NodesWithin(A, r)[k]
  PROVE  /\ k < r.depth => Adjacent(A, r, N) \ {r.asset} \subseteq Reach(A, r)
         /\ k <= r.depth => Named(A, r, N) \ {r.asset} \subseteq Reach(A, r)
<1> DEFINE W == NodesWithin(A, r)
<1>1. r.depth \in Nat /\ r.depth - 1 \in Nat
  BY RequestsAssumption
<1>2. Reach(A, r) = (Adjacent(A, r, W[r.depth - 1]) \cup Named(A, r, W[r.depth])) \ {r.asset}
  BY DEF Reach, Adjacent, Named
<1>3. ASSUME k < r.depth PROVE Adjacent(A, r, N) \subseteq Adjacent(A, r, W[r.depth - 1])
  <2>1. W[k] \subseteq W[r.depth - 1]
    BY <1>1, <1>3, WithinWidens
  <2>2. N \subseteq W[r.depth - 1]
    BY <2>1
  <2> HIDE DEF W
  <2> QED BY <2>2 DEF Adjacent, _list_pipes_by_nodes
<1>4. ASSUME k <= r.depth PROVE Named(A, r, N) \subseteq Named(A, r, W[r.depth])
  <2>1. W[k] \subseteq W[r.depth]
    BY <1>1, <1>4, WithinWidens
  <2>2. N \subseteq W[r.depth]
    BY <2>1
  <2> HIDE DEF W
  <2> QED BY <2>2 DEF Named, _list_assets_by_ids
<1> HIDE DEF W
<1> QED BY <1>2, <1>3, <1>4

(* What an answer needs to know. *)
LEMMA AssetsGrow ==
  ASSUME NEW r \in Requests, NEW A, NEW B, A \subseteq B
  PROVE  Reach(A, r) \subseteq Reach(B, r)
<1> DEFINE V == NodesWithin(A, r)
           W == NodesWithin(B, r)
<1>1. r.depth \in Nat /\ r.depth - 1 \in Nat
  BY RequestsAssumption
<1>2. V[r.depth - 1] \subseteq W[r.depth - 1] /\ V[r.depth] \subseteq W[r.depth]
  BY <1>1, WithinGrows
<1>3. /\ Reach(A, r) = (Adjacent(A, r, V[r.depth - 1]) \cup Named(A, r, V[r.depth])) \ {r.asset}
      /\ Reach(B, r) = (Adjacent(B, r, W[r.depth - 1]) \cup Named(B, r, W[r.depth])) \ {r.asset}
  BY DEF Reach, Adjacent, Named
<1>4. Adjacent(A, r, V[r.depth - 1]) \subseteq Adjacent(B, r, W[r.depth - 1])
  <2> HIDE DEF V, W
  <2> QED BY <1>2 DEF Adjacent, _list_pipes_by_nodes
<1>5. Named(A, r, V[r.depth]) \subseteq Named(B, r, W[r.depth])
  <2> HIDE DEF V, W
  <2> QED BY <1>2 DEF Named, _list_assets_by_ids
<1> QED BY <1>3, <1>4, <1>5

LEMMA EndpointSearches ==
  ASSUME SearchInv, topic = "network", Endpoint, UNCHANGED topic
  PROVE  SearchInv'
<1> DEFINE r == request
           found == Named(stored, r, frontier)
<1>1. /\ SearchSound /\ pc = "endpoint" /\ status = 0 /\ pc' = "hop" /\ status' = status
      /\ UNCHANGED <<stored, request, frontier, pipes, hop, before>>
      /\ visited' = visited \cup found /\ results' = results \cup (found \ visited)
      /\ r \in Requests /\ stored \in Snapshots /\ topic' = "network"
  BY DEF SearchInv, Searching, Endpoint, Report, Named, City
<1>2. PICK D : Followed(D)
  BY <1>1 DEF SearchInv, Searching
<1>3. hop = 0 /\ r.depth \in Nat /\ frontier \subseteq NodesWithin(stored, r)[hop]
  BY <1>1, RequestsAssumption DEF SearchSound
<1>4. found \ {r.asset} \subseteq Reach(stored, r)
  BY <1>1, <1>3, HopsReach
<1>5. SearchSound'
  BY <1>1, <1>4 DEF SearchSound
<1>6. Followed({})'
  <2>1. Adjacent(before, r, {}) = {} /\ Ends({}, r.direction) = {}
    BY DEF Adjacent, _list_pipes_by_nodes, Ends
  <2>2. found \subseteq frontier
    BY DEF Named, _list_assets_by_ids
  <2>3. visited = {r.asset} /\ Network[r.asset].type = "pipe" /\ frontier = Starts(r)
    BY <1>1 DEF SearchSound
  <2>4. Named(before, r, frontier) \subseteq found
    BY <1>1, GrownGrows DEF SearchSound
  <2>5. NodesWithin(before, r)[0] = Starts(r)
    BY WithinIs
  <2> QED BY <1>1, <1>3, <2>1, <2>2, <2>3, <2>4, <2>5 DEF Followed
<1>7. (\E E : Followed(E))'
  BY <1>6
<1> QED BY <1>1, <1>5, <1>7 DEF SearchInv, Searching, TraversalIsReach

(* The pipes of a hop. *)
LEMMA HopPipesSearches ==
  ASSUME SearchInv, topic = "network", HopPipes, UNCHANGED topic
  PROVE  SearchInv'
<1> DEFINE r == request
           W == NodesWithin(before, r)
<1>1. /\ SearchSound /\ pc = "hop" /\ status = 0
      /\ UNCHANGED <<stored, request, frontier, hop, before>>
      /\ r \in Requests /\ stored \in Snapshots /\ topic' = "network"
  BY DEF SearchInv, Searching, HopPipes
<1>2. PICK D : Followed(D)
  BY <1>1 DEF SearchInv, Searching
<1>3. r.depth \in Nat /\ r.depth > 0 /\ hop \in Nat /\ hop <= r.depth
  BY <1>1, RequestsAssumption DEF SearchSound
<1>4. CASE hop = r.depth \/ frontier = {}
  <2>1. pc' = "ended" /\ status' = 200 /\ results' = results
    BY <1>4 DEF HopPipes, Respond
  <2>2. W[r.depth - 1] \subseteq D /\ W[r.depth] \subseteq D \cup frontier
    <3>1. CASE hop = r.depth
      BY <1>2, <1>3, <3>1 DEF Followed
    <3>2. CASE frontier = {}
      <4>1. Starts(r) \subseteq D /\ Ends(Adjacent(before, r, D), r.direction) \subseteq D
        BY <1>2, <3>2 DEF Followed
      <4> QED BY <1>3, <4>1, WithinClosed
    <3> QED BY <1>4, <3>1, <3>2
  <2>3. Adjacent(before, r, W[r.depth - 1]) \subseteq visited
    <3>1. Adjacent(before, r, W[r.depth - 1]) \subseteq Adjacent(before, r, D)
      <4> HIDE DEF W
      <4> QED BY <2>2 DEF Adjacent, _list_pipes_by_nodes
    <3> QED BY <1>2, <3>1 DEF Followed
  <2>4. Named(before, r, W[r.depth]) \subseteq visited
    <3>1. Named(before, r, W[r.depth]) \subseteq Named(before, r, D \cup frontier)
      <4> HIDE DEF W
      <4> QED BY <2>2 DEF Named, _list_assets_by_ids
    <3>2. pc # "endpoint" /\ Named(before, r, D \cup frontier) \subseteq visited
      BY <1>1, <1>2 DEF Followed
    <3> QED BY <3>1, <3>2
  <2>5. Reach(before, r) \subseteq results
    <3>1. Reach(before, r) = (Adjacent(before, r, W[r.depth - 1]) \cup Named(before, r, W[r.depth])) \ {r.asset}
      BY DEF Reach, Adjacent, Named
    <3> QED BY <1>1, <2>3, <2>4, <3>1 DEF SearchSound
  <2>6. results \subseteq Reach(stored, r)
    BY <1>1 DEF SearchSound
  <2>7. TraversalIsReach'
    BY <1>1, <2>1, <2>5, <2>6 DEF TraversalIsReach
  <2> QED BY <1>1, <2>1, <2>7 DEF SearchInv, Searching
<1>5. CASE ~(hop = r.depth \/ frontier = {})
  <2> DEFINE found == Adjacent(stored, r, frontier)
  <2>1. /\ visited' = visited \cup found /\ results' = results \cup (found \ visited)
        /\ pipes' = found /\ pc' = "nodes" /\ status' = status
    BY <1>5 DEF HopPipes, Report, Adjacent, City
  <2>2. hop < r.depth
    BY <1>3, <1>5
  <2>3. found \ {r.asset} \subseteq Reach(stored, r)
    BY <1>1, <1>3, <2>2, HopsReach DEF SearchSound
  <2>4. SearchSound'
    BY <1>1, <2>1, <2>2, <2>3 DEF SearchSound
  <2>5. Adjacent(before, r, frontier) \subseteq found
    BY <1>1, GrownGrows DEF SearchSound
  <2>6. \A p \in found : Network[p].type = "pipe"
    BY DEF Adjacent, _list_pipes_by_nodes
  <2> HIDE DEF found
  <2>7. Followed(D)'
    BY <1>1, <1>2, <2>1, <2>5, <2>6 DEF Followed
  <2>8. (\E E : Followed(E))'
    BY <2>7
  <2> QED BY <1>1, <2>1, <2>4, <2>8 DEF SearchInv, Searching, TraversalIsReach
<1> QED BY <1>4, <1>5

(* The nodes of a hop. *)
LEMMA HopNodesSearches ==
  ASSUME SearchInv, topic = "network", HopNodes, UNCHANGED topic
  PROVE  SearchInv'
<1> DEFINE r == request
           W == NodesWithin(before, r)
           next == Ends(pipes, r.direction) \ visited
           found == Named(stored, r, next)
<1>1. /\ SearchSound /\ pc = "nodes" /\ status = 0 /\ pc' = "hop" /\ status' = status
      /\ UNCHANGED <<stored, request, pipes, before>>
      /\ frontier' = next /\ hop' = hop + 1
      /\ visited' = visited \cup found /\ results' = results \cup (found \ visited)
      /\ r \in Requests /\ stored \in Snapshots /\ topic' = "network"
  BY DEF SearchInv, Searching, HopNodes, Report, Named, City
<1>2. PICK D : Followed(D)
  BY <1>1 DEF SearchInv, Searching
<1>3. /\ r.depth \in Nat /\ hop \in Nat /\ hop < r.depth
      /\ frontier \subseteq NodesWithin(stored, r)[hop]
      /\ pipes \subseteq Adjacent(stored, r, frontier)
      /\ before \subseteq stored /\ stored \subseteq DOMAIN Network
      /\ visited = results \cup {r.asset} /\ results \subseteq Reach(stored, r)
      /\ r.asset \in before
  BY <1>1, RequestsAssumption DEF SearchSound
<1>4. SearchSound'
  <2>1. next \subseteq NodesWithin(stored, r)[hop + 1]
    <3>1. Adjacent(stored, r, frontier) \subseteq Adjacent(stored, r, NodesWithin(stored, r)[hop])
      BY <1>3, GrownGrows
    <3>2. Ends(pipes, r.direction) \subseteq Ends(Adjacent(stored, r, NodesWithin(stored, r)[hop]), r.direction)
      BY <1>3, <3>1 DEF Ends
    <3>3. Ends(Adjacent(stored, r, NodesWithin(stored, r)[hop]), r.direction) \subseteq NodesWithin(stored, r)[hop + 1]
      BY <1>3, WithinStep
    <3> QED BY <3>2, <3>3
  <2>2. hop + 1 \in Nat /\ hop + 1 <= r.depth
    BY <1>3
  <2> HIDE DEF next
  <2>3. found \ {r.asset} \subseteq Reach(stored, r)
    BY <1>1, <2>1, <2>2, HopsReach
  <2> HIDE DEF found
  <2> QED BY <1>1, <1>3, <2>1, <2>2, <2>3 DEF SearchSound
<1>5. pipes \subseteq DOMAIN Network
  BY <1>3 DEF Adjacent, _list_pipes_by_nodes
<1>6. \A n \in Ends(pipes, r.direction) : n \in DOMAIN Network => Network[n].type # "pipe"
  BY <1>1, <1>5, EndsAreNodes
<1>7. PICK E : E = D \cup frontier
  OBVIOUS
<1>8. Followed(E)'
  <2> DEFINE N == E \cup next
  <2>1. visited \subseteq DOMAIN Network
    <3>1. Reach(stored, r) \subseteq stored
      BY DEF Reach, _list_pipes_by_nodes, _list_assets_by_ids
    <3> QED BY <1>3, <3>1
  <2>2. Ends(pipes, r.direction) \subseteq N
    BY <1>2, <1>6, <1>7, <2>1 DEF Followed
  <2>3. Adjacent(before, r, E) = Adjacent(before, r, D) \cup Adjacent(before, r, frontier)
    BY <1>7 DEF Adjacent, _list_pipes_by_nodes
  <2>4. Adjacent(before, r, E) \subseteq visited
    BY <1>1, <1>2, <2>3 DEF Followed
  <2>5. Ends(Adjacent(before, r, E), r.direction) \subseteq N
    <3>1. Ends(Adjacent(before, r, E), r.direction) \subseteq
            Ends(Adjacent(before, r, D), r.direction) \cup Ends(pipes, r.direction)
      BY <1>1, <1>2, <2>3 DEF Followed, Ends
    <3> QED BY <1>2, <1>7, <2>2, <3>1 DEF Followed
  <2>6. W[hop] \subseteq E
    BY <1>2, <1>7 DEF Followed
  <2>7. W[hop + 1] \subseteq N
    <3>1. W[hop + 1] = W[hop] \cup Ends(Adjacent(before, r, W[hop]), r.direction)
      BY <1>3, WithinStep
    <3>2. Ends(Adjacent(before, r, W[hop]), r.direction) \subseteq Ends(Adjacent(before, r, E), r.direction)
      <4> HIDE DEF W
      <4> QED BY <2>6, GrownGrows
    <3> QED BY <2>5, <2>6, <3>1, <3>2
  <2>8. Named(before, r, N) \subseteq visited \cup found
    <3>1. Named(before, r, N) = Named(before, r, E) \cup Named(before, r, next)
      BY DEF Named, _list_assets_by_ids
    <3>2. Named(before, r, next) \subseteq found
      BY <1>3 DEF Named, _list_assets_by_ids
    <3>3. Named(before, r, E) \subseteq visited
      BY <1>1, <1>2, <1>7 DEF Followed
    <3> QED BY <3>1, <3>2, <3>3
  <2>9. found \subseteq next
    BY DEF Named, _list_assets_by_ids
  <2>10. Starts(r) \subseteq E /\ {v \in visited : Network[v].type # "pipe"} \subseteq E
    BY <1>2, <1>7 DEF Followed
  <2>11. (hop + 1) - 1 = hop
    BY <1>3
  <2> HIDE DEF W, found, next
  <2>12. /\ Starts(r) \subseteq N /\ W[hop + 1] \subseteq N /\ W[(hop + 1) - 1] \subseteq E
         /\ {v \in visited \cup found : Network[v].type # "pipe"} \subseteq N
    BY <2>6, <2>7, <2>9, <2>10, <2>11
  <2>13. /\ E \cup frontier' = N /\ NodesWithin(before', request') = W /\ hop' = hop + 1
         /\ request' = r /\ before' = before /\ visited' = visited \cup found /\ pc' = "hop"
    BY <1>1 DEF W
  <2> HIDE DEF r, N
  <2> QED BY <2>4, <2>5, <2>8, <2>12, <2>13 DEF Followed
<1>9. (\E F : Followed(F))'
  BY <1>8
<1> QED BY <1>1, <1>4, <1>9 DEF SearchInv, Searching, TraversalIsReach

(* Assets that are added. *)
LEMMA GrowSearches ==
  ASSUME SearchInv, topic = "network", Grow, UNCHANGED topic
  PROVE  SearchInv'
<1> DEFINE r == request
<1>1. /\ stored \subseteq stored' /\ stored' \in Snapshots /\ r \in Requests /\ topic' = "network"
      /\ UNCHANGED <<request, pc, status, visited, results, frontier, pipes, hop, before>>
      /\ pc # "ended"
  BY DEF SearchInv, Grow, search
<1>2. ASSUME Searching PROVE SearchSound'
  <2>1. SearchSound /\ hop \in Nat
    BY <1>2 DEF SearchInv, SearchSound
  <2>2. NodesWithin(stored, r)[hop] \subseteq NodesWithin(stored', r)[hop]
    BY <1>1, <2>1, WithinGrows
  <2>3. Reach(stored, r) \subseteq Reach(stored', r)
    BY <1>1, AssetsGrow
  <2>4. Adjacent(stored, r, frontier) \subseteq Adjacent(stored', r, frontier)
    BY <1>1, GrownGrows
  <2>5. stored' \subseteq DOMAIN Network
    BY <1>1, NetworkAssumption
  <2> QED BY <1>1, <2>1, <2>2, <2>3, <2>4, <2>5 DEF SearchSound
<1>3. ASSUME Searching PROVE (\E D : Followed(D))'
  <2>1. PICK D : Followed(D)
    BY <1>3 DEF SearchInv
  <2>2. Followed(D)'
    BY <1>1, <2>1 DEF Followed
  <2> QED BY <2>2
<1>4. TraversalIsReach'
  BY <1>1, AssetsGrow DEF SearchInv, TraversalIsReach
<1> QED BY <1>1, <1>2, <1>3, <1>4 DEF SearchInv, Searching
-----------------------------------------------------------------------------
(* Who is answered was admitted. *)
Admitted ==
  pc = "lookup" \/ Searching \/ status \in {200, 404} =>
    require_deployment_access(caller.settings, caller.credentials) = 200

(* What access means, whatever the settings and the credentials are. *)
LEMMA DeploymentAccess ==
  ASSUME NEW s, NEW c, require_deployment_access(s, c) = 200, ~s.local
  PROVE  /\ s.tenant # NoTenant
         /\ s.jwt => /\ c.token # NoToken /\ ~c.token.forged /\ ~c.token.expired
                     /\ c.token.complete /\ c.token.tenant = s.tenant
                     /\ c.token.roles \cap Viewers # {}
         /\ ~s.jwt => s.apiKey /\ c.key = "right"
<1>1. require_privileged_access(s, c, Viewers) = 200
  BY DEF require_deployment_access
<1>2. s.tenant # NoTenant
  BY <1>1 DEF require_privileged_access
<1>3. ASSUME s.jwt
      PROVE  /\ c.token # NoToken /\ ~c.token.forged /\ ~c.token.expired
             /\ c.token.complete /\ c.token.tenant = s.tenant
             /\ c.token.roles \cap Viewers # {}
  <2>1. ByToken(s, c.token, Viewers) = 200
    BY <1>1, <1>2, <1>3 DEF require_privileged_access
  <2>2. /\ get_current_user(s, c.token) = 200 /\ extract_tenant(c.token) = s.tenant
        /\ require_roles(c.token, Viewers) = 200
    BY <2>1 DEF ByToken
  <2> QED BY <2>2 DEF get_current_user, _decode_token, extract_tenant, require_roles
<1>4. ASSUME ~s.jwt PROVE s.apiKey /\ c.key = "right"
  <2>1. s.apiKey
    BY <1>1, <1>2, <1>4 DEF require_privileged_access
  <2>2. ByKey(c.key) = 200
    BY <1>1, <1>2, <1>4, <2>1 DEF require_privileged_access
  <2> QED BY <2>1, <2>2 DEF ByKey
<1> QED BY <1>2, <1>3, <1>4

(* Whoever may do more may do less. *)
LEMMA RolesAreNested ==
  ASSUME NEW s, NEW c, NEW few, NEW many, few \subseteq many,
         require_privileged_access(s, c, few) = 200
  PROVE  require_privileged_access(s, c, many) = 200
<1>1. \A t : ByToken(s, t, few) = 200 => ByToken(s, t, many) = 200
  BY DEF ByToken, require_roles
<1> QED BY <1>1 DEF require_privileged_access

LEMMA AdmittedFailsClosed ==
  ASSUME Admitted
  PROVE  AccessFailsClosed
<1> DEFINE s == caller.settings
           c == caller.credentials
<1>1. status \in {200, 404} => require_deployment_access(s, c) = 200
  BY DEF Admitted
<1>2. Admins \subseteq Analysts /\ Analysts \subseteq Viewers
  BY DEF Admins, Analysts, Viewers
<1>3. require_privileged_access(s, c, Admins) = 200 => require_privileged_access(s, c, Analysts) = 200
  BY <1>2, RolesAreNested
<1>4. require_privileged_access(s, c, Analysts) = 200 => require_privileged_access(s, c, Viewers) = 200
  BY <1>2, RolesAreNested
<1>5. require_privileged_access(s, c, Viewers) = 200 => require_deployment_access(s, c) = 200
  BY DEF require_deployment_access
<1>6. status \in {200, 404} /\ ~s.local =>
        /\ s.tenant # NoTenant
        /\ s.jwt => /\ c.token # NoToken /\ ~c.token.forged /\ ~c.token.expired
                    /\ c.token.complete /\ c.token.tenant = s.tenant
                    /\ c.token.roles \cap Viewers # {}
        /\ ~s.jwt => s.apiKey /\ c.key = "right"
  <2> HIDE DEF s, c
  <2> QED BY <1>1, DeploymentAccess
<1>7. /\ require_privileged_access(s, c, Admins) = 200 => require_privileged_access(s, c, Analysts) = 200
      /\ require_privileged_access(s, c, Analysts) = 200 =>
           require_privileged_access(s, c, Viewers) = 200 /\ require_deployment_access(s, c) = 200
  BY <1>3, <1>4, <1>5
<1>8. status \in {200, 404} /\ ~s.local =>
        /\ s.tenant # NoTenant
        /\ IF s.jwt
           THEN /\ c.token # NoToken /\ ~c.token.forged /\ ~c.token.expired
                /\ c.token.complete /\ c.token.tenant = s.tenant
                /\ c.token.roles \cap Viewers # {}
           ELSE s.apiKey /\ c.key = "right"
  <2> HIDE DEF s, c
  <2> QED BY <1>6
<1> QED BY <1>7, <1>8 DEF AccessFailsClosed

-----------------------------------------------------------------------------
(* Reads of the network *)

NetworkInv == SearchInv /\ Admitted

LEMMA NetworkInit == ReadInit => NetworkInv
<1> SUFFICES ASSUME ReadInit PROVE NetworkInv
  OBVIOUS
<1>1. pc = "arrived" /\ status = 0 /\ hop = 0 /\ results = {}
  BY DEF ReadInit, AssetInit
<1>2. topic = "network" => request \in Requests /\ stored \in Snapshots
  BY DEF ReadInit, AssetInit
<1> QED BY <1>1, <1>2 DEF NetworkInv, SearchInv, Searching, Admitted, TraversalIsReach

LEMMA NetworkStep == NetworkInv /\ [ReadNext]_readVars => NetworkInv'
<1> SUFFICES ASSUME NetworkInv, [ReadNext]_readVars PROVE NetworkInv'
  OBVIOUS
<1>1. CASE UNCHANGED <<topic, assetVars>>
  <2>1. UNCHANGED <<topic, stored, caller, request, pc, status, visited, results, frontier, pipes,
                    hop, before>>
    BY <1>1 DEF assetVars, search
  <2>2. SearchSound => SearchSound'
    BY <2>1 DEF SearchSound
  <2>3. (\E D : Followed(D)) => (\E D : Followed(D))'
    <3>1. ASSUME NEW D, Followed(D) PROVE Followed(D)'
      BY <2>1, <3>1 DEF Followed
    <3> QED BY <3>1
  <2>4. Searching' = Searching /\ TraversalIsReach' = TraversalIsReach /\ Admitted' = Admitted
    BY <2>1 DEF Searching, TraversalIsReach, Admitted
  <2> QED BY <2>1, <2>2, <2>3, <2>4 DEF NetworkInv, SearchInv
<1>2. ASSUME topic = "network", AssetNext, UNCHANGED topic PROVE NetworkInv'
  <2>1. CASE Admit
    <3>1. SearchInv'
      BY <1>2, <2>1, AdmitSearches DEF NetworkInv
    <3>2. Admitted'
      BY <2>1, AccessAnswers DEF NetworkInv, SearchInv, Searching, Admitted, Admit, Respond
    <3> QED BY <3>1, <3>2 DEF NetworkInv
  <2>2. CASE Lookup \/ Endpoint \/ HopPipes \/ HopNodes
    <3>1. SearchInv'
      <4>1. SearchInv /\ topic = "network" /\ UNCHANGED topic
        BY <1>2 DEF NetworkInv
      <4>2. CASE Lookup
        BY <4>1, <4>2, LookupSearches
      <4>3. CASE Endpoint
        BY <4>1, <4>3, EndpointSearches
      <4>4. CASE HopPipes
        BY <4>1, <4>4, HopPipesSearches
      <4>5. CASE HopNodes
        BY <4>1, <4>5, HopNodesSearches
      <4> QED BY <2>2, <4>2, <4>3, <4>4, <4>5
    <3>2. (pc = "lookup" \/ Searching) /\ caller' = caller
      BY <2>2 DEF Lookup, Endpoint, HopPipes, HopNodes, Searching
    <3>3. Admitted'
      BY <3>2 DEF NetworkInv, Admitted
    <3> QED BY <3>1, <3>3 DEF NetworkInv
  <2>3. CASE Grow
    <3>1. SearchInv'
      BY <1>2, <2>3, GrowSearches DEF NetworkInv
    <3>2. Admitted'
      BY <2>3 DEF NetworkInv, Searching, Admitted, Grow
    <3> QED BY <3>1, <3>2 DEF NetworkInv
  <2> QED BY <1>2, <2>1, <2>2, <2>3 DEF AssetNext
<1> QED BY <1>1, <1>2 DEF ReadNext, readVars

(* What a traversal has followed and found, and who was admitted to it,    *)
(* agree in every state, whatever is added to the network in between.      *)
THEOREM NetworkInvariance == ReadSpec => []NetworkInv
<1> QED BY NetworkInit, NetworkStep, PTL DEF ReadSpec

(* Whatever the network, the settings and the caller are, and whatever is  *)
(* added between the queries of a request: who is answered may be          *)
(* answered, and the answer is what can be reached by the depth asked for. *)
THEOREM ReadsAreEarned == ReadSpec => []AnswersAreEarned
<1>1. NetworkInv => AnswersAreEarned
  BY AdmittedFailsClosed DEF NetworkInv, SearchInv, AnswersAreEarned
<1> QED BY <1>1, NetworkInvariance, PTL
-----------------------------------------------------------------------------
(* Buckets of time *)

LEMMA Division ==
  \A n \in Nat \ {0} : \A t \in Int : \E q, r \in Int :
    /\ q = t \div n /\ r = t % n
    /\ t = q * n + r /\ 0 <= r /\ r < n
OBVIOUS

LEMMA Multiples ==
  \A n \in Nat \ {0} : \A p, q \in Int :
    /\ (p * n) % n = 0 /\ (p * n) \div n = p
    /\ p * n < q * n => p < q
    /\ p < q => p * n + n <= q * n
<1>1. \A n \in Nat \ {0} : \A p, q \in Int : p * n < q * n => p < q
  OBVIOUS
<1>2. \A n \in Nat \ {0} : \A p, q \in Int : p < q => p * n + n <= q * n
  OBVIOUS
<1>3. \A n \in Nat \ {0} : \A p \in Int : (p * n) % n = 0
  OBVIOUS
<1>4. \A n \in Nat \ {0} : \A p \in Int : (p * n) \div n = p
  OBVIOUS
<1> QED BY <1>1, <1>2, <1>3, <1>4

(* What a bucket is. *)
LEMMA BucketIs ==
  \A t \in Int : \E q, r \in Int :
    /\ time_bucket(t) = q * Granularity /\ r = t % Granularity
    /\ t = time_bucket(t) + r /\ 0 <= r /\ r < Granularity
<1> TAKE t \in Int
<1>1. PICK q \in Int, r \in Int : /\ q = t \div Granularity /\ r = t % Granularity
                                  /\ t = q * Granularity + r /\ 0 <= r /\ r < Granularity
  BY GranularityAssumption, Division
<1>2. time_bucket(t) = q * Granularity
  BY <1>1 DEF time_bucket
<1>3. t = time_bucket(t) + r
  BY <1>1, <1>2
<1> QED BY <1>1, <1>2, <1>3

LEMMA BucketHolds ==
  \A t \in Int :
    /\ time_bucket(t) \in Int /\ time_bucket(t) % Granularity = 0
    /\ time_bucket(t) <= t /\ t < time_bucket(t) + Granularity
<1> TAKE t \in Int
<1>1. PICK q \in Int, r \in Int :
        /\ time_bucket(t) = q * Granularity
        /\ t = time_bucket(t) + r /\ 0 <= r /\ r < Granularity
  BY BucketIs
<1>2. q * Granularity \in Int /\ (q * Granularity) % Granularity = 0
  BY GranularityAssumption, Multiples
<1>3. time_bucket(t) \in Int /\ time_bucket(t) % Granularity = 0
  BY <1>1, <1>2
<1> QED BY <1>1, <1>3, GranularityAssumption

(* Multiples less than one bucket apart are the same. *)
LEMMA BucketsApart ==
  \A p, q \in Int : p * Granularity < q * Granularity + Granularity => p <= q
<1> SUFFICES ASSUME NEW p \in Int, NEW q \in Int, q < p
             PROVE  ~(p * Granularity < q * Granularity + Granularity)
  OBVIOUS
<1>1. q * Granularity + Granularity <= p * Granularity
  BY GranularityAssumption, Multiples
<1>2. p * Granularity \in Int /\ q * Granularity \in Int
  BY GranularityAssumption
<1> QED BY <1>1, <1>2, GranularityAssumption

LEMMA BucketIsTheOne ==
  \A t, b \in Int : b % Granularity = 0 /\ b <= t /\ t < b + Granularity => time_bucket(t) = b
<1> SUFFICES ASSUME NEW t \in Int, NEW b \in Int, b % Granularity = 0, b <= t, t < b + Granularity
             PROVE  time_bucket(t) = b
  OBVIOUS
<1>1. PICK q \in Int : time_bucket(t) = q * Granularity
  BY BucketIs
<1>2. PICK p \in Int : b = p * Granularity
  <2>1. PICK p \in Int, r \in Int : r = b % Granularity /\ b = p * Granularity + r
    BY GranularityAssumption, Division
  <2>2. p * Granularity \in Int /\ r = 0
    BY <2>1, GranularityAssumption
  <2> QED BY <2>1, <2>2
<1>3. time_bucket(t) \in Int /\ time_bucket(t) <= t /\ t < time_bucket(t) + Granularity
  BY BucketHolds
<1>4. b < time_bucket(t) + Granularity /\ time_bucket(t) < b + Granularity
  BY <1>3, GranularityAssumption
<1>5. p <= q /\ q <= p
  BY <1>1, <1>2, <1>4, BucketsApart
<1>6. p = q
  BY <1>5
<1> QED BY <1>1, <1>2, <1>6

LEMMA BucketsFollow ==
  \A s, t \in Int : s <= t => time_bucket(s) <= time_bucket(t)
<1> SUFFICES ASSUME NEW s \in Int, NEW t \in Int, s <= t
             PROVE  time_bucket(s) <= time_bucket(t)
  OBVIOUS
<1>1. PICK p \in Int : time_bucket(s) = p * Granularity
  BY BucketIs
<1>2. PICK q \in Int : time_bucket(t) = q * Granularity
  BY BucketIs
<1>3. /\ time_bucket(s) \in Int /\ time_bucket(t) \in Int /\ time_bucket(s) <= s
      /\ t < time_bucket(t) + Granularity
  BY BucketHolds
<1>4. time_bucket(s) < time_bucket(t) + Granularity
  BY <1>3, GranularityAssumption
<1>5. p <= q
  BY <1>1, <1>2, <1>4, BucketsApart
<1>6. CASE p = q
  BY <1>1, <1>2, <1>3, <1>6
<1>7. CASE p < q
  <2>1. p * Granularity + Granularity <= q * Granularity
    BY <1>7, GranularityAssumption, Multiples
  <2>2. time_bucket(s) + Granularity <= time_bucket(t)
    BY <1>1, <1>2, <2>1
  <2> QED BY <1>3, <2>2, GranularityAssumption
<1> QED BY <1>5, <1>6, <1>7

(* A bucket of a time between two times lies between their buckets, and is *)
(* that of one of the times between.                                       *)
LEMMA BucketsBetween ==
  ASSUME NEW from \in Int, NEW to \in Int, from < to
  PROVE  Grid(from, to) = {time_bucket(t) : t \in from .. to - 1}
<1>1. to - 1 \in Int /\ from <= to - 1 /\ LastBucket(to) = time_bucket(to - 1)
  BY DEF LastBucket
<1>2. time_bucket(from) \in Int /\ time_bucket(to - 1) \in Int
  BY <1>1, BucketHolds
<1>3. ASSUME NEW t \in from .. to - 1 PROVE time_bucket(t) \in Grid(from, to)
  <2>1. t \in Int /\ from <= t /\ t <= to - 1
    OBVIOUS
  <2>2. /\ time_bucket(from) <= time_bucket(t) /\ time_bucket(t) <= time_bucket(to - 1)
        /\ time_bucket(t) \in Int /\ time_bucket(t) % Granularity = 0
    BY <1>1, <2>1, BucketHolds, BucketsFollow
  <2> QED BY <1>1, <1>2, <2>2 DEF Grid
<1>4. ASSUME NEW b \in Grid(from, to) PROVE \E t \in from .. to - 1 : time_bucket(t) = b
  <2>1. b \in Int /\ b % Granularity = 0 /\ time_bucket(from) <= b /\ b <= time_bucket(to - 1)
    BY <1>1, <1>2 DEF Grid
  <2>2. CASE from <= b
    <3>1. b <= to - 1 /\ b < b + Granularity
      BY <1>1, <1>2, <2>1, BucketHolds, GranularityAssumption
    <3>2. time_bucket(b) = b
      BY <2>1, <3>1, BucketIsTheOne
    <3> QED BY <2>1, <2>2, <3>1, <3>2
  <2>3. CASE b < from
    <3>1. from < b + Granularity
      BY <1>2, <2>1, BucketHolds, GranularityAssumption
    <3>2. time_bucket(from) = b
      BY <2>1, <2>3, <3>1, BucketIsTheOne
    <3> QED BY <1>1, <3>2
  <2> QED BY <2>1, <2>2, <2>3
<1>5. {time_bucket(t) : t \in from .. to - 1} \subseteq Grid(from, to)
  BY <1>3
<1>6. Grid(from, to) \subseteq {time_bucket(t) : t \in from .. to - 1}
  BY <1>4
<1> QED BY <1>5, <1>6

(* What is covered by the image of a finite set. *)
LEMMA ImageBound ==
  ASSUME NEW S, IsFiniteSet(S), NEW f, NEW T, \A y \in T : \E x \in S : y = f[x]
  PROVE  IsFiniteSet(T) /\ Cardinality(T) <= Cardinality(S)
<1> DEFINE g == [x \in S |-> f[x]]
           R == {f[x] : x \in S}
<1>1. g \in Surjection(S, R)
  BY DEF Surjection
<1>2. IsFiniteSet(R) /\ Cardinality(R) <= Cardinality(S)
  BY <1>1, FS_Surjection
<1>3. T \in SUBSET R
  OBVIOUS
<1>4. IsFiniteSet(T) /\ Cardinality(T) <= Cardinality(R)
  BY <1>2, <1>3, FS_Subset
<1>5. Cardinality(S) \in Nat /\ Cardinality(R) \in Nat /\ Cardinality(T) \in Nat
  BY <1>2, <1>4, FS_CardinalityType
<1> QED BY <1>2, <1>4, <1>5

(* The grid of a window has a bucket for each of its parts, at most. *)
LEMMA GridIsBounded ==
  ASSUME NEW from \in Int, NEW to \in Int, from < to, GridFits(from, to)
  PROVE  IsFiniteSet(Grid(from, to)) /\ Cardinality(Grid(from, to)) <= MaxGapBuckets
<1>1. to - 1 \in Int /\ LastBucket(to) = time_bucket(to - 1)
  BY DEF LastBucket
<1>2. PICK p \in Int : time_bucket(from) = p * Granularity
  BY BucketIs
<1>3. PICK q \in Int : time_bucket(to - 1) = q * Granularity
  BY <1>1, BucketIs
<1>4. /\ time_bucket(from) \in Int /\ time_bucket(to - 1) \in Int
      /\ time_bucket(from) <= from /\ from < time_bucket(from) + Granularity
      /\ time_bucket(to - 1) <= to - 1 /\ time_bucket(from) <= time_bucket(to - 1)
  BY <1>1, BucketHolds, BucketsFollow
<1> DEFINE length == to - from + Granularity - 1
           n == length \div Granularity
<1>5. PICK m \in Int, r \in Int : /\ m = length \div Granularity
                                  /\ length = m * Granularity + r /\ r < Granularity
  BY GranularityAssumption, Division
<1>6. q <= p + m
  <2>1. q * Granularity <= p * Granularity + length
    BY <1>2, <1>3, <1>4, GranularityAssumption
  <2>2. length \in Int /\ p * Granularity \in Int /\ m * Granularity \in Int /\ q * Granularity \in Int
    BY GranularityAssumption
  <2>3. (p + m) * Granularity = p * Granularity + m * Granularity
    BY GranularityAssumption
  <2> HIDE DEF length
  <2>4. q * Granularity < (p + m) * Granularity + Granularity
    BY <1>5, <2>1, <2>2, <2>3, GranularityAssumption
  <2>5. p + m \in Int
    OBVIOUS
  <2> DEFINE s == p + m
  <2> HIDE DEF s
  <2>6. q <= s
    BY <2>4, <2>5, BucketsApart DEF s
  <2> QED BY <2>6 DEF s
<1>7. p <= q
  <2>1. p * Granularity < q * Granularity + Granularity
    BY <1>2, <1>3, <1>4, GranularityAssumption
  <2> QED BY <2>1, BucketsApart
<1> DEFINE f == [i \in p .. q |-> i * Granularity]
<1>8. \A b \in Grid(from, to) : \E i \in p .. q : b = f[i]
  <2> SUFFICES ASSUME NEW b \in Grid(from, to)
               PROVE  \E i \in p .. q : b = f[i]
    OBVIOUS
  <2>1. b \in Int /\ b % Granularity = 0 /\ time_bucket(from) <= b /\ b <= time_bucket(to - 1)
    BY <1>1, <1>4 DEF Grid
  <2>2. PICK i \in Int, z \in Int : z = b % Granularity /\ b = i * Granularity + z
    BY <2>1, GranularityAssumption, Division
  <2>3. b = i * Granularity
    <3>1. i * Granularity \in Int /\ z = 0
      BY <2>1, <2>2, GranularityAssumption
    <3> QED BY <2>2, <3>1
  <2>4. /\ p * Granularity < i * Granularity + Granularity
        /\ i * Granularity < q * Granularity + Granularity
    BY <1>2, <1>3, <1>4, <2>1, <2>3, GranularityAssumption
  <2>5. p <= i /\ i <= q
    BY <2>4, BucketsApart
  <2> QED BY <2>3, <2>5
<1>9. IsFiniteSet(p .. q) /\ Cardinality(p .. q) = q - p + 1
  BY <1>7, FS_Interval
<1> HIDE DEF f
<1>10. IsFiniteSet(Grid(from, to)) /\ Cardinality(Grid(from, to)) <= Cardinality(p .. q)
  BY <1>8, <1>9, ImageBound
<1>11. m + 1 <= MaxGapBuckets
  BY <1>5 DEF GridFits
<1>12. Cardinality(Grid(from, to)) \in Nat /\ MaxGapBuckets \in Int
  BY <1>10, FS_CardinalityType, WindowAssumption
<1> QED BY <1>6, <1>9, <1>10, <1>11, <1>12

(* The rows of the table have a time. *)
TimesAreInt == DOMAIN table \subseteq Assets \X Int

(* What an aggregate has. *)
LEMMA Aggregated ==
  ASSUME NEW S
  PROVE  /\ DOMAIN Aggregate(S) = {time_bucket(k[2]) : k \in S}
         /\ \A b \in DOMAIN Aggregate(S) :
              /\ Aggregate(S)[b] = {Reading(k) : k \in {j \in S : time_bucket(j[2]) = b}}
              /\ Aggregate(S)[b] # {}
<1>1. DOMAIN Aggregate(S) = {time_bucket(k[2]) : k \in S}
  BY DEF Aggregate
<1>2. ASSUME NEW b \in {time_bucket(k[2]) : k \in S}
      PROVE  /\ Aggregate(S)[b] = {Reading(k) : k \in {j \in S : time_bucket(j[2]) = b}}
             /\ Aggregate(S)[b] # {}
  <2>1. Aggregate(S)[b] = {Reading(k) : k \in {j \in S : time_bucket(j[2]) = b}}
    BY DEF Aggregate
  <2>2. PICK k \in S : time_bucket(k[2]) = b
    OBVIOUS
  <2>3. Reading(k) \in Aggregate(S)[b]
    BY <2>1, <2>2
  <2> QED BY <2>1, <2>3
<1> QED BY <1>1, <1>2

(* What the grid has in common with the raw read. *)
GapAgrees(a, s, from, to) ==
  LET raw == RawRead(a, s, from, to)
      gap == GapRead(a, s, from, to)
  IN  /\ {b \in DOMAIN gap : gap[b] # {}} = DOMAIN raw
      /\ \A b \in DOMAIN raw : gap[b] = raw[b]
      /\ DOMAIN gap = {time_bucket(t) : t \in from .. to - 1}
      /\ GridFits(from, to) => Cardinality(DOMAIN gap) <= MaxGapBuckets

LEMMA GapsAgree ==
  ASSUME TimesAreInt, NEW a, NEW s, NEW from \in Int, NEW to \in Int, from < to
  PROVE  GapAgrees(a, s, from, to)
<1> DEFINE M == Matching([asset |-> a, from |-> from, to |-> to], s)
           raw == RawRead(a, s, from, to)
           gap == GapRead(a, s, from, to)
<1>1. raw = Aggregate(M)
  BY DEF RawRead
<1>2. \A k \in M : k[2] \in from .. to - 1
  BY DEF Matching, RowsOf, TimesAreInt
<1>3. DOMAIN raw = {time_bucket(k[2]) : k \in M} /\ \A b \in DOMAIN raw : raw[b] # {}
  <2> HIDE DEF M, raw
  <2> QED BY <1>1, Aggregated
<1>4. Grid(from, to) = {time_bucket(t) : t \in from .. to - 1}
  BY BucketsBetween
<1>5. DOMAIN raw \subseteq Grid(from, to)
  <2> HIDE DEF M, raw
  <2> QED BY <1>2, <1>3, <1>4
<1>6. gap = [b \in Grid(from, to) |-> IF b \in DOMAIN raw THEN raw[b] ELSE {}]
  BY DEF GapRead
<1>7. GridFits(from, to) => Cardinality(Grid(from, to)) <= MaxGapBuckets
  BY GridIsBounded
<1> HIDE DEF M, raw, gap
<1>8. {b \in DOMAIN gap : gap[b] # {}} = DOMAIN raw
  BY <1>3, <1>5, <1>6
<1>9. \A b \in DOMAIN raw : gap[b] = raw[b]
  BY <1>5, <1>6
<1>10. DOMAIN gap = Grid(from, to)
  BY <1>6
<1> QED BY <1>4, <1>7, <1>8, <1>9, <1>10 DEF GapAgrees, raw, gap

LEMMA ReadsAgreeAlways == TimesAreInt => ReadsAgree
<1> SUFFICES ASSUME TimesAreInt, NEW a \in Assets, NEW from \in Times, NEW to \in Times,
                    NEW s \in AnyScenario, from < to,
                    get_observations(a, s, from, to, TRUE, TRUE).status = 200
             PROVE  LET raw == get_observations(a, s, from, to, FALSE, FALSE)
                        gap == get_observations(a, s, from, to, TRUE, TRUE)
                    IN  /\ {b \in DOMAIN gap.buckets : gap.buckets[b] # {}} = DOMAIN raw.buckets
                        /\ \A b \in DOMAIN raw.buckets : gap.buckets[b] = raw.buckets[b]
                        /\ DOMAIN gap.buckets = {time_bucket(t) : t \in from .. to - 1}
                        /\ Cardinality(DOMAIN gap.buckets) <= MaxGapBuckets
  BY DEF ReadsAgree
<1>1. from \in Int /\ to \in Int
  BY WindowAssumption
<1> DEFINE raw == get_observations(a, s, from, to, FALSE, FALSE)
           gap == get_observations(a, s, from, to, TRUE, TRUE)
<1>2. raw.buckets = RawRead(a, s, from, to)
  BY DEF get_observations, Answer
<1>3. ~GridFits(from, to) => gap.status = 400
  BY DEF get_observations, Answer
<1>4. GridFits(from, to) => gap.buckets = GapRead(a, s, from, to)
  BY DEF get_observations, Answer
<1> HIDE DEF raw, gap
<1>5. GridFits(from, to)
  <2>1. gap.status = 200
    BY DEF gap
  <2> QED BY <1>3, <2>1
<1>6. GapAgrees(a, s, from, to)
  BY <1>1, GapsAgree
<1>7. /\ {b \in DOMAIN gap.buckets : gap.buckets[b] # {}} = DOMAIN raw.buckets
      /\ \A b \in DOMAIN raw.buckets : gap.buckets[b] = raw.buckets[b]
      /\ DOMAIN gap.buckets = {time_bucket(t) : t \in from .. to - 1}
      /\ Cardinality(DOMAIN gap.buckets) <= MaxGapBuckets
  <2> DEFINE R == RawRead(a, s, from, to)
             G == GapRead(a, s, from, to)
  <2>1. /\ {b \in DOMAIN G : G[b] # {}} = DOMAIN R
        /\ \A b \in DOMAIN R : G[b] = R[b]
        /\ DOMAIN G = {time_bucket(t) : t \in from .. to - 1}
        /\ Cardinality(DOMAIN G) <= MaxGapBuckets
    BY <1>5, <1>6 DEF GapAgrees
  <2>2. raw.buckets = R /\ gap.buckets = G
    BY <1>2, <1>4, <1>5
  <2> HIDE DEF R, G
  <2> QED BY <2>1, <2>2
<1> QED BY <1>7 DEF raw, gap

-----------------------------------------------------------------------------
(* Gaps *)

Between(lo, hi) == {b \in time_bucket(lo) .. time_bucket(hi) : b % Granularity = 0}

Steps(lo, hi) == (hi - lo) \div Granularity

(* From its first row on, an asset has a bucket for every step of its span *)
(* and at most one more.                                                   *)
LEMMA SpanFits ==
  ASSUME NEW lo \in Int, NEW hi \in Int, lo <= hi
  PROVE  /\ Steps(lo, hi) \in Nat
         /\ \A i \in 0 .. Steps(lo, hi) : time_bucket(lo) + i * Granularity \in Between(lo, hi)
         /\ \A b \in Between(lo, hi) : \E i \in 0 .. Steps(lo, hi) + 1 :
              b = time_bucket(lo) + i * Granularity
<1> DEFINE n == Steps(lo, hi)
<1>1. PICK p \in Int : time_bucket(lo) = p * Granularity
  BY BucketIs
<1>2. PICK q \in Int : time_bucket(hi) = q * Granularity
  BY BucketIs
<1>3. PICK m \in Int, r \in Int : /\ m = Steps(lo, hi) /\ hi - lo = m * Granularity + r
                                  /\ 0 <= r /\ r < Granularity
  BY GranularityAssumption, Division DEF Steps
<1>4. /\ time_bucket(lo) \in Int /\ time_bucket(lo) <= lo /\ lo < time_bucket(lo) + Granularity
      /\ time_bucket(hi) \in Int /\ time_bucket(hi) <= hi /\ hi < time_bucket(hi) + Granularity
  BY BucketHolds
<1>5. Granularity \in Nat /\ Granularity > 0 /\ m * Granularity \in Int
  BY GranularityAssumption
<1>6. /\ \A i \in Int : (p + i) * Granularity = p * Granularity + i * Granularity
      /\ \A i \in Int : (p + i) * Granularity \in Int /\ i * Granularity \in Int
      /\ 0 * Granularity = 0 /\ 1 * Granularity = Granularity
      /\ \A i \in Int : (i + 1) * Granularity = i * Granularity + Granularity
  BY <1>5
<1>7. m \in Nat
  <2>1. 0 * Granularity < m * Granularity + Granularity
    BY <1>3, <1>5, <1>6
  <2> QED BY <2>1, BucketsApart
<1>8. p + m <= q
  <2>1. (p + m) * Granularity < q * Granularity + Granularity
    BY <1>1, <1>2, <1>3, <1>4, <1>5, <1>6
  <2> DEFINE s == p + m
  <2>2. s \in Int
    OBVIOUS
  <2> HIDE DEF s
  <2>3. s <= q
    BY <2>1, <2>2, BucketsApart DEF s
  <2> QED BY <2>3 DEF s
<1>9. q <= p + (m + 1)
  <2>1. (p + (m + 1)) * Granularity = p * Granularity + (m * Granularity + Granularity)
    BY <1>6
  <2>2. q * Granularity < (p + (m + 1)) * Granularity + Granularity
    BY <1>1, <1>2, <1>3, <1>4, <1>5, <2>1
  <2> DEFINE s == p + (m + 1)
  <2>3. s \in Int
    OBVIOUS
  <2> HIDE DEF s
  <2>4. q <= s
    BY <2>2, <2>3, BucketsApart DEF s
  <2> QED BY <2>4 DEF s
<1>10. ASSUME NEW i \in 0 .. m
       PROVE  time_bucket(lo) + i * Granularity \in Between(lo, hi)
  <2> DEFINE s == p + i
  <2>1. s \in Int /\ p <= s /\ s <= q
    BY <1>8
  <2>2. time_bucket(lo) + i * Granularity = s * Granularity
    BY <1>1, <1>6
  <2> HIDE DEF s
  <2>3. (s * Granularity) % Granularity = 0 /\ s * Granularity \in Int
    BY <2>1, GranularityAssumption, Multiples
  <2>4. p * Granularity <= s * Granularity /\ s * Granularity <= q * Granularity
    <3>1. \A x, y \in Int : x <= y => x * Granularity <= y * Granularity
      BY <1>5
    <3> QED BY <2>1, <3>1
  <2> QED BY <1>1, <1>2, <1>4, <2>2, <2>3, <2>4 DEF Between
<1>11. ASSUME NEW b \in Between(lo, hi)
       PROVE  \E i \in 0 .. m + 1 : b = time_bucket(lo) + i * Granularity
  <2>1. b \in Int /\ b % Granularity = 0 /\ time_bucket(lo) <= b /\ b <= time_bucket(hi)
    BY <1>4 DEF Between
  <2>2. PICK j \in Int, z \in Int : z = b % Granularity /\ b = j * Granularity + z
    BY <2>1, GranularityAssumption, Division
  <2>3. b = j * Granularity
    BY <1>6, <2>1, <2>2
  <2>4. p * Granularity < j * Granularity + Granularity /\ j * Granularity < q * Granularity + Granularity
    BY <1>1, <1>2, <1>4, <1>5, <2>1, <2>3
  <2>5. p <= j /\ j <= q
    BY <2>4, BucketsApart
  <2>6. j - p \in 0 .. m + 1 /\ p + (j - p) = j
    BY <1>9, <2>5
  <2>7. b = p * Granularity + (j - p) * Granularity
    <3> DEFINE i == j - p
    <3>1. i \in Int /\ p + i = j
      BY <2>6
    <3> HIDE DEF i
    <3>2. (p + i) * Granularity = p * Granularity + i * Granularity
      BY <1>6, <3>1
    <3> QED BY <2>3, <3>1, <3>2 DEF i
  <2> QED BY <1>1, <2>6, <2>7
<1> QED BY <1>3, <1>7, <1>10, <1>11

StepsOf(S, lo, hi) == UNION {{a} \X (0 .. Steps(lo[a], hi[a])) : a \in S}
BetweenOf(S, lo, hi) == UNION {{a} \X Between(lo[a], hi[a]) : a \in S}

(* The same of all assets. *)
LEMMA SpansFit ==
  ASSUME NEW S, IsFiniteSet(S), NEW x \in Int, NEW y \in Int, NEW lo, NEW hi,
         \A a \in S : lo[a] \in x .. y /\ hi[a] \in x .. y /\ lo[a] <= hi[a]
  PROVE  /\ IsFiniteSet(StepsOf(S, lo, hi)) /\ IsFiniteSet(BetweenOf(S, lo, hi))
         /\ Cardinality(StepsOf(S, lo, hi)) <= Cardinality(BetweenOf(S, lo, hi))
         /\ Cardinality(BetweenOf(S, lo, hi)) <= Cardinality(StepsOf(S, lo, hi)) + Cardinality(S)
<1> DEFINE E == StepsOf(S, lo, hi)
           B == BetweenOf(S, lo, hi)
           at(a, i) == <<a, time_bucket(lo[a]) + i * Granularity>>
<1>1. \A a \in S : lo[a] \in Int /\ hi[a] \in Int /\ lo[a] <= hi[a]
  OBVIOUS
<1>2. /\ \A e \in E : \E a \in S, i \in Nat : e = <<a, i>> /\ i \in 0 .. Steps(lo[a], hi[a])
      /\ \A a \in S : \A i \in 0 .. Steps(lo[a], hi[a]) : <<a, i>> \in E
  BY DEF StepsOf
<1>3. /\ \A e \in B : \E a \in S, b \in Int : e = <<a, b>> /\ b \in Between(lo[a], hi[a])
      /\ \A a \in S : \A b \in Between(lo[a], hi[a]) : <<a, b>> \in B
  <2>1. \A a \in S : Between(lo[a], hi[a]) \subseteq Int
    BY <1>1, BucketHolds DEF Between
  <2> QED BY <2>1 DEF BetweenOf
<1>4. IsFiniteSet(B)
  <2> DEFINE I == time_bucket(x) .. time_bucket(y)
  <2>1. IsFiniteSet(I)
    BY BucketHolds, FS_Interval
  <2>2. \A a \in S : Between(lo[a], hi[a]) \subseteq I
    <3> TAKE a \in S
    <3>1. x <= lo[a] /\ hi[a] <= y /\ lo[a] \in Int /\ hi[a] \in Int
      OBVIOUS
    <3>2. /\ time_bucket(x) <= time_bucket(lo[a]) /\ time_bucket(hi[a]) <= time_bucket(y)
          /\ time_bucket(x) \in Int /\ time_bucket(lo[a]) \in Int /\ time_bucket(hi[a]) \in Int
          /\ time_bucket(y) \in Int
      BY <3>1, BucketsFollow, BucketHolds
    <3> QED BY <3>2 DEF Between
  <2>3. B \in SUBSET (S \X I)
    BY <2>2 DEF BetweenOf
  <2>4. IsFiniteSet(S \X I)
    BY <2>1, FS_Product
  <2> HIDE DEF B, I
  <2> QED BY <2>3, <2>4, FS_Subset
<1>5. \A i, j \in Int : \A b \in Int :
        b + i * Granularity = b + j * Granularity => i = j
  <2> SUFFICES ASSUME NEW i \in Int, NEW j \in Int, NEW b \in Int,
                      b + i * Granularity = b + j * Granularity
               PROVE  i = j
    OBVIOUS
  <2>1. i * Granularity \in Int /\ j * Granularity \in Int /\ Granularity > 0
    BY GranularityAssumption
  <2>2. i * Granularity = j * Granularity
    BY <2>1
  <2>3. i <= j /\ j <= i
    BY <2>1, <2>2, BucketsApart, GranularityAssumption
  <2> QED BY <2>3
<1> DEFINE f == [e \in E |-> at(e[1], e[2])]
<1>6. f \in Injection(E, B)
  <2>1. ASSUME NEW e \in E PROVE f[e] \in B
    <3>1. PICK a \in S, i \in Nat : e = <<a, i>> /\ i \in 0 .. Steps(lo[a], hi[a])
      BY <1>2
    <3>2. time_bucket(lo[a]) + i * Granularity \in Between(lo[a], hi[a])
      BY <1>1, <3>1, SpanFits
    <3>3. f[e] = <<a, time_bucket(lo[a]) + i * Granularity>>
      BY <3>1
    <3> QED BY <1>3, <3>2, <3>3
  <2>2. ASSUME NEW e \in E, NEW g \in E, f[e] = f[g] PROVE e = g
    <3>1. PICK a \in S, i \in Nat : e = <<a, i>>
      BY <1>2
    <3>2. PICK c \in S, j \in Nat : g = <<c, j>>
      BY <1>2
    <3>3. /\ f[e] = <<a, time_bucket(lo[a]) + i * Granularity>>
          /\ f[g] = <<c, time_bucket(lo[c]) + j * Granularity>>
      BY <3>1, <3>2
    <3> HIDE DEF f
    <3> DEFINE u == time_bucket(lo[a]) + i * Granularity
               v == time_bucket(lo[c]) + j * Granularity
    <3> HIDE DEF u, v
    <3>4. <<a, u>> = <<c, v>>
      BY <2>2, <3>3 DEF u, v
    <3>5. a = c /\ u = v
      BY <3>4
    <3>6. time_bucket(lo[a]) \in Int
      BY <1>1, BucketHolds
    <3>7. i = j
      BY <1>5, <3>5, <3>6 DEF u, v
    <3> QED BY <3>1, <3>2, <3>5, <3>7
  <2> QED BY <2>1, <2>2 DEF Injection, IsInjective
<1>7. IsFiniteSet(E) /\ Cardinality(E) <= Cardinality(B)
  <2> HIDE DEF E, B, f
  <2> QED BY <1>4, <1>6, FS_Injection
<1> DEFINE L == {<<a, -1>> : a \in S}
           g == [e \in E \cup L |-> IF e[2] = -1 THEN at(e[1], Steps(lo[e[1]], hi[e[1]]) + 1)
                                    ELSE at(e[1], e[2])]
<1>8. IsFiniteSet(L) /\ Cardinality(L) <= Cardinality(S)
  <2> DEFINE h == [a \in S |-> <<a, -1>>]
  <2>1. \A e \in L : \E a \in S : e = h[a]
    OBVIOUS
  <2> HIDE DEF L, h
  <2> QED BY <2>1, ImageBound
<1>9. IsFiniteSet(E \cup L) /\ Cardinality(E \cup L) <= Cardinality(E) + Cardinality(S)
  <2> HIDE DEF E, L
  <2>1. /\ IsFiniteSet(E \cup L)
        /\ Cardinality(E \cup L) = Cardinality(E) + Cardinality(L) - Cardinality(E \cap L)
    BY <1>7, <1>8, FS_Union
  <2>2. IsFiniteSet(E \cap L)
    BY <1>7, FS_Intersection
  <2>3. /\ Cardinality(E) \in Nat /\ Cardinality(L) \in Nat /\ Cardinality(E \cap L) \in Nat
        /\ Cardinality(S) \in Nat
    BY <1>7, <1>8, <2>2, FS_CardinalityType
  <2> QED BY <1>8, <2>1, <2>3
<1>10. \A v \in B : \E e \in E \cup L : v = g[e]
  <2> SUFFICES ASSUME NEW v \in B PROVE \E e \in E \cup L : v = g[e]
    OBVIOUS
  <2>1. PICK a \in S, b \in Int : v = <<a, b>> /\ b \in Between(lo[a], hi[a])
    BY <1>3
  <2>2. PICK i \in 0 .. Steps(lo[a], hi[a]) + 1 : b = time_bucket(lo[a]) + i * Granularity
    BY <1>1, <2>1, SpanFits
  <2>3. Steps(lo[a], hi[a]) \in Nat
    BY <1>1, SpanFits
  <2>4. v = at(a, i)
    BY <2>1, <2>2
  <2>5. CASE i = Steps(lo[a], hi[a]) + 1
    <3>1. <<a, -1>> \in E \cup L
      OBVIOUS
    <3>2. PICK e \in E \cup L : e = <<a, -1>>
      BY <3>1
    <3>3. e[1] = a /\ e[2] = -1
      BY <3>2
    <3>4. g[e] = at(a, Steps(lo[a], hi[a]) + 1)
      <4> HIDE DEF E, L
      <4> QED BY <3>3
    <3> HIDE DEF g
    <3> QED BY <2>4, <2>5, <3>4
  <2>6. CASE i # Steps(lo[a], hi[a]) + 1
    <3>1. i \in 0 .. Steps(lo[a], hi[a]) /\ i # -1
      BY <2>3, <2>6
    <3>2. <<a, i>> \in E \cup L
      BY <1>2, <3>1
    <3>3. PICK e \in E \cup L : e = <<a, i>>
      BY <3>2
    <3>4. e[1] = a /\ e[2] = i
      BY <3>3
    <3>5. g[e] = at(a, i)
      <4> HIDE DEF E, L
      <4> QED BY <3>1, <3>4
    <3> HIDE DEF g
    <3> QED BY <2>4, <3>5
  <2> QED BY <2>5, <2>6
<1>11. Cardinality(B) <= Cardinality(E \cup L)
  <2> HIDE DEF E, L, B, g
  <2> QED BY <1>9, <1>10, ImageBound
<1>12. /\ Cardinality(B) \in Nat /\ Cardinality(E) \in Nat /\ Cardinality(E \cup L) \in Nat
       /\ Cardinality(S) \in Nat
  <2> HIDE DEF E, L, B
  <2> QED BY <1>4, <1>7, <1>9, FS_CardinalityType
<1> HIDE DEF E, L, B
<1>13. Cardinality(B) <= Cardinality(E) + Cardinality(S)
  BY <1>9, <1>11, <1>12
<1> QED BY <1>4, <1>7, <1>13 DEF E, B

-----------------------------------------------------------------------------
(* The table *)

(* Rows have a time and keep their form. *)
TableInv ==
  /\ TimesAreInt /\ IsFiniteSet(DOMAIN table)
  /\ \A k \in DOMAIN table : table[k] = Row(table[k].value, table[k].flag, table[k].scenario)
  /\ committed \in [Writers -> Nat]
  /\ DOMAIN since = DOMAIN table

(* What adding and marking leave of the rows: what they are of and hold,   *)
(* and their marks.                                                        *)
RowsStay ==
  /\ DOMAIN table \subseteq DOMAIN table'
  /\ \A k \in DOMAIN table : /\ table'[k].scenario = table[k].scenario
                             /\ table'[k].value = table[k].value
                             /\ table[k].flag = "suspect" => table'[k].flag = "suspect"

(* Rows keep the time when they were committed, and new ones have theirs.  *)
SinceStays ==
  /\ DOMAIN since' = DOMAIN table'
  /\ \A k \in DOMAIN table' : since'[k] = IF k \in DOMAIN table THEN since[k] ELSE clock

LEMMA WriteKeeps ==
  ASSUME TableInv, Write
  PROVE  TableInv' /\ RowsStay /\ SinceStays /\ UNCHANGED <<checks, client, view>>
<1>1. PICK w \in Writers : WriterStep(w)
  BY DEF Write
<1>2. CASE StartScenario(w)
  BY <1>2 DEF StartScenario, TableInv, TimesAreInt, RowsStay, SinceStays
<1>3. CASE CommitSeries(w)
  <2> DEFINE n == committed[w] + 1
             samples == Batches[w].commits[n]
             new == Samples(samples, Batches[w].scenario)
  <2>1. /\ table' = OnConflict(table, new) /\ committed' = [committed EXCEPT ![w] = @ + 1]
        /\ UNCHANGED <<checks, client, view>> /\ committed[w] < Len(Batches[w].commits)
    BY <1>3 DEF CommitSeries
  <2>2. n \in DOMAIN Batches[w].commits
    <3>1. Batches[w].commits \in Seq(SUBSET (Assets \X Int \X Int))
      BY BatchesAssumption
    <3> QED BY <2>1, <3>1 DEF TableInv
  <2>3. samples \subseteq Assets \X Int \X Int /\ IsFiniteSet(samples)
    <3>1. Batches[w].commits \in Seq(SUBSET (Assets \X Int \X Int))
      BY BatchesAssumption
    <3> HIDE DEF n
    <3> QED BY <2>2, <3>1, BatchesAssumption
  <2> HIDE DEF samples
  <2>4. DOMAIN new = {<<s[1], s[2]>> : s \in samples}
    BY DEF Samples
  <2>5. DOMAIN new \subseteq Assets \X Int
    BY <2>3, <2>4
  <2>6. IsFiniteSet(DOMAIN new)
    <3> DEFINE f == [s \in samples |-> <<s[1], s[2]>>]
    <3>1. \A k \in DOMAIN new : \E s \in samples : k = f[s]
      BY <2>4
    <3> DEFINE D == DOMAIN new
    <3> HIDE DEF f, D
    <3>2. IsFiniteSet(D)
      BY <2>3, <3>1, ImageBound DEF D
    <3> QED BY <3>2 DEF D
  <2>7. \A k \in DOMAIN new : \E v : new[k] = Row(v, "ok", Batches[w].scenario)
    BY DEF Samples
  <2> HIDE DEF new
  <2>8. /\ DOMAIN table' = DOMAIN table \cup DOMAIN new
        /\ \A k \in DOMAIN table : table'[k] = table[k]
        /\ \A k \in DOMAIN new \ DOMAIN table : table'[k] = new[k]
    BY <2>1 DEF OnConflict
  <2>9. IsFiniteSet(DOMAIN table')
    <3> DEFINE D == DOMAIN table
               E == DOMAIN new
    <3>1. IsFiniteSet(D) /\ IsFiniteSet(E)
      BY <2>6 DEF TableInv
    <3> HIDE DEF D, E
    <3>2. IsFiniteSet(D \cup E)
      BY <3>1, FS_Union
    <3> QED BY <2>8, <3>2 DEF D, E
  <2>10. \A k \in DOMAIN table' :
           table'[k] = Row(table'[k].value, table'[k].flag, table'[k].scenario)
    BY <2>7, <2>8 DEF TableInv, Row
  <2>11. DOMAIN table' \subseteq Assets \X Int
    BY <2>5, <2>8 DEF TableInv, TimesAreInt
  <2>12. committed' \in [Writers -> Nat]
    BY <2>1 DEF TableInv
  <2>13. SinceStays
    BY <1>3 DEF CommitSeries, SinceStays
  <2> QED BY <2>1, <2>8, <2>9, <2>10, <2>11, <2>12, <2>13 DEF TableInv, TimesAreInt, RowsStay, SinceStays
<1> QED BY <1>1, <1>2, <1>3 DEF WriterStep

LEMMA CheckKeeps ==
  ASSUME TableInv, Check
  PROVE  TableInv' /\ RowsStay /\ DOMAIN table' = DOMAIN table /\ UNCHANGED <<since, client, view>>
<1>1. CASE mark_outliers \/ mark_drift \/ QaBuckets
  BY <1>1 DEF mark_outliers, mark_drift, QaBuckets, rows, TableInv, TimesAreInt, RowsStay
<1>2. CASE QaCommit
  <2>1. /\ table' = [k \in DOMAIN table |-> [table[k] EXCEPT !.flag = FlagOf(k)]]
        /\ committed' = committed /\ UNCHANGED <<since, client, view>>
    BY <1>2 DEF QaCommit
  <2>2. ASSUME NEW k \in DOMAIN table
        PROVE  table'[k] = Row(table[k].value, FlagOf(k), table[k].scenario)
    <3>1. table[k] = [value |-> table[k].value, flag |-> table[k].flag, scenario |-> table[k].scenario]
      BY DEF TableInv, Row
    <3>2. \A v, f, s, g : [[value |-> v, flag |-> f, scenario |-> s] EXCEPT !.flag = g]
                           = [value |-> v, flag |-> g, scenario |-> s]
      OBVIOUS
    <3>3. table'[k] = [table[k] EXCEPT !.flag = FlagOf(k)]
      BY <2>1
    <3> DEFINE r == table[k]
    <3>4. [r EXCEPT !.flag = FlagOf(k)] = [value |-> r.value, flag |-> FlagOf(k), scenario |-> r.scenario]
      <4> HIDE DEF r
      <4> QED BY <3>1, <3>2 DEF r
    <3> QED BY <3>3, <3>4 DEF Row
  <2>3. DOMAIN table' = DOMAIN table
    BY <2>1
  <2>4. \A k \in DOMAIN table : table[k].flag = "suspect" => FlagOf(k) = "suspect"
    BY DEF FlagOf
  <2>5. \A k \in DOMAIN table : /\ table'[k].value = table[k].value /\ table'[k].flag = FlagOf(k)
                                /\ table'[k].scenario = table[k].scenario
    <3>1. \A v, f, s : /\ Row(v, f, s).value = v /\ Row(v, f, s).flag = f
                       /\ Row(v, f, s).scenario = s
      BY DEF Row
    <3> QED BY <2>2, <3>1
  <2> QED BY <2>1, <2>2, <2>3, <2>4, <2>5 DEF TableInv, TimesAreInt, RowsStay
<1> QED BY <1>1, <1>2 DEF Check

(* The first and the last time of the rows of an asset. *)
LEMMA WindowEnds ==
  ASSUME TableInv, NEW a \in Seen
  PROVE  LET T == TimesOf(Window(a))
         IN  /\ T \subseteq QaStart .. QaEnd
             /\ Min(T) \in T /\ Max(T) \in T /\ \A t \in T : Min(T) <= t /\ t <= Max(T)
<1> DEFINE T == TimesOf(Window(a))
<1>1. T \subseteq QaStart .. QaEnd /\ QaStart \in Int /\ QaEnd \in Int
  BY WindowAssumption DEF TimesOf, Window, Within, BaseKeys, TableInv, TimesAreInt
<1>2. T # {}
  BY DEF Seen, TimesOf
<1> HIDE DEF T
<1>3. \E x \in T : \A y \in T : x <= y
  <2> DEFINE D == {t - QaStart : t \in T}
  <2>1. D \subseteq Nat /\ D # {}
    BY <1>1, <1>2
  <2> HIDE DEF D
  <2>2. PICK d \in D : \A e \in D : d <= e
    BY <2>1, SmallestOf
  <2>3. PICK x \in T : d = x - QaStart
    BY DEF D
  <2>4. \A y \in T : d <= y - QaStart
    BY <2>2 DEF D
  <2> QED BY <1>1, <2>3, <2>4
<1>4. \E x \in T : \A y \in T : x >= y
  <2> DEFINE D == {QaEnd - t : t \in T}
  <2>1. D \subseteq Nat /\ D # {}
    BY <1>1, <1>2
  <2> HIDE DEF D
  <2>2. PICK d \in D : \A e \in D : d <= e
    BY <2>1, SmallestOf
  <2>3. PICK x \in T : d = QaEnd - x
    BY DEF D
  <2>4. \A y \in T : d <= QaEnd - y
    BY <2>2 DEF D
  <2> QED BY <1>1, <2>3, <2>4
<1>5. Min(T) \in T /\ \A y \in T : Min(T) <= y
  BY <1>3 DEF Min
<1>6. Max(T) \in T /\ \A y \in T : Max(T) >= y
  BY <1>4 DEF Max
<1>7. \A y \in T : y <= Max(T)
  BY <1>1, <1>6
<1> QED BY <1>1, <1>5, <1>6, <1>7 DEF T

(* What the first query of the QA job counts. *)
LEMMA GapsCounted ==
  ASSUME TableInv
  PROVE  /\ Cardinality(Seen) \in Nat /\ Missing \in Nat /\ Monus(Expected, Present) \in Nat
         /\ Monus(Expected, Present) <= Missing
         /\ Missing <= Monus(Expected, Present) + Cardinality(Seen)
<1> DEFINE lo == [a \in Seen |-> Min(TimesOf(Window(a)))]
           hi == [a \in Seen |-> Max(TimesOf(Window(a)))]
           E == StepsOf(Seen, lo, hi)
           B == BetweenOf(Seen, lo, hi)
           P == Buckets(UNION {Window(a) : a \in Seen})
           M == UNION {{a} \X Empty(a) : a \in Seen}
<1>1. IsFiniteSet(Seen)
  <2> DEFINE f == [k \in DOMAIN table |-> k[1]]
  <2>1. \A a \in Seen : \E k \in DOMAIN table : a = f[k]
    <3> TAKE a \in Seen
    <3>1. PICK k : k \in Window(a)
      BY DEF Seen
    <3> QED BY <3>1 DEF Window, Within, BaseKeys
  <2>2. IsFiniteSet(DOMAIN table)
    BY DEF TableInv
  <2> DEFINE D == DOMAIN table
  <2> HIDE DEF f, D
  <2> QED BY <2>1, <2>2, ImageBound DEF D
<1>2. \A a \in Seen : lo[a] \in QaStart .. QaEnd /\ hi[a] \in QaStart .. QaEnd /\ lo[a] <= hi[a]
  BY WindowEnds
<1>3. QaStart \in Int /\ QaEnd \in Int
  BY WindowAssumption
<1>4. Expected = Cardinality(E)
  BY DEF Expected, StepsOf, Steps, Span
<1>5. Present = Cardinality(P) /\ Missing = Cardinality(M)
  BY DEF Present, Missing
<1>6. \A a \in Seen : \A k \in Window(a) : k[1] = a /\ k[2] \in TimesOf(Window(a))
  BY DEF Window, Within, TimesOf
<1>7. P \subseteq B
  <2> SUFFICES ASSUME NEW v \in P PROVE v \in B
    OBVIOUS
  <2>1. PICK a \in Seen : \E k \in Window(a) : v = <<k[1], time_bucket(k[2])>>
    BY DEF Buckets
  <2>2. PICK k \in Window(a) : v = <<k[1], time_bucket(k[2])>>
    BY <2>1
  <2>3. k[1] = a /\ k[2] \in Int /\ lo[a] <= k[2] /\ k[2] <= hi[a] /\ lo[a] \in Int /\ hi[a] \in Int
    <3>1. k[2] \in TimesOf(Window(a)) /\ k[1] = a
      BY <1>6
    <3> QED BY <1>3, <3>1, WindowEnds
  <2>4. time_bucket(k[2]) \in Between(lo[a], hi[a])
    <3> HIDE DEF lo, hi
    <3> QED BY <2>3, BucketHolds, BucketsFollow DEF Between
  <2> QED BY <2>2, <2>3, <2>4 DEF BetweenOf
<1>8. M = B \ P
  <2>1. \A a \in Seen : \A b : <<a, b>> \in P <=> <<a, b>> \in Buckets(Window(a))
    BY <1>6 DEF Buckets
  <2>2. \A a \in Seen : Empty(a) = {b \in Between(lo[a], hi[a]) : <<a, b>> \notin P}
    BY <2>1 DEF Empty, Between
  <2> HIDE DEF P, lo, hi
  <2> QED BY <2>2 DEF BetweenOf
<1>9. /\ IsFiniteSet(E) /\ IsFiniteSet(B) /\ Cardinality(E) <= Cardinality(B)
      /\ Cardinality(B) <= Cardinality(E) + Cardinality(Seen)
  <2> HIDE DEF lo, hi
  <2> QED BY <1>1, <1>2, <1>3, SpansFit
<1> HIDE DEF E, B, P, M, lo, hi
<1>10. IsFiniteSet(P) /\ Cardinality(M) = Cardinality(B) - Cardinality(P) /\ IsFiniteSet(M)
       /\ Cardinality(P) <= Cardinality(B)
  <2>1. B \cap P = P
    BY <1>7
  <2>2. IsFiniteSet(P) /\ Cardinality(P) <= Cardinality(B)
    BY <1>7, <1>9, FS_Subset
  <2>3. Cardinality(B \ P) = Cardinality(B) - Cardinality(B \cap P) /\ IsFiniteSet(B \ P)
    BY <1>9, FS_Difference
  <2> QED BY <1>8, <2>1, <2>2, <2>3
<1>11. /\ Cardinality(E) \in Nat /\ Cardinality(B) \in Nat /\ Cardinality(P) \in Nat
       /\ Cardinality(M) \in Nat /\ Cardinality(Seen) \in Nat
  BY <1>1, <1>9, <1>10, FS_CardinalityType
<1> QED BY <1>4, <1>5, <1>9, <1>10, <1>11 DEF Monus

-----------------------------------------------------------------------------
(* The QA job and its row *)

Counts(row, missing) ==
  /\ row.assets \in Nat /\ row.gaps \in Nat /\ missing \in Nat
  /\ row.gaps <= missing /\ missing <= row.gaps + row.assets

(* What is marked is in the table, and nothing is marked twice. *)
QaInv ==
  /\ qa = [pc |-> qa.pc, runs |-> qa.runs, outliers |-> qa.outliers, drifts |-> qa.drifts,
           row |-> qa.row, missing |-> qa.missing]
  /\ qa.outliers \subseteq DOMAIN table /\ qa.drifts \subseteq DOMAIN table
  /\ qa.outliers \cap qa.drifts = {}
  /\ qa.row # NoRow => Counts(qa.row, qa.missing)

Outside == {k \in DOMAIN table : /\ table[k].flag = "suspect"
                                 /\ (k \notin BaseKeys(table) \/ k[2] < QaStart \/ k[2] >= QaEnd)}

DailyInv ==
  daily.row # NoRow =>
    /\ Counts(daily.row, daily.missing)
    /\ daily.row.outliers \in Nat /\ daily.row.drifts \in Nat /\ daily.row.suspects \in Nat
    /\ daily.row.outliers + daily.row.drifts <= daily.row.suspects + Cardinality(Outside)

(* Marks outside of the window stay there. *)
LEMMA OutsideGrows ==
  ASSUME TableInv, TableInv', RowsStay
  PROVE  Cardinality(Outside) \in Nat /\ Cardinality(Outside') \in Nat
         /\ Cardinality(Outside) <= Cardinality(Outside')
<1>1. Outside \in SUBSET Outside'
  BY DEF RowsStay, Outside, BaseKeys
<1>2. IsFiniteSet(Outside')
  <2>1. IsFiniteSet(DOMAIN table') /\ Outside' \in SUBSET (DOMAIN table')
    BY DEF TableInv, Outside
  <2> QED BY <2>1, FS_Subset
<1>3. IsFiniteSet(Outside) /\ Cardinality(Outside) <= Cardinality(Outside')
  BY <1>1, <1>2, FS_Subset
<1> QED BY <1>2, <1>3, FS_CardinalityType

LEMMA DailyStays ==
  ASSUME TableInv, TableInv', RowsStay, DailyInv, UNCHANGED daily
  PROVE  DailyInv'
BY OutsideGrows DEF DailyInv, Counts

LEMMA QaStays ==
  ASSUME RowsStay, QaInv, UNCHANGED qa
  PROVE  QaInv'
BY DEF RowsStay, QaInv

LEMMA QaStep ==
  ASSUME TableInv, QaInv, DailyInv, Check
  PROVE  QaInv' /\ DailyInv'
<1>1. TableInv' /\ RowsStay
  BY CheckKeeps
<1> DEFINE Form(q) == q = [pc |-> q.pc, runs |-> q.runs, outliers |-> q.outliers,
                           drifts |-> q.drifts, row |-> q.row, missing |-> q.missing]
<1>2. Form(qa)
  BY DEF QaInv
<1>3. CASE mark_outliers
  <2> DEFINE marks == {k \in BaseKeys(table) : /\ k[2] >= OutlierStart /\ Outlying(k)
                                               /\ table[k].flag = "ok"}
  <2>1. /\ qa' = [qa EXCEPT !.pc = "drift", !.runs = @ + 1, !.drifts = {}, !.outliers = marks]
        /\ table' = table /\ daily' = daily
    BY <1>3 DEF mark_outliers, rows
  <2>2. marks \subseteq DOMAIN table
    BY DEF BaseKeys
  <2> HIDE DEF marks
  <2>3. qa' = [pc |-> "drift", runs |-> qa.runs + 1, outliers |-> marks, drifts |-> {},
               row |-> qa.row, missing |-> qa.missing]
    BY <1>2, <2>1
  <2>4. QaInv'
    BY <2>1, <2>2, <2>3 DEF QaInv
  <2> QED BY <1>1, <2>1, <2>4, DailyStays
<1>4. CASE mark_drift
  <2> DEFINE marks == {k \in DOMAIN table : /\ Drifts(k[1]) /\ FlagOf(k) = "ok"
                                            /\ DriftMid <= k[2] /\ k[2] < DriftEnd}
  <2>1. /\ qa' = [qa EXCEPT !.pc = "gaps", !.drifts = marks]
        /\ table' = table /\ daily' = daily
    BY <1>4 DEF mark_drift, rows
  <2>2. marks \subseteq DOMAIN table /\ qa.outliers \cap marks = {}
    BY DEF FlagOf, Marked
  <2> HIDE DEF marks
  <2>3. qa' = [pc |-> "gaps", runs |-> qa.runs, outliers |-> qa.outliers, drifts |-> marks,
               row |-> qa.row, missing |-> qa.missing]
    BY <1>2, <2>1
  <2>4. QaInv'
    BY <2>1, <2>2, <2>3 DEF QaInv
  <2> QED BY <1>1, <2>1, <2>4, DailyStays
<1>5. CASE QaBuckets
  <2> DEFINE row == IF Seen = {} THEN NoRow
                    ELSE [assets |-> Cardinality(Seen), expected |-> Expected,
                          present |-> Present, gaps |-> Monus(Expected, Present)]
  <2>1. /\ qa' = [qa EXCEPT !.pc = "suspects", !.missing = Missing, !.row = row]
        /\ table' = table /\ daily' = daily
    BY <1>5 DEF QaBuckets, rows
  <2>2. row # NoRow => Counts(row, Missing)
    BY GapsCounted DEF Counts
  <2> HIDE DEF row
  <2>3. qa' = [pc |-> "suspects", runs |-> qa.runs, outliers |-> qa.outliers, drifts |-> qa.drifts,
               row |-> row, missing |-> Missing]
    BY <1>2, <2>1
  <2>4. QaInv'
    BY <2>1, <2>2, <2>3 DEF QaInv
  <2> QED BY <1>1, <2>1, <2>4, DailyStays
<1>6. CASE QaCommit
  <2> DEFINE suspects == {k \in UNION {Window(a) : a \in Assets} : FlagOf(k) = "suspect"}
             n == Cardinality(suspects)
             o == Cardinality(qa.outliers)
             d == Cardinality(qa.drifts)
             row == IF qa.row = NoRow THEN NoRow
                    ELSE [assets |-> qa.row.assets, expected |-> qa.row.expected,
                          present |-> qa.row.present, gaps |-> qa.row.gaps,
                          suspects |-> n, outliers |-> o, drifts |-> d]
  <2>1. /\ qa' = [qa EXCEPT !.pc = "idle", !.outliers = {}, !.drifts = {}, !.row = NoRow, !.missing = 0]
        /\ table' = [k \in DOMAIN table |-> [table[k] EXCEPT !.flag = FlagOf(k)]]
        /\ daily' = [missing |-> qa.missing, row |-> row]
    BY <1>6 DEF QaCommit
  <2>2. QaInv'
    <3>1. qa' = [pc |-> "idle", runs |-> qa.runs, outliers |-> {}, drifts |-> {},
                 row |-> NoRow, missing |-> 0]
      BY <1>2, <2>1
    <3> QED BY <3>1 DEF QaInv
  <2>3. DOMAIN table' = DOMAIN table /\ \A k \in DOMAIN table : table'[k].scenario = table[k].scenario
    <3>1. DOMAIN table' = DOMAIN table
      BY <2>1
    <3> QED BY <1>1, <3>1 DEF RowsStay
  <2>4. \A k \in DOMAIN table : table'[k].flag = FlagOf(k)
    <3> TAKE k \in DOMAIN table
    <3>1. table'[k] = [table[k] EXCEPT !.flag = FlagOf(k)]
      BY <2>1
    <3>2. table[k] = [value |-> table[k].value, flag |-> table[k].flag, scenario |-> table[k].scenario]
      BY DEF TableInv, Row
    <3>3. \A v, f, s, g : [[value |-> v, flag |-> f, scenario |-> s] EXCEPT !.flag = g].flag = g
      OBVIOUS
    <3> DEFINE r == table[k]
    <3>4. [r EXCEPT !.flag = FlagOf(k)].flag = FlagOf(k)
      <4> HIDE DEF r
      <4> QED BY <3>2, <3>3 DEF r
    <3> QED BY <3>1, <3>4
  <2>5. qa.outliers \cup qa.drifts \in SUBSET (suspects \cup Outside')
    <3> SUFFICES ASSUME NEW k \in qa.outliers \cup qa.drifts PROVE k \in suspects \cup Outside'
      OBVIOUS
    <3>1. k \in DOMAIN table /\ FlagOf(k) = "suspect"
      BY DEF QaInv, FlagOf, Marked
    <3>2. k[1] \in Assets /\ k[2] \in Int /\ QaStart \in Int /\ QaEnd \in Int
      BY <3>1, WindowAssumption DEF TableInv, TimesAreInt
    <3>3. CASE k \in BaseKeys(table) /\ QaStart <= k[2] /\ k[2] < QaEnd
      <4>1. k \in Window(k[1])
        BY <3>3 DEF Window, Within
      <4> QED BY <3>1, <3>2, <4>1
    <3>4. CASE k \notin BaseKeys(table) \/ k[2] < QaStart \/ k[2] >= QaEnd
      <4>1. k \notin BaseKeys(table') \/ k[2] < QaStart \/ k[2] >= QaEnd
        BY <2>3, <3>1, <3>4 DEF BaseKeys
      <4>2. k \in DOMAIN table' /\ table'[k].flag = "suspect"
        BY <2>3, <2>4, <3>1
      <4> QED BY <4>1, <4>2 DEF Outside
    <3> QED BY <3>2, <3>3, <3>4
  <2>6. IsFiniteSet(suspects) /\ IsFiniteSet(qa.outliers) /\ IsFiniteSet(qa.drifts)
    <3> DEFINE D == DOMAIN table
    <3>1. suspects \in SUBSET D /\ qa.outliers \in SUBSET D /\ qa.drifts \in SUBSET D
      BY DEF Window, Within, BaseKeys, QaInv
    <3>2. IsFiniteSet(D)
      BY DEF TableInv
    <3> HIDE DEF D, suspects
    <3> QED BY <3>1, <3>2, FS_Subset
  <2> DEFINE out == Outside'
  <2>7. IsFiniteSet(out)
    <3>1. IsFiniteSet(DOMAIN table') /\ Outside' \in SUBSET (DOMAIN table')
      BY <1>1 DEF TableInv, Outside
    <3> QED BY <3>1, FS_Subset
  <2>8. o + d <= n + Cardinality(out) /\ o \in Nat /\ d \in Nat /\ n \in Nat
    <3> DEFINE A == qa.outliers
               B == qa.drifts
    <3>1. A \cap B = {} /\ IsFiniteSet(A) /\ IsFiniteSet(B) /\ A \cup B \in SUBSET (suspects \cup out)
      BY <2>5, <2>6 DEF QaInv
    <3> HIDE DEF A, B, suspects, out
    <3>2. IsFiniteSet(A \cup B) /\ Cardinality(A \cup B) = Cardinality(A) + Cardinality(B) - Cardinality(A \cap B)
      BY <3>1, FS_Union
    <3>3. Cardinality(A \cap B) = 0
      BY <3>1, FS_EmptySet
    <3>4. /\ IsFiniteSet(suspects \cup out)
          /\ Cardinality(suspects \cup out) = Cardinality(suspects) + Cardinality(out) - Cardinality(suspects \cap out)
      BY <2>6, <2>7, FS_Union
    <3>5. IsFiniteSet(suspects \cap out)
      BY <2>6, FS_Intersection
    <3>6. Cardinality(A \cup B) <= Cardinality(suspects \cup out)
      BY <3>1, <3>4, FS_Subset
    <3>7. /\ Cardinality(A) \in Nat /\ Cardinality(B) \in Nat /\ Cardinality(suspects) \in Nat
          /\ Cardinality(out) \in Nat /\ Cardinality(suspects \cap out) \in Nat
      BY <2>6, <2>7, <3>1, <3>5, FS_CardinalityType
    <3>8. Cardinality(A) + Cardinality(B) <= Cardinality(suspects) + Cardinality(out)
      BY <3>2, <3>3, <3>4, <3>6, <3>7
    <3> QED BY <3>7, <3>8 DEF A, B
  <2> HIDE DEF suspects, n, o, d
  <2>9. qa.row # NoRow =>
          /\ row.assets = qa.row.assets /\ row.gaps = qa.row.gaps
          /\ row.suspects = n /\ row.outliers = o /\ row.drifts = d
    OBVIOUS
  <2>10. row # NoRow => qa.row # NoRow
    OBVIOUS
  <2>11. daily'.row = row /\ daily'.missing = qa.missing
    BY <2>1
  <2>12. qa.row # NoRow => Counts(qa.row, qa.missing)
    BY DEF QaInv
  <2> HIDE DEF row
  <2>13. DailyInv'
    BY <2>8, <2>9, <2>10, <2>11, <2>12 DEF DailyInv, Counts
  <2> QED BY <2>2, <2>13
<1> QED BY <1>3, <1>4, <1>5, <1>6 DEF Check

LEMMA DailyIsReal == DailyInv => GapsAreReal
BY DEF DailyInv, GapsAreReal, Counts, Outside

-----------------------------------------------------------------------------
(* Pages *)

Sent == UNION {pages[i].rows : i \in DOMAIN pages}
OneScenario == \A i \in DOMAIN pages : pages[i].scenario = pages[1].scenario
Asked == Matching(page.query, pages[1].scenario)

(* Every page is of the scenario that was asked for, or of the latest.     *)
PagesForm ==
  /\ page = [pc |-> page.pc, query |-> page.query, resolved |-> page.resolved,
             offset |-> page.offset, before |-> page.before]
  /\ page.offset \in Nat
  /\ \E S : pages \in Seq(S)
  /\ page.query.scenario # "latest" =>
       /\ \A i \in DOMAIN pages : pages[i].scenario = page.query.scenario
       /\ page.pc = "read" => page.resolved = page.query.scenario

(* What was there at first was sent, or is still to come.                  *)
PagesInv ==
  /\ \A i \in DOMAIN pages : \A k \in pages[i].rows :
       k \in DOMAIN table /\ table[k].scenario = pages[i].scenario
  /\ pages = <<>> => page.before = {} /\ page.offset = 0 /\ page.pc # "done"
  /\ pages # <<>> => page.before \subseteq Asked
  /\ pages # <<>> /\ OneScenario =>
       \A k \in page.before : \/ k \in Sent
                              \/ page.pc # "done" /\ Rank(k, Asked) >= page.offset

LEMMA RankGrows ==
  ASSUME NEW S, NEW T, S \subseteq T, IsFiniteSet(T), NEW k
  PROVE  Rank(k, S) \in Nat /\ Rank(k, T) \in Nat /\ Rank(k, S) <= Rank(k, T)
<1> DEFINE A == {j \in S : j[2] < k[2]}
           B == {j \in T : j[2] < k[2]}
<1>1. A \in SUBSET B /\ B \in SUBSET T
  OBVIOUS
<1> HIDE DEF A, B
<1>2. IsFiniteSet(B)
  BY <1>1, FS_Subset
<1>3. IsFiniteSet(A) /\ Cardinality(A) <= Cardinality(B)
  BY <1>1, <1>2, FS_Subset
<1>4. Cardinality(A) \in Nat /\ Cardinality(B) \in Nat
  BY <1>2, <1>3, FS_CardinalityType
<1> QED BY <1>3, <1>4 DEF Rank, A, B

LEMMA MatchingIsFinite ==
  ASSUME TableInv, NEW q, NEW s
  PROVE  Matching(q, s) \subseteq DOMAIN table /\ IsFiniteSet(Matching(q, s))
<1> DEFINE D == DOMAIN table
           M == Matching(q, s)
<1>1. M \in SUBSET D /\ IsFiniteSet(D)
  BY DEF Matching, RowsOf, TableInv
<1> HIDE DEF D, M
<1>2. IsFiniteSet(M)
  BY <1>1, FS_Subset
<1> QED BY <1>1, <1>2 DEF D, M

LEMMA AskedIsFinite == TableInv => IsFiniteSet(Asked)
BY MatchingIsFinite DEF Asked

LEMMA PagesStay ==
  ASSUME TableInv, TableInv', RowsStay, PagesForm, PagesInv, UNCHANGED client
  PROVE  PagesInv'
<1>1. page' = page /\ pages' = pages
  BY DEF client
<1>2. Sent' = Sent /\ OneScenario' = OneScenario
  BY <1>1 DEF Sent, OneScenario
<1>3. Asked \subseteq Asked'
  BY <1>1 DEF RowsStay, Asked, Matching, RowsOf
<1>4. IsFiniteSet(Asked')
  <2>1. (TableInv => IsFiniteSet(Asked))'
    BY AskedIsFinite, PTL
  <2> QED BY <2>1
<1>5. \A k : /\ Rank(k, Asked) \in Nat /\ Rank(k, Asked') \in Nat
             /\ Rank(k, Asked) <= Rank(k, Asked')
  <2> DEFINE S == Asked
             T == Asked'
  <2>1. S \subseteq T /\ IsFiniteSet(T)
    BY <1>3, <1>4
  <2> HIDE DEF S, T
  <2>2. \A k : Rank(k, S) \in Nat /\ Rank(k, T) \in Nat /\ Rank(k, S) <= Rank(k, T)
    BY <2>1, RankGrows
  <2> QED BY <2>2 DEF S, T
<1>6. \A i \in DOMAIN pages : \A k \in pages[i].rows :
        k \in DOMAIN table' /\ table'[k].scenario = pages[i].scenario
  BY DEF PagesInv, RowsStay
<1>7. pages # <<>> /\ OneScenario =>
        \A k \in page.before : \/ k \in Sent
                               \/ page.pc # "done" /\ Rank(k, Asked') >= page.offset
  BY <1>5 DEF PagesInv, PagesForm
<1>8. pages # <<>> => page.before \subseteq Asked'
  BY <1>3 DEF PagesInv
<1> QED BY <1>1, <1>2, <1>6, <1>7, <1>8 DEF PagesInv

(* One more page. *)
LEMMA OnePageMore ==
  ASSUME NEW S, pages \in Seq(S), NEW p, pages' = Append(pages, p)
  PROVE  LET n == Len(pages) IN
         /\ n \in Nat /\ pages' \in Seq(S \cup {p}) /\ DOMAIN pages = 1 .. n
         /\ DOMAIN pages' = 1 .. n + 1 /\ pages'[n + 1] = p
         /\ \A i \in 1 .. n : pages'[i] = pages[i]
<1> DEFINE n == Len(pages)
<1>1. pages \in Seq(S \cup {p}) /\ p \in S \cup {p}
  OBVIOUS
<1>2. pages' \in Seq(S \cup {p}) /\ Len(pages') = n + 1
  BY <1>1
<1>3. \A i \in 1 .. n + 1 : Append(pages, p)[i] = IF i <= n THEN pages[i] ELSE p
  BY <1>1
<1>4. n \in Nat
  OBVIOUS
<1> QED BY <1>2, <1>3, <1>4

LEMMA FormStays == ASSUME PagesForm, UNCHANGED client PROVE PagesForm'
BY DEF PagesForm, client

LEMMA FormStep ==
  ASSUME PagesForm, Page
  PROVE  PagesForm'
<1> DEFINE Form(p) == p = [pc |-> p.pc, query |-> p.query, resolved |-> p.resolved,
                           offset |-> p.offset, before |-> p.before]
<1>1. Form(page)
  BY DEF PagesForm
<1>2. CASE Resolve
  <2> DEFINE asked == page.query.scenario
             resolved == IF asked = NoScenario THEN NoScenario ELSE resolve_scenario_id(asked)
             pc1 == IF asked # NoScenario /\ resolved = NoScenario THEN "refused" ELSE "read"
  <2>1. page' = [page EXCEPT !.resolved = resolved, !.pc = pc1] /\ UNCHANGED pages
    BY <1>2 DEF Resolve
  <2>2. asked # "latest" /\ pc1 = "read" => resolved = asked
    BY DEF resolve_scenario_id
  <2> HIDE DEF resolved, pc1
  <2>3. page' = [pc |-> pc1, query |-> page.query, resolved |-> resolved,
                 offset |-> page.offset, before |-> page.before]
    BY <1>1, <2>1
  <2> QED BY <2>1, <2>2, <2>3 DEF PagesForm
<1>3. CASE ReadPage
  <2> DEFINE found == Matching(page.query, page.resolved)
             more == \E k \in found : Rank(k, found) >= page.offset + Limit
             p == [scenario |-> page.resolved, more |-> more, rows |-> Slice(found, page.offset, Limit)]
             offset1 == IF more THEN NextOffset(page.offset) ELSE page.offset
             before1 == IF pages = <<>> THEN found ELSE page.before
             pc1 == IF more THEN "resolve" ELSE "done"
             n == Len(pages)
  <2>1. /\ pages' = Append(pages, p) /\ page.pc = "read"
        /\ page' = [page EXCEPT !.pc = pc1, !.offset = offset1, !.before = before1]
    BY <1>3 DEF ReadPage
  <2>2. offset1 \in Nat
    BY LimitAssumption DEF PagesForm, NextOffset
  <2>3. pc1 # "read" /\ p.scenario = page.resolved
    OBVIOUS
  <2> HIDE DEF found, more, p, offset1, before1, pc1
  <2>4. PICK S : pages \in Seq(S)
    BY DEF PagesForm
  <2>5. /\ n \in Nat /\ pages' \in Seq(S \cup {p}) /\ DOMAIN pages = 1 .. n
        /\ DOMAIN pages' = 1 .. n + 1 /\ pages'[n + 1] = p
        /\ \A i \in 1 .. n : pages'[i] = pages[i]
    BY <2>1, <2>4, OnePageMore
  <2>6. page' = [pc |-> pc1, query |-> page.query, resolved |-> page.resolved,
                 offset |-> offset1, before |-> before1]
    BY <1>1, <2>1
  <2>7. page.query.scenario # "latest" =>
          \A i \in DOMAIN pages' : pages'[i].scenario = page.query.scenario
    <3> SUFFICES ASSUME page.query.scenario # "latest", NEW i \in DOMAIN pages'
                 PROVE  pages'[i].scenario = page.query.scenario
      OBVIOUS
    <3>1. page.resolved = page.query.scenario
      BY <2>1 DEF PagesForm
    <3>2. CASE i \in 1 .. n
      BY <2>5, <3>2 DEF PagesForm
    <3>3. CASE i = n + 1
      BY <2>3, <2>5, <3>1, <3>3
    <3> QED BY <2>5, <3>2, <3>3
  <2> QED BY <2>2, <2>3, <2>5, <2>6, <2>7 DEF PagesForm
<1> QED BY <1>2, <1>3 DEF Page

LEMMA PagesStep ==
  ASSUME TableInv, PagesForm, PagesInv, Page
  PROVE  PagesInv'
<1> DEFINE Form(p) == p = [pc |-> p.pc, query |-> p.query, resolved |-> p.resolved,
                           offset |-> p.offset, before |-> p.before]
<1>1. Form(page)
  BY DEF PagesForm
<1>2. CASE Resolve
  <2> DEFINE asked == page.query.scenario
             resolved == IF asked = NoScenario THEN NoScenario ELSE resolve_scenario_id(asked)
             pc1 == IF asked # NoScenario /\ resolved = NoScenario THEN "refused" ELSE "read"
  <2>1. /\ page' = [page EXCEPT !.resolved = resolved, !.pc = pc1]
        /\ UNCHANGED <<table, pages>>
    BY <1>2 DEF Resolve, rows
  <2>2. pc1 # "done"
    OBVIOUS
  <2> HIDE DEF resolved, pc1
  <2>3. page' = [pc |-> pc1, query |-> page.query, resolved |-> resolved,
                 offset |-> page.offset, before |-> page.before]
    BY <1>1, <2>1
  <2>4. Asked' = Asked /\ Sent' = Sent /\ OneScenario' = OneScenario
    BY <2>1, <2>3 DEF Asked, Sent, OneScenario, Matching, RowsOf
  <2> QED BY <2>1, <2>2, <2>3, <2>4 DEF PagesInv
<1>3. CASE ReadPage
  <2> DEFINE found == Matching(page.query, page.resolved)
             more == \E k \in found : Rank(k, found) >= page.offset + Limit
             p == [scenario |-> page.resolved, more |-> more, rows |-> Slice(found, page.offset, Limit)]
             offset1 == IF more THEN NextOffset(page.offset) ELSE page.offset
             before1 == IF pages = <<>> THEN found ELSE page.before
             pc1 == IF more THEN "resolve" ELSE "done"
             n == Len(pages)
  <2>1. /\ pages' = Append(pages, p) /\ table' = table /\ page.pc = "read"
        /\ page' = [page EXCEPT !.pc = pc1, !.offset = offset1, !.before = before1]
    BY <1>3 DEF ReadPage, rows
  <2>2. page.offset \in Nat /\ Limit \in Nat /\ Limit > 0
    BY LimitAssumption DEF PagesForm
  <2>3. found \subseteq DOMAIN table /\ \A k \in found : table[k].scenario = page.resolved
    BY DEF Matching, RowsOf
  <2>4. \A k \in found : Rank(k, found) \in Nat
    <3>1. IsFiniteSet(found) /\ found \subseteq found
      BY MatchingIsFinite
    <3> HIDE DEF found
    <3> QED BY <3>1, RankGrows
  <2>5. \A k \in found : \/ Rank(k, found) < page.offset
                         \/ k \in p.rows
                         \/ more /\ Rank(k, found) >= page.offset + Limit
    <3> HIDE DEF found
    <3>1. \A k \in found : Rank(k, found) \in page.offset .. page.offset + Limit - 1 => k \in p.rows
      BY DEF Slice
    <3> QED BY <2>2, <2>4, <3>1
  <2>6. p.rows \subseteq found /\ p.scenario = page.resolved
    <3> HIDE DEF found
    <3> QED BY DEF Slice
  <2>7. offset1 \in Nat /\ (more => offset1 = page.offset + Limit)
    BY <2>2 DEF NextOffset
  <2>8. pc1 = "done" <=> ~more
    OBVIOUS
  <2>9. \A k \in found : \/ Rank(k, found) < page.offset
                         \/ k \in p.rows
                         \/ pc1 # "done" /\ Rank(k, found) >= offset1
    <3> SUFFICES ASSUME NEW k \in found, ~(Rank(k, found) < page.offset), k \notin p.rows
                 PROVE  pc1 # "done" /\ Rank(k, found) >= offset1
      OBVIOUS
    <3>1. more /\ Rank(k, found) >= page.offset + Limit
      <4> HIDE DEF found, more, p
      <4> QED BY <2>5
    <3>2. offset1 = page.offset + Limit /\ pc1 # "done"
      BY <2>7, <3>1
    <3> QED BY <3>1, <3>2
  <2> HIDE DEF found, more, p, offset1, before1, pc1
  <2>10. PICK S : pages \in Seq(S)
    BY DEF PagesForm
  <2>11. /\ n \in Nat /\ pages' \in Seq(S \cup {p}) /\ DOMAIN pages = 1 .. n
         /\ DOMAIN pages' = 1 .. n + 1 /\ pages'[n + 1] = p
         /\ \A i \in 1 .. n : pages'[i] = pages[i]
    BY <2>1, <2>10, OnePageMore
  <2>12. page' = [pc |-> pc1, query |-> page.query, resolved |-> page.resolved,
                  offset |-> offset1, before |-> before1]
    BY <1>1, <2>1
  <2>13. pages' # <<>> /\ 1 \in DOMAIN pages' /\ n + 1 \in DOMAIN pages'
    BY <2>11
  <2>14. ASSUME NEW i \in DOMAIN pages', NEW k \in pages'[i].rows
         PROVE  k \in DOMAIN table /\ table[k].scenario = pages'[i].scenario
    <3>1. CASE i \in 1 .. n
      BY <2>11, <2>14, <3>1 DEF PagesInv
    <3>2. CASE i = n + 1
      BY <2>3, <2>6, <2>11, <2>14, <3>2
    <3> QED BY <2>11, <3>1, <3>2
  <2>15. CASE pages = <<>>
    <3>1. n = 0 /\ pages'[1] = p /\ before1 = found /\ page.offset = 0
      <4>1. n = 0
        BY <2>15
      <4>2. page.offset = 0
        BY <2>15 DEF PagesInv
      <4>3. pages'[1] = p
        BY <2>11, <4>1
      <4>4. before1 = found
        BY <2>15 DEF before1
      <4> QED BY <4>1, <4>2, <4>3, <4>4
    <3>2. Asked' = found
      <4>1. pages'[1].scenario = page.resolved /\ page'.query = page.query
        BY <2>6, <2>12, <3>1
      <4>2. Asked' = Matching(page.query, page.resolved)
        BY <2>1, <4>1 DEF Asked, Matching, RowsOf
      <4> QED BY <4>2 DEF found
    <3>3. p.rows \subseteq Sent'
      BY <2>13, <3>1 DEF Sent
    <3>4. \A k \in found : k \in Sent' \/ (pc1 # "done" /\ Rank(k, found) >= offset1)
      BY <2>4, <2>9, <3>1, <3>3
    <3>5. page'.before \subseteq Asked' /\ \A k \in page'.before :
            k \in Sent' \/ (page'.pc # "done" /\ Rank(k, Asked') >= page'.offset)
      BY <2>12, <3>1, <3>2, <3>4
    <3> QED BY <2>1, <2>7, <2>12, <2>13, <2>14, <3>5 DEF PagesInv
  <2>16. CASE pages # <<>>
    <3>1. n > 0 /\ 1 \in 1 .. n /\ pages'[1] = pages[1] /\ before1 = page.before
      <4>1. n # 0
        BY <2>10, <2>16
      <4> QED BY <2>11, <2>16, <4>1 DEF before1
    <3>2. Asked' = Asked
      BY <2>1, <2>12, <3>1 DEF Asked, Matching, RowsOf
    <3>3. Sent \cup p.rows \subseteq Sent'
      BY <2>11, <2>13 DEF Sent
    <3>4. page.before \subseteq Asked
      BY <2>16 DEF PagesInv
    <3>5. ASSUME OneScenario', NEW k \in page.before
          PROVE  k \in Sent' \/ (pc1 # "done" /\ Rank(k, Asked) >= offset1)
      <4>1. OneScenario
        BY <2>11, <3>1, <3>5 DEF OneScenario
      <4>2. page.resolved = pages[1].scenario
        BY <2>6, <2>11, <2>13, <3>1, <3>5 DEF OneScenario
      <4>3. Asked = found
        BY <4>2 DEF Asked, found
      <4>4. k \in Sent \/ Rank(k, Asked) >= page.offset
        BY <2>16, <3>5, <4>1 DEF PagesInv
      <4>5. k \in found
        BY <3>4, <3>5, <4>3
      <4> QED BY <2>2, <2>4, <2>9, <3>3, <4>3, <4>4, <4>5
    <3>6. page'.before \subseteq Asked' /\ (OneScenario' => \A k \in page'.before :
            k \in Sent' \/ (page'.pc # "done" /\ Rank(k, Asked') >= page'.offset))
      BY <2>12, <3>1, <3>2, <3>4, <3>5
    <3> QED BY <2>1, <2>7, <2>12, <2>13, <2>14, <3>6 DEF PagesInv
  <2> QED BY <2>15, <2>16
<1> QED BY <1>2, <1>3 DEF Page

LEMMA PagesAreWhole == PagesForm /\ (dropped = {} => PagesInv) => PagesSkipNothing
BY DEF PagesForm, PagesInv, PagesSkipNothing, Sent, OneScenario

-----------------------------------------------------------------------------
(* The copy of the rows *)

(* A refresh came at rollup.at, after the row was committed and its bucket *)
(* had ended, and the bucket was not too old for the row at the first one. *)
Ripe(k) == since[k] < rollup.at /\ time_bucket(k[2]) + Granularity + EndOffset <= rollup.at
Timely(k) == since[k] + Period <= time_bucket(k[2]) + StartOffset

(* The refresh is never late; what it put into the copy is of the table,   *)
(* and every timely row is in it.                                          *)
CopyForm ==
  /\ \A k \in DOMAIN since : since[k] \in Int
  /\ clock \in Int /\ rollup.at \in Int
  /\ DOMAIN rollup.cells \subseteq Assets \X Int

CopyHolds ==
  /\ rollup.at <= clock /\ clock <= rollup.at + Period
  /\ \A c \in DOMAIN rollup.cells : rollup.cells[c] \subseteq Readings(c[1], c[2])
  /\ \A k \in DOMAIN table : Timely(k) /\ Ripe(k) =>
       LET c == <<k[1], time_bucket(k[2])>>
       IN  c \in DOMAIN rollup.cells /\ Reading(k) \in rollup.cells[c]

CopyInv == CopyForm /\ (licensed => CopyHolds)

(* What was read stays read, until it is dropped. *)
LEMMA ReadingsStay ==
  ASSUME RowsStay, dropped' = dropped
  PROVE  /\ \A k \in DOMAIN table : Reading(k)' = Reading(k)
         /\ \A a, b : Readings(a, b) \subseteq Readings(a, b)'
<1>1. \A k \in DOMAIN table : Reading(k)' = Reading(k)
  BY DEF RowsStay, Reading
<1>2. \A a : RowsOf(table, a) \subseteq RowsOf(table', a) /\ RowsOf(table, a) \subseteq DOMAIN table
  BY DEF RowsStay, RowsOf
<1>3. ASSUME NEW a, NEW b PROVE Readings(a, b) \subseteq Readings(a, b)'
  <2>1. ASSUME NEW k \in RowsOf(table, a), time_bucket(k[2]) = b
        PROVE  Reading(k) \in Readings(a, b)'
    <3>1. k \in RowsOf(table', a) /\ Reading(k)' = Reading(k)
      BY <1>1, <1>2
    <3>2. Reading(k)' \in Readings(a, b)'
      BY <2>1, <3>1 DEF Readings
    <3> QED BY <3>1, <3>2
  <2> QED BY <2>1 DEF Readings
<1> QED BY <1>1, <1>3

LEMMA CopyStays ==
  ASSUME TableInv, TableInv', RowsStay, SinceStays, CopyInv, UNCHANGED view
  PROVE  CopyInv'
<1>1. UNCHANGED <<licensed, clock, rollup, dropped>>
  BY DEF view
<1>2. CopyForm'
  BY <1>1 DEF CopyForm, CopyInv, SinceStays, TableInv
<1>3. ASSUME licensed PROVE CopyHolds'
  <2>1. CopyHolds /\ clock \in Int /\ rollup.at \in Int
    BY <1>3 DEF CopyInv, CopyForm
  <2>2. ASSUME NEW c \in DOMAIN rollup.cells PROVE rollup.cells[c] \subseteq Readings(c[1], c[2])'
    BY <1>1, <2>1, ReadingsStay DEF CopyHolds
  <2>3. ASSUME NEW k \in DOMAIN table', Timely(k)', Ripe(k)'
        PROVE  LET c == <<k[1], time_bucket(k[2])>>
               IN  c \in DOMAIN rollup.cells /\ Reading(k)' \in rollup.cells[c]
    <3>1. k \in DOMAIN table
      BY <1>1, <2>1, <2>3 DEF SinceStays, Ripe, CopyHolds
    <3>2. since'[k] = since[k]
      BY <3>1, <2>3 DEF SinceStays
    <3>3. Timely(k) /\ Ripe(k)
      BY <1>1, <2>3, <3>2 DEF Timely, Ripe
    <3>4. Reading(k)' = Reading(k)
      BY <1>1, <3>1, ReadingsStay
    <3> QED BY <2>1, <3>1, <3>3, <3>4 DEF CopyHolds
  <2> QED BY <1>1, <2>1, <2>2, <2>3 DEF CopyHolds
<1> QED BY <1>1, <1>2, <1>3 DEF CopyInv

(* Time goes on only as far as the next refresh. *)
LEMMA TickKeeps ==
  ASSUME CopyInv, Tick
  PROVE  CopyInv'
<1>1. /\ clock' = clock + 1 /\ UNCHANGED <<table, since, licensed, rollup, dropped>>
      /\ licensed => clock < rollup.at + Period
  BY DEF Tick, rows
<1>2. clock \in Int /\ rollup.at \in Int /\ Period \in Int
  BY PolicyAssumption DEF CopyInv, CopyForm
<1>3. CopyForm'
  BY <1>1, <1>2 DEF CopyInv, CopyForm
<1>4. ASSUME licensed PROVE CopyHolds'
  <2>1. rollup.at <= clock' /\ clock' <= rollup.at + Period
    BY <1>1, <1>2, <1>4 DEF CopyInv, CopyHolds
  <2>2. CopyHolds
    BY <1>4 DEF CopyInv
  <2> QED BY <1>1, <2>1, <2>2 DEF CopyHolds, Timely, Ripe, Reading, Readings, RowsOf
<1> QED BY <1>1, <1>3, <1>4 DEF CopyInv

(* What a refresh leaves out, it had taken in before: its window reaches   *)
(* further back than the time between two refreshes.                       *)
LEMMA LeftOut ==
  ASSUME NEW at \in Int, NEW now \in Int, NEW then \in Int, NEW b \in Int,
         now <= at + Period, then + Period <= b + StartOffset,
         b + Granularity + EndOffset <= now,
         ~(now - StartOffset <= b /\ b + Granularity <= now - EndOffset)
  PROVE  then < at /\ b + Granularity + EndOffset <= at
<1>1. /\ StartOffset \in Int /\ EndOffset \in Int /\ Period \in Int /\ Granularity \in Int
      /\ Granularity + EndOffset + Period <= StartOffset
  BY PolicyAssumption, GranularityAssumption
<1> QED BY <1>1

LEMMA RefreshKeeps ==
  ASSUME TableInv, CopyInv, Refresh
  PROVE  CopyInv'
<1> DEFINE kept == {c \in DOMAIN rollup.cells : ~Covered(c[2])}
           made == {c \in Buckets(DOMAIN table) : Covered(c[2])}
           cells == [c \in kept \cup made |->
                       IF c \in made THEN Aggregate(RowsOf(table, c[1]))[c[2]] ELSE rollup.cells[c]]
<1>1. /\ licensed /\ rollup.at < clock /\ rollup' = [at |-> clock, cells |-> cells]
      /\ UNCHANGED <<table, since, licensed, clock, dropped>>
  BY DEF Refresh, rows
<1>2. rollup'.at = clock /\ rollup'.cells = cells
  BY <1>1
<1>3. /\ CopyForm /\ CopyHolds /\ clock \in Int /\ rollup.at \in Int /\ Period \in Int
      /\ Granularity \in Int /\ EndOffset \in Int /\ StartOffset \in Int /\ Period > 0
  <2>1. CopyForm /\ CopyHolds
    BY <1>1 DEF CopyInv
  <2>2. clock \in Int /\ rollup.at \in Int /\ clock <= rollup.at + Period
    BY <2>1 DEF CopyForm, CopyHolds
  <2> QED BY <1>1, <2>1, <2>2, PolicyAssumption, GranularityAssumption
<1>4. ASSUME NEW c \in made
      PROVE  /\ c \in Assets \X Int
             /\ cells[c] = {Reading(k) : k \in {j \in RowsOf(table, c[1]) : time_bucket(j[2]) = c[2]}}
  <2>1. PICK k \in DOMAIN table : c = <<k[1], time_bucket(k[2])>>
    BY DEF Buckets
  <2>2. k[1] \in Assets /\ k[2] \in Int
    BY DEF TableInv, TimesAreInt
  <2>3. time_bucket(k[2]) \in Int
    BY <2>2, BucketHolds
  <2> DEFINE S == RowsOf(table, c[1])
  <2>4. k \in S /\ time_bucket(k[2]) = c[2]
    BY <2>1 DEF RowsOf
  <2>5. cells[c] = Aggregate(S)[c[2]]
    OBVIOUS
  <2> HIDE DEF S, cells, made, kept
  <2>6. c[2] \in DOMAIN Aggregate(S)
    <3>1. DOMAIN Aggregate(S) = {time_bucket(j[2]) : j \in S}
      BY Aggregated
    <3> QED BY <2>4, <3>1
  <2>7. Aggregate(S)[c[2]] = {Reading(j) : j \in {i \in S : time_bucket(i[2]) = c[2]}}
    BY <2>6, Aggregated
  <2> QED BY <2>1, <2>2, <2>3, <2>5, <2>7 DEF S
<1>5. \A c \in kept \ made : cells[c] = rollup.cells[c]
  OBVIOUS
<1>6. DOMAIN cells = kept \cup made
  OBVIOUS
<1>7. \A c \in DOMAIN rollup.cells : c \in kept \/ Covered(c[2])
  OBVIOUS
<1>8. \A c \in Buckets(DOMAIN table) : Covered(c[2]) => c \in made
  OBVIOUS
<1>9. kept \subseteq DOMAIN rollup.cells /\ \A c \in kept : ~Covered(c[2])
  OBVIOUS
<1>10. \A c \in made : Covered(c[2])
  OBVIOUS
<1> HIDE DEF kept, made, cells
<1>11. DOMAIN cells \subseteq Assets \X Int
  BY <1>3, <1>4, <1>6, <1>9 DEF CopyForm
<1>12. CopyForm'
  BY <1>1, <1>2, <1>3, <1>11 DEF CopyForm
<1>13. \A k : Reading(k)' = Reading(k)
  BY <1>1 DEF Reading
<1>14. \A a, b : Readings(a, b)' = Readings(a, b)
  BY <1>1 DEF Readings, Reading, RowsOf
<1>15. ASSUME NEW c \in DOMAIN cells PROVE cells[c] \subseteq Readings(c[1], c[2])
  <2>1. CASE c \in made
    BY <1>4, <2>1 DEF Readings
  <2>2. CASE c \in kept \ made
    BY <1>3, <1>5, <1>9, <2>2 DEF CopyHolds
  <2> QED BY <1>6, <2>1, <2>2
<1>16. ASSUME NEW k \in DOMAIN table, Timely(k), Ripe(k)'
       PROVE  LET c == <<k[1], time_bucket(k[2])>> IN c \in DOMAIN cells /\ Reading(k) \in cells[c]
  <2> DEFINE b == time_bucket(k[2])
             c == <<k[1], b>>
  <2>1. k[1] \in Assets /\ k[2] \in Int /\ since[k] \in Int
    BY <1>3 DEF TableInv, TimesAreInt, CopyForm
  <2>2. b \in Int
    BY <2>1, BucketHolds
  <2>3. since[k] < clock /\ b + Granularity + EndOffset <= clock
    BY <1>1, <1>2, <1>16 DEF Ripe
  <2>4. CASE Covered(b)
    <3>1. c \in Buckets(DOMAIN table) /\ k \in RowsOf(table, c[1])
      BY DEF Buckets, RowsOf
    <3>2. c \in made
      BY <1>8, <2>4, <3>1
    <3>3. Reading(k) \in cells[c]
      BY <1>4, <3>1, <3>2
    <3> QED BY <1>6, <3>2, <3>3
  <2>5. CASE ~Covered(b)
    <3>1. clock <= rollup.at + Period
      BY <1>3 DEF CopyHolds
    <3>2. since[k] + Period <= b + StartOffset
      BY <1>16 DEF Timely
    <3>3. ~(clock - StartOffset <= b /\ b + Granularity <= clock - EndOffset)
      BY <2>5 DEF Covered
    <3> DEFINE then == since[k]
    <3>4. then \in Int /\ then + Period <= b + StartOffset
      BY <2>1, <3>2
    <3> HIDE DEF then, b
    <3>5. then < rollup.at /\ b + Granularity + EndOffset <= rollup.at
      BY <1>3, <2>2, <2>3, <3>1, <3>3, <3>4, LeftOut
    <3>6. Ripe(k)
      BY <3>5 DEF Ripe, then, b
    <3>7. c \in DOMAIN rollup.cells /\ Reading(k) \in rollup.cells[c]
      BY <1>3, <1>16, <3>6 DEF CopyHolds, b
    <3>8. c \in kept \ made
      BY <1>7, <1>10, <2>5, <3>7
    <3> QED BY <1>5, <1>6, <3>7, <3>8 DEF b
  <2> QED BY <2>4, <2>5
<1>17. clock <= clock + Period
  BY <1>3
<1>18. CopyHolds'
  BY <1>1, <1>2, <1>3, <1>13, <1>14, <1>15, <1>16, <1>17 DEF CopyHolds, Timely
<1> QED BY <1>12, <1>18 DEF CopyInv

(* What is dropped was read. *)
LEMMA RetainKeeps ==
  ASSUME TableInv, CopyInv, Retain
  PROVE  TableInv' /\ CopyInv' /\ dropped' # {} /\ UNCHANGED <<checks, client>>
<1> DEFINE old == {k \in DOMAIN table : k[2] < Cut}
           rest == DOMAIN table \ old
           gone == {<<k[1], k[2], table[k].value>> : k \in old}
<1>1. /\ old # {} /\ dropped' = dropped \cup gone
      /\ table' = Restrict(table, rest) /\ since' = Restrict(since, rest)
      /\ UNCHANGED <<committed, checks, client, licensed, clock, rollup>>
  BY DEF Retain
<1>2. \A k \in old : <<k[1], k[2], table[k].value>> \in dropped'
  BY <1>1
<1>3. dropped' # {} /\ dropped \subseteq dropped'
  BY <1>1
<1>4. rest \subseteq DOMAIN table /\ DOMAIN table = old \cup rest
  OBVIOUS
<1> HIDE DEF old, rest, gone
<1>5. /\ DOMAIN table' = rest /\ DOMAIN since' = rest
      /\ \A k \in rest : table'[k] = table[k] /\ since'[k] = since[k]
  BY <1>1 DEF Restrict
<1>6. TableInv'
  <2>1. IsFiniteSet(rest)
    <3> DEFINE D == DOMAIN table
    <3>1. IsFiniteSet(D) /\ rest \in SUBSET D
      BY <1>4 DEF TableInv
    <3> HIDE DEF D
    <3> QED BY <3>1, FS_Subset
  <2> QED BY <1>1, <1>4, <1>5, <2>1 DEF TableInv, TimesAreInt
<1>7. \A k \in rest : Reading(k)' = Reading(k)
  BY <1>5 DEF Reading
<1>8. ASSUME NEW a, NEW b PROVE Readings(a, b) \subseteq Readings(a, b)'
  <2>1. ASSUME NEW k \in RowsOf(table, a), time_bucket(k[2]) = b
        PROVE  Reading(k) \in Readings(a, b)'
    <3>1. k \in DOMAIN table /\ k[1] = a
      BY DEF RowsOf
    <3>2. CASE k \in rest
      <4>1. k \in RowsOf(table', a) /\ Reading(k)' = Reading(k)
        BY <1>5, <1>7, <3>1, <3>2 DEF RowsOf
      <4>2. Reading(k)' \in Readings(a, b)'
        BY <2>1, <4>1 DEF Readings
      <4> QED BY <4>1, <4>2
    <3>3. CASE k \in old
      <4> DEFINE d == <<k[1], k[2], table[k].value>>
      <4>1. d \in dropped' /\ d[1] = a /\ time_bucket(d[2]) = b /\ Reading(k) = <<d[2], d[3]>>
        BY <1>2, <2>1, <3>1, <3>3 DEF Reading
      <4> HIDE DEF d
      <4> QED BY <4>1 DEF Readings
    <3> QED BY <1>4, <3>1, <3>2, <3>3
  <2>2. {<<d[2], d[3]>> : d \in {e \in dropped : e[1] = a /\ time_bucket(e[2]) = b}}
          \subseteq Readings(a, b)'
    BY <1>3 DEF Readings
  <2> QED BY <2>1, <2>2 DEF Readings
<1>9. CopyForm'
  BY <1>1, <1>4, <1>5 DEF CopyInv, CopyForm, TableInv
<1>10. ASSUME licensed PROVE CopyHolds'
  <2>1. CopyHolds
    BY <1>10 DEF CopyInv
  <2>2. \A c \in DOMAIN rollup.cells : rollup.cells[c] \subseteq Readings(c[1], c[2])'
    BY <1>8, <2>1 DEF CopyHolds
  <2>3. ASSUME NEW k \in DOMAIN table', Timely(k)', Ripe(k)'
        PROVE  LET c == <<k[1], time_bucket(k[2])>>
               IN  c \in DOMAIN rollup.cells /\ Reading(k)' \in rollup.cells[c]
    <3>1. k \in DOMAIN table /\ Timely(k) /\ Ripe(k) /\ Reading(k)' = Reading(k)
      BY <1>1, <1>4, <1>5, <1>7, <2>3 DEF Timely, Ripe
    <3> QED BY <2>1, <3>1 DEF CopyHolds
  <2> QED BY <1>1, <2>1, <2>2, <2>3 DEF CopyHolds
<1>11. CopyInv'
  BY <1>1, <1>9, <1>10 DEF CopyInv
<1> QED BY <1>1, <1>3, <1>6, <1>11

-----------------------------------------------------------------------------
(* Marks, counts and pages are about rows that stay. *)
TelemetryInv ==
  /\ TableInv /\ CopyInv /\ PagesForm
  /\ dropped = {} => QaInv /\ DailyInv /\ PagesInv
  /\ topic = "quality" => dropped = {}
  /\ topic # "quality" => daily.row = NoRow

LEMMA TelemetryInitial == ReadInit => TelemetryInv
<1> SUFFICES ASSUME ReadInit PROVE TelemetryInv
  OBVIOUS
<1>1. PICK queries, licences, instant : instant \in {0, LastTick} /\ TelemetryInit(queries, licences, instant)
  BY DEF ReadInit
<1>2. /\ table = <<>> /\ committed = [w \in Writers |-> 0] /\ pages = <<>> /\ daily.row = NoRow
      /\ since = <<>> /\ dropped = {} /\ clock = instant /\ rollup = [at |-> instant, cells |-> <<>>]
      /\ qa = [pc |-> "idle", runs |-> 0, outliers |-> {}, drifts |-> {}, row |-> NoRow, missing |-> 0]
      /\ \E q : page = [pc |-> "resolve", query |-> q, resolved |-> NoScenario,
                        offset |-> 0, before |-> {}]
  BY <1>1 DEF TelemetryInit
<1>3. DOMAIN table = {} /\ DOMAIN pages = {} /\ DOMAIN since = {}
  BY <1>2
<1>4. TableInv
  BY <1>2, <1>3, FS_EmptySet DEF TableInv, TimesAreInt
<1>5. QaInv /\ DailyInv
  BY <1>2 DEF QaInv, DailyInv
<1>6. pages \in Seq({})
  BY <1>2
<1>7. /\ page = [pc |-> page.pc, query |-> page.query, resolved |-> page.resolved,
                 offset |-> page.offset, before |-> page.before]
      /\ page.offset = 0 /\ page.before = {} /\ page.pc = "resolve"
  BY <1>2
<1>8. PagesForm /\ PagesInv
  BY <1>2, <1>3, <1>6, <1>7 DEF PagesForm, PagesInv
<1>9. rollup.at = instant /\ DOMAIN rollup.cells = {}
  <2> DEFINE none == <<>>
  <2>1. rollup.at = instant /\ rollup.cells = none /\ DOMAIN none = {}
    BY <1>2
  <2> HIDE DEF none
  <2> QED BY <2>1
<1>10. CopyInv
  <2>1. clock = instant
    BY <1>2
  <2>2. instant \in Int /\ instant <= instant + Period
    BY <1>1, PolicyAssumption
  <2> QED BY <1>2, <1>3, <1>9, <2>1, <2>2 DEF CopyInv, CopyForm, CopyHolds
<1> QED BY <1>2, <1>4, <1>5, <1>8, <1>10 DEF TelemetryInv

LEMMA TelemetryStep == TelemetryInv /\ [ReadNext]_readVars => TelemetryInv'
<1> SUFFICES ASSUME TelemetryInv, [ReadNext]_readVars PROVE TelemetryInv'
  OBVIOUS
<1>1. TableInv /\ CopyInv /\ PagesForm /\ topic' = topic
  BY DEF TelemetryInv, ReadNext, readVars
<1>2. CASE Write
  <2>1. TableInv' /\ RowsStay /\ SinceStays /\ UNCHANGED <<qa, daily, client, view, dropped>>
    BY <1>1, <1>2, WriteKeeps DEF checks, view
  <2> QED BY <1>1, <2>1, QaStays, DailyStays, FormStays, PagesStay, CopyStays DEF TelemetryInv
<1>3. ASSUME topic = "quality", Check PROVE TelemetryInv'
  <2>1. /\ TableInv' /\ RowsStay /\ DOMAIN table' = DOMAIN table
        /\ UNCHANGED <<since, client, view, dropped>>
    BY <1>1, <1>3, CheckKeeps DEF view
  <2>2. SinceStays
    BY <1>1, <2>1 DEF SinceStays, TableInv
  <2>3. QaInv /\ DailyInv /\ PagesInv /\ dropped = {}
    BY <1>3 DEF TelemetryInv
  <2>4. CopyInv' /\ PagesForm' /\ PagesInv'
    BY <1>1, <2>1, <2>2, <2>3, CopyStays, FormStays, PagesStay
  <2>5. QaInv' /\ DailyInv'
    BY <1>1, <1>3, <2>3, QaStep
  <2> QED BY <1>1, <1>3, <2>1, <2>3, <2>4, <2>5 DEF TelemetryInv
<1>4. ASSUME UNCHANGED rows PROVE TableInv' /\ RowsStay /\ SinceStays
  BY <1>1, <1>4 DEF rows, TableInv, TimesAreInt, RowsStay, SinceStays
<1>5. CASE Page
  <2>1. UNCHANGED rows /\ UNCHANGED <<qa, daily, view, dropped>>
    BY <1>5 DEF Page, Resolve, ReadPage, checks, view
  <2>2. TableInv' /\ RowsStay /\ SinceStays /\ CopyInv' /\ PagesForm'
    BY <1>1, <1>4, <1>5, <2>1, CopyStays, FormStep
  <2> QED BY <1>1, <1>5, <2>1, <2>2, QaStays, DailyStays, PagesStep DEF TelemetryInv
<1>6. CASE Refresh \/ Tick
  <2>1. UNCHANGED rows /\ UNCHANGED <<qa, daily, client, dropped>>
    BY <1>6 DEF Refresh, Tick, checks
  <2>2. TableInv' /\ RowsStay /\ PagesForm'
    BY <1>1, <1>4, <2>1, FormStays
  <2>3. CopyInv'
    BY <1>1, <1>6, RefreshKeeps, TickKeeps
  <2> QED BY <1>1, <2>1, <2>2, <2>3, QaStays, DailyStays, PagesStay DEF TelemetryInv
<1>7. ASSUME topic # "quality", Retain PROVE TelemetryInv'
  <2>1. TableInv' /\ CopyInv' /\ dropped' # {} /\ UNCHANGED <<daily, client>>
    BY <1>1, <1>7, RetainKeeps DEF checks
  <2> QED BY <1>1, <1>7, <2>1, FormStays DEF TelemetryInv
<1>8. CASE UNCHANGED telemetryVars
  <2>1. UNCHANGED rows /\ UNCHANGED <<qa, daily, client, view, dropped>>
    BY <1>8 DEF telemetryVars, checks, view
  <2>2. TableInv' /\ RowsStay /\ SinceStays
    BY <1>4, <2>1
  <2> QED BY <1>1, <2>1, <2>2, QaStays, DailyStays, FormStays, PagesStay, CopyStays DEF TelemetryInv
<1>9. (\E w \in RollupWriters : WriterStep(w)) => Write
  BY RollupWritersAssumption DEF Write
<1> QED BY <1>2, <1>3, <1>5, <1>6, <1>7, <1>8, <1>9 DEF ReadNext, readVars, Maintain

(* The rows, their copy, the marks and counts of the QA job and the pages  *)
(* sent to the clients agree in every state, however the writers           *)
(* interleave with them.                                                   *)
THEOREM TelemetryInvariance == ReadSpec => []TelemetryInv
<1> QED BY TelemetryInitial, TelemetryStep, PTL DEF ReadSpec

(* However many rows are added between the pages of a client, by however   *)
(* many writers: it misses no row that was there when it began, unless old *)
(* rows were dropped in between.                                           *)
THEOREM ClientsMissNothing == ReadSpec => []PagesSkipNothing
<1>1. TelemetryInv => PagesSkipNothing
  BY PagesAreWhole DEF TelemetryInv
<1> QED BY <1>1, TelemetryInvariance, PTL

(* For every window, granularity, scenario and content of the table, the   *)
(* raw read and the grid of buckets, if one is given, agree.               *)
THEOREM WaysToReadAgree == ReadSpec => []ReadsAgree
<1>1. TelemetryInv => ReadsAgree
  BY ReadsAgreeAlways DEF TelemetryInv, TableInv
<1> QED BY <1>1, TelemetryInvariance, PTL

(* What the read of the copy gives. *)
LEMMA RollupIs ==
  ASSUME licensed, NEW a, NEW from, NEW to
  PROVE  get_observations(a, NoScenario, from, to, FALSE, TRUE).buckets = RollupRead(a, from, to)
BY DEF get_observations, Answer

LEMMA CopyLags == TableInv /\ CopyInv => RollupLags
<1> SUFFICES ASSUME TableInv, CopyInv, licensed, NEW a \in Assets, NEW from \in Times, NEW to \in Times
             PROVE  /\ \A b \in DOMAIN RollupRead(a, from, to) :
                         RollupRead(a, from, to)[b] \subseteq Readings(a, b)
                    /\ \A k \in RowsOf(table, a) :
                         LET b == time_bucket(k[2]) IN
                         Settled(k) /\ from <= b /\ b < to =>
                           b \in DOMAIN RollupRead(a, from, to) /\ Reading(k) \in RollupRead(a, from, to)[b]
  <2> DEFINE P(a, from, to, read) ==
               /\ \A b \in DOMAIN read : read[b] \subseteq Readings(a, b)
               /\ \A k \in RowsOf(table, a) :
                    LET b == time_bucket(k[2]) IN
                    Settled(k) /\ from <= b /\ b < to => b \in DOMAIN read /\ Reading(k) \in read[b]
  <2>1. (licensed => \A a \in Assets, from \in Times, to \in Times : from < to =>
           P(a, from, to, get_observations(a, NoScenario, from, to, FALSE, TRUE).buckets)) => RollupLags
    BY DEF RollupLags
  <2> HIDE DEF P
  <2>2. ASSUME licensed, NEW a \in Assets, NEW from \in Times, NEW to \in Times,
               P(a, from, to, RollupRead(a, from, to))
        PROVE  P(a, from, to, get_observations(a, NoScenario, from, to, FALSE, TRUE).buckets)
    BY <2>2, RollupIs
  <2> QED BY <2>1, <2>2 DEF P
<1>1. CopyForm /\ CopyHolds
  BY DEF CopyInv
<1> DEFINE inside == {d \in DOMAIN rollup.cells : d[1] = a /\ from <= d[2] /\ d[2] < to}
           read == RollupRead(a, from, to)
<1>2. read = [b \in {c[2] : c \in inside} |-> rollup.cells[<<a, b>>]]
  BY DEF RollupRead
<1>3. ASSUME NEW b \in DOMAIN read PROVE read[b] \subseteq Readings(a, b)
  <2>1. PICK c \in inside : b = c[2]
    BY <1>2
  <2>2. c \in DOMAIN rollup.cells /\ c[1] = a
    OBVIOUS
  <2>3. c = <<a, b>>
    BY <1>1, <2>1, <2>2 DEF CopyForm
  <2>4. read[b] = rollup.cells[c]
    BY <1>2, <2>3
  <2>5. rollup.cells[c] \subseteq Readings(c[1], c[2])
    BY <1>1, <2>2 DEF CopyHolds
  <2> QED BY <2>1, <2>2, <2>4, <2>5
<1>4. ASSUME NEW k \in RowsOf(table, a), Settled(k), from <= time_bucket(k[2]), time_bucket(k[2]) < to
      PROVE  time_bucket(k[2]) \in DOMAIN read /\ Reading(k) \in read[time_bucket(k[2])]
  <2> DEFINE b == time_bucket(k[2])
             c == <<a, b>>
  <2>1. k \in DOMAIN table /\ k[1] = a
    BY DEF RowsOf
  <2>2. b \in Int /\ since[k] \in Int
    <3>1. k[2] \in Int /\ since[k] \in Int
      BY <1>1, <2>1 DEF TableInv, TimesAreInt, CopyForm
    <3> QED BY <3>1, BucketHolds
  <2>3. Timely(k) /\ Ripe(k)
    <3>1. /\ since[k] + Period < clock /\ b + Granularity + EndOffset + Period <= clock
          /\ since[k] + Period <= b + StartOffset
      BY <1>4 DEF Settled
    <3>2. clock \in Int /\ rollup.at \in Int /\ clock <= rollup.at + Period
      BY <1>1 DEF CopyForm, CopyHolds
    <3>3. Period \in Int /\ EndOffset \in Int /\ Granularity \in Int
      BY PolicyAssumption, GranularityAssumption
    <3> HIDE DEF b
    <3>4. since[k] < rollup.at /\ b + Granularity + EndOffset <= rollup.at
      BY <2>2, <3>1, <3>2, <3>3
    <3> QED BY <3>1, <3>4 DEF Timely, Ripe, b
  <2>4. c \in DOMAIN rollup.cells /\ Reading(k) \in rollup.cells[c]
    BY <1>1, <2>1, <2>3 DEF CopyHolds
  <2>5. c \in inside /\ b = c[2]
    BY <1>4, <2>4
  <2> HIDE DEF b, inside, read
  <2>6. b \in DOMAIN read /\ read[b] = rollup.cells[c]
    BY <1>2, <2>5
  <2> QED BY <2>4, <2>6 DEF b
<1> QED BY <1>3, <1>4

(* Whatever the offsets and the period of the policy are, if its window    *)
(* reaches further back than one period and a bucket: the read of the copy *)
(* invents nothing, and lacks no row for longer than the policy tells.     *)
THEOREM RollupLagsByAPeriod == ReadSpec => []RollupLags
<1>1. TelemetryInv => RollupLags
  BY CopyLags DEF TelemetryInv
<1> QED BY <1>1, TelemetryInvariance, PTL

(* Whatever is added and marked, and however the windows of the QA job     *)
(* lie: the gaps of the daily row are real, but for one for each asset.    *)
THEOREM QaCountsRealGaps == ReadSpec => []GapsAreReal
<1>1. TelemetryInv => GapsAreReal
  <2>1. daily.row = NoRow => GapsAreReal
    BY DEF GapsAreReal
  <2> QED BY <2>1, DailyIsReal DEF TelemetryInv
<1> QED BY <1>1, TelemetryInvariance, PTL
=============================================================================
