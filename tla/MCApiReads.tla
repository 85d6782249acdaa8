----------------------------- MODULE MCApiReads -----------------------------
(* ApiReads with a feed, a scenario that collides with it and late rows,   *)
(* and a network with a cycle, a node without an asset and two cities.     *)
EXTENDS ApiReads

CONSTANTS a1, a2, feed, device, run1, run2, s1, s2, unknown,
          n1, n2, n3, ghost, far, p12, p23, p31, p2g, pg3, pfar

Samples1 == {<<a1, 0, 1>>, <<a1, 3, 1>>, <<a1, 6, 4>>}
Samples2 == {<<a2, 1, 9>>, <<a2, 2, 2>>}

MCBatches ==
  [w \in {feed, device, run1, run2} |->
     CASE w = feed -> [scenario |-> NoScenario, commits |-> <<Samples1, Samples2>>]
       [] w = device -> [scenario |-> NoScenario,
                         commits |-> <<{<<a1, 2, 4>>}, {<<a1, 5, 9>>, <<a2, 7, 2>>}>>]
       [] w = run1 -> [scenario |-> s1, commits |-> <<{<<a1, 3, 2>>, <<a1, 4, 2>>, <<a1, 5, 2>>}>>]
       [] w = run2 -> [scenario |-> s2, commits |-> <<{<<a1, 1, 2>>, <<a1, 4, 3>>}>>]]

MCQueries ==
  {[asset |-> a1, scenario |-> s, from |-> 0, to |-> 7] : s \in {NoScenario, s1, "latest", unknown}}

Pipe(city, up, down) == [type |-> "pipe", city |-> city, upstream |-> up, downstream |-> down]
Node(city) == [type |-> "node", city |-> city, upstream |-> NoNode, downstream |-> NoNode]

MCNetwork ==
  [a \in {n1, n2, n3, far, p12, p23, p31, p2g, pg3, pfar} |->
     CASE a \in {n1, n2, n3} -> Node("here")
       [] a = far -> Node("elsewhere")
       [] a = p12 -> Pipe("here", n1, n2)
       [] a = p23 -> Pipe("here", n2, n3)
       [] a = p31 -> Pipe("here", n3, n1)
       [] a = p2g -> Pipe("here", n2, ghost)
       [] a = pg3 -> Pipe("here", ghost, n3)
       [] a = pfar -> Pipe("here", far, NoNode)]

Line == {n1, n2, n3, p12, p23}
MCSnapshots ==
  {Line, Line \cup {p31}, Line \cup {p31, far, pfar}, (Line \ {p23}) \cup {p2g, pg3},
   DOMAIN MCNetwork}

Ask(asset, direction, depth) == [asset |-> asset, direction |-> direction, depth |-> depth]
MCRequests ==
  {Ask(n1, "downstream", 3), Ask(n3, "upstream", 2), Ask(p12, "downstream", 2),
   Ask(p12, "upstream", 1), Ask(p2g, "downstream", 1), Ask(pfar, "upstream", 2)}

MCDeployments ==
  [local : BOOLEAN, tenant : {NoTenant, "here"}, jwt : BOOLEAN, apiKey : BOOLEAN]

Token(roles) == [forged |-> FALSE, expired |-> FALSE, complete |-> TRUE,
                 tenant |-> "here", roles |-> roles]

MCTokens ==
  {NoToken, Token({"viewer"}), Token({"admin"}), Token({}), [Token({"admin"}) EXCEPT !.forged = TRUE],
   [Token({"admin"}) EXCEPT !.expired = TRUE], [Token({"admin"}) EXCEPT !.complete = FALSE],
   [Token({"analyst"}) EXCEPT !.tenant = "there"], [Token({"admin"}) EXCEPT !.tenant = NoTenant]}

MCCallers ==
  [token : MCTokens, key : {NoKey, "right"}] \cup {[token |-> NoToken, key |-> "wrong"]}
=============================================================================
