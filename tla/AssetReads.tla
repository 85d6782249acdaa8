----------------------------- MODULE AssetReads -----------------------------
(***************************************************************************)
(* GET /assets/{id}/upstream and /downstream: a request is admitted, then  *)
(* traverse_network of storage/repos/assets.py follows the pipes from the  *)
(* asset, one query for the pipes and one for the nodes of every hop.      *)
(* The queries of a request see the commits made between them.             *)
(***************************************************************************)
EXTENDS Access, FiniteSets

CONSTANTS
  Network,      \* Network[a]: type, city, upstream and downstream node of asset a
  Snapshots,    \* the sets of assets that are stored at one time or another
  Requests,     \* asset, direction and depth
  Deployments,  \* settings
  Callers,      \* credentials
  NoNode

(* Pipes begin and end at nodes: upstream_node_id and downstream_node_id. *)
ASSUME NetworkAssumption ==
  /\ UNION Snapshots \subseteq DOMAIN Network
  /\ \A p \in DOMAIN Network : \A direction \in {"upstream", "downstream"} :
       LET end == Network[p][direction]
       IN  end \in DOMAIN Network => Network[end].type # "pipe"

ASSUME RequestsAssumption ==
  Requests \subseteq [asset : DOMAIN Network, direction : {"upstream", "downstream"}, depth : 1..20]

VARIABLES
  stored,       \* the assets in the database
  caller,       \* settings and credentials of the request
  request,
  pc, status,
  visited, results, frontier, pipes, hop,
  before        \* history: the assets stored when the request read its first

search == <<visited, results, frontier, pipes, hop>>
assetVars == <<stored, caller, request, pc, status, search, before>>

AssetInit(snapshots, callers, requests) ==
  /\ stored \in snapshots
  /\ caller \in callers
  /\ request \in requests
  /\ pc = "arrived" /\ status = 0
  /\ visited = {} /\ results = {} /\ frontier = {} /\ pipes = {} /\ hop = 0
  /\ before = {}

Respond(code) == pc' = "ended" /\ status' = code

-----------------------------------------------------------------------------
(* Reading the network; assets is the set that is stored.                  *)

Opposite(direction) == IF direction = "upstream" THEN "downstream" ELSE "upstream"

(* The node a pipe leads to in the direction of the search. *)
_pipe_endpoint(p, direction) == Network[p][direction]

Ends(P, direction) == {_pipe_endpoint(p, direction) : p \in P} \ {NoNode}

_list_pipes_by_nodes(assets, nodes, direction, city) ==
  {p \in assets : /\ Network[p].type = "pipe" /\ Network[p].city = city
                  /\ _pipe_endpoint(p, Opposite(direction)) \in nodes}

_list_assets_by_ids(assets, ids, city) == {a \in ids \cap assets : Network[a].city = city}

CityOf(r) == Network[r.asset].city

City == CityOf(request)

(* The nodes a search begins with. *)
Starts(r) ==
  IF Network[r.asset].type = "pipe" THEN Ends({r.asset}, r.direction) ELSE {r.asset}

-----------------------------------------------------------------------------
Admit ==
  /\ pc = "arrived"
  /\ LET code == require_deployment_access(caller.settings, caller.credentials)
     IN  IF code = 200 THEN pc' = "lookup" /\ UNCHANGED status ELSE Respond(code)
  /\ UNCHANGED <<stored, caller, request, search, before>>

(* get_asset *)
Lookup ==
  /\ pc = "lookup"
  /\ IF request.asset \notin stored THEN Respond(404) /\ UNCHANGED <<visited, frontier>>
     ELSE /\ pc' = IF Network[request.asset].type = "pipe" THEN "endpoint" ELSE "hop"
          /\ visited' = {request.asset}
          /\ frontier' = Starts(request)
          /\ UNCHANGED status
  /\ before' = stored
  /\ UNCHANGED <<stored, caller, request, results, pipes, hop>>

Report(found) ==
  /\ visited' = visited \cup found
  /\ results' = results \cup (found \ visited)

(* The node next to a pipe is part of what is found from the pipe. *)
Endpoint ==
  /\ pc = "endpoint"
  /\ Report(_list_assets_by_ids(stored, frontier, City))
  /\ pc' = "hop"
  /\ UNCHANGED <<stored, caller, request, status, frontier, pipes, hop, before>>

HopPipes ==
  /\ pc = "hop"
  /\ IF hop = request.depth \/ frontier = {}
     THEN Respond(200) /\ UNCHANGED <<visited, results, pipes>>
     ELSE LET found == _list_pipes_by_nodes(stored, frontier, request.direction, City) IN
          /\ Report(found)
          /\ pipes' = found
          /\ pc' = "nodes"
          /\ UNCHANGED status
  /\ UNCHANGED <<stored, caller, request, frontier, hop, before>>

(* A node without an asset of the city is followed, but not reported. *)
HopNodes ==
  /\ pc = "nodes"
  /\ LET next == Ends(pipes, request.direction) \ visited IN
       /\ Report(_list_assets_by_ids(stored, next, City))
       /\ frontier' = next
  /\ hop' = hop + 1
  /\ pc' = "hop"
  /\ UNCHANGED <<stored, caller, request, status, pipes, before>>

(* A seed or an import commits assets; nothing removes assets in use. *)
Grow ==
  /\ pc # "ended"
  /\ stored' \in {S \in Snapshots : stored \subseteq S /\ S # stored}
  /\ UNCHANGED <<caller, request, pc, status, search, before>>

AssetNext == Admit \/ Lookup \/ Endpoint \/ HopPipes \/ HopNodes \/ Grow

-----------------------------------------------------------------------------
(* With the nodes that one more pipe leads to. *)
Grown(assets, r, nodes) ==
  nodes \cup Ends(_list_pipes_by_nodes(assets, nodes, r.direction, CityOf(r)), r.direction)

(* The nodes that can be reached by following at most k pipes. *)
NodesWithin(assets, r) ==
  LET Within[k \in Nat] ==
        IF k = 0 THEN Starts(r) ELSE Grown(assets, r, Within[k - 1])
  IN  Within

(* The assets that can be reached with the depth of the request. *)
Reach(assets, r) ==
  LET nodes == NodesWithin(assets, r) IN
  (_list_pipes_by_nodes(assets, nodes[r.depth - 1], r.direction, CityOf(r))
   \cup _list_assets_by_ids(assets, nodes[r.depth], CityOf(r))) \ {r.asset}

(* A traversal answers with what can be reached by the depth asked for:    *)
(* with all of it that was stored when it began and nothing that is not    *)
(* stored when it ends, through cycles, through nodes that have no asset   *)
(* of their own, and while assets are added between its queries.  It       *)
(* answers 404 only for an asset that was not stored.                      *)
TraversalIsReach ==
  /\ status = 200 => /\ Reach(before, request) \subseteq results
                      /\ results \subseteq Reach(stored, request)
  /\ status = 404 => request.asset \notin before

(* Outside local development an answer is given only to a caller who shows *)
(* what the deployment is configured for: with tokens configured, a valid  *)
(* token of its tenant with a role, whatever key comes with it; without    *)
(* them, the key.  A half-configured deployment answers nobody.  Who may   *)
(* change something may also read it.                                      *)
AccessFailsClosed ==
  LET s == caller.settings
      c == caller.credentials
      Granted(allowed) == require_privileged_access(s, c, allowed) = 200
  IN  /\ status \in {200, 404} /\ ~s.local =>
           /\ s.tenant # NoTenant
           /\ IF s.jwt
              THEN /\ c.token # NoToken /\ ~c.token.forged /\ ~c.token.expired
                   /\ c.token.complete /\ c.token.tenant = s.tenant
                   /\ c.token.roles \cap Viewers # {}
              ELSE s.apiKey /\ c.key = "right"
      /\ Granted(Admins) => Granted(Analysts)
      /\ Granted(Analysts) => Granted(Viewers) /\ require_deployment_access(s, c) = 200

(* What the API answers is told to those it may be told to, and is so.     *)
AnswersAreEarned == AccessFailsClosed /\ TraversalIsReach
=============================================================================
