---------------------------- MODULE KnowledgeGraph ---------------------------
(***************************************************************************)
(* A tenant's graph of alerts and entities (engines/graph/client.py) and   *)
(* the three queries that analysts pivot with. A node is a record of its   *)
(* type and value, the graph its set of triples: writing one again changes *)
(* nothing. Which of several shortest paths is given depends on the order  *)
(* of the writes and is left open.                                         *)
(***************************************************************************)
EXTENDS Integers, Sequences, FiniteSets, SequencesExt

Triple(src, rel, dst) == [src |-> src, rel |-> rel, dst |-> dst]

MaxDepth == 6
ClampDepth(depth) == Max({1, Min({depth, MaxDepth})})

(* Traversal is undirected. *)
Touching_Outgoing(graph, node) == {e \in graph : e.src = node}
Touching(graph, node) == {e \in graph : node \in {e.src, e.dst}}
OtherEnd(edge, node) == IF edge.src = node THEN edge.dst ELSE edge.src
Adjacent(graph, node) == {OtherEnd(e, node) : e \in Touching(graph, node)}
NodesOf(graph) == {e.src : e \in graph} \cup {e.dst : e \in graph}

(* neighbors: the nodes within so many hops, a frontier at a time. *)
AdjacentToAny(graph, nodes) == UNION {Adjacent(graph, n) : n \in nodes}
Widened(graph, s) ==
  LET next == AdjacentToAny(graph, s.frontier) \ s.seen IN
  [seen |-> s.seen \cup next, frontier |-> next]
Within(graph, node, depth) ==
  LET after[i \in 0..ClampDepth(depth)] ==
        IF i = 0 THEN [seen |-> {node}, frontier |-> {node}]
        ELSE LET s == after[i - 1] IN Widened(graph, s) IN
  IF node \in NodesOf(graph) THEN after[ClampDepth(depth)].seen ELSE {}

(* campaign: the alerts around a node, and everything else they touch. *)
CampaignOf(graph, node, depth) ==
  LET near == Within(graph, node, depth)
      alerts == {n \in near : n.type = "alert"} IN
  [alerts |-> alerts, related |-> near \ (alerts \cup {node})]

-----------------------------------------------------------------------------
(* path: breadth first from src; via[n] is the edge by which n was found. *)
Enqueue_First(queue, found) == found \o queue
Enqueue(queue, found) == queue \o found

Visit(graph, s, src, limit) ==
  LET cur == Head(s.queue)
      new == IF cur.depth >= limit THEN {}
             ELSE Adjacent(graph, cur.node) \ ({src} \cup DOMAIN s.via) IN
  [queue |-> Enqueue(Tail(s.queue),
                     SetToSeq({[node |-> n, depth |-> cur.depth + 1] : n \in new})),
   via |-> [n \in DOMAIN s.via \cup new |->
              IF n \in new
              THEN CHOOSE e \in Touching(graph, cur.node) : OtherEnd(e, cur.node) = n
              ELSE s.via[n]]]

(* It ends when dst is found or the queue is empty; every node is queued once. *)
Search(graph, src, dst, limit) ==
  LET after[i \in 0..Cardinality(NodesOf(graph))] ==
        IF i = 0 THEN [queue |-> <<[node |-> src, depth |-> 0]>>, via |-> <<>>]
        ELSE LET s == after[i - 1] IN
             IF s.queue = <<>> \/ dst \in {src} \cup DOMAIN s.via THEN s
             ELSE Visit(graph, s, src, limit) IN
  after[Cardinality(NodesOf(graph))].via

(* _reconstruct, from dst backwards. *)
Reconstruct(via, src, dst) ==
  LET edges[n \in {src} \cup DOMAIN via] ==
        IF n = src THEN <<>> ELSE Append(edges[OtherEnd(via[n], n)], via[n]) IN
  edges[dst]

Path(graph, src, dst, depth) ==
  LET via == Search(graph, src, dst, ClampDepth(depth)) IN
  IF dst \in DOMAIN via THEN Reconstruct(via, src, dst) ELSE <<>>

-----------------------------------------------------------------------------
(* The queries agree: whatever the depth a caller limits the search to, a path
   from a to b is a chain of stored triples, and within any smaller depth the
   campaign view of a shows exactly the entities to which a path so long or
   shorter is found, so that no path could be shorter and none is cut off early
   (neighbors, campaign and path traverse the graph each in its own way). *)
IsChain(graph, path, a, b) ==
  LET reached[i \in 0..Len(path)] ==
        IF i = 0 THEN a ELSE OtherEnd(path[i], reached[i - 1]) IN
  /\ \A i \in 1..Len(path) : path[i] \in Touching(graph, reached[i - 1])
  /\ reached[Len(path)] = b

QueriesAgree(graph, a) ==
  \A limit \in 1..MaxDepth :
    \A found \in {{[to |-> b, path |-> Path(graph, a, b, limit)] : b \in NodesOf(graph) \ {a}}} :
      /\ \A f \in found : f.path # <<>> => IsChain(graph, f.path, a, f.to)
      /\ \A depth \in 1..limit : \A view \in {CampaignOf(graph, a, depth)} :
           (view.alerts \cup view.related) \ {a}
             = {f.to : f \in {g \in found : Len(g.path) \in 1..depth}}
=============================================================================
