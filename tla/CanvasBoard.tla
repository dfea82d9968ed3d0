---------------------------- MODULE CanvasBoard -----------------------------
(***************************************************************************)
(* A canvas as the tools change it: its nodes and edges, in order.  A file *)
(* another program wrote is accepted with duplicate ids and with edges     *)
(* whose nodes are not there; the operations must make neither.            *)
(***************************************************************************)
EXTENDS Naturals, FiniteSets, Sequences, SequencesExt

Fields == [text |-> {"text"}, file |-> {"file"}]
Common == {"color"}
TypeSpecific == UNION {Fields[type] : type \in DOMAIN Fields}

BoardNode(id, type) == [id |-> id, type |-> type, set |-> {}]
BoardEdge(id, from, to) == [id |-> id, from |-> from, to |-> to]

Ids(items) == {items[k].id : k \in DOMAIN items}
Refusal(canvas) == [ok |-> FALSE, canvas |-> canvas]
Answer(canvas) == [ok |-> TRUE, canvas |-> canvas]

\* Without an id of its own the node gets a random one, which is checked too.
AddNode(canvas, node) ==
  IF node.id \in Ids(canvas.nodes) THEN Refusal(canvas)
  ELSE Answer([canvas EXCEPT !.nodes = Append(@, node)])

AddEdge(canvas, edge) ==
  IF {edge.from, edge.to} \subseteq Ids(canvas.nodes) /\ edge.id \notin Ids(canvas.edges)
    THEN Answer([canvas EXCEPT !.edges = Append(@, edge)])
  ELSE Refusal(canvas)

\* Mutant: a node of any type takes any field.
AllowedAny(node, fields) == TRUE

Allowed(node, fields) == fields \intersect TypeSpecific \subseteq Fields[node.type]

\* The patch may carry an id and a type, which are not taken.
Taken(patch) == patch \ {"id", "type"}
UpdateNode(canvas, id, patch) ==
  IF id \notin Ids(canvas.nodes) THEN Refusal(canvas)
  ELSE LET node == SelectSeq(canvas.nodes, LAMBDA n : n.id = id)[1]
           updated == [node EXCEPT !.set = @ \union Taken(patch)]
       IN IF Allowed(node, Taken(patch))
            THEN Answer([canvas EXCEPT !.nodes = [k \in DOMAIN @ |-> IF @[k].id = id THEN updated ELSE @[k]]])
          ELSE Refusal(canvas)

\* Mutant: a removed node's edges stay unless they are named.
RemoveNodesAndEdgesListed(canvas, nodeIds, edgeIds) ==
  Answer([canvas EXCEPT
            !.nodes = SelectSeq(@, LAMBDA n : n.id \notin nodeIds),
            !.edges = SelectSeq(@, LAMBDA e : e.id \notin edgeIds)])

RemoveNodesAndEdges(canvas, nodeIds, edgeIds) ==
  Answer([canvas EXCEPT
            !.nodes = SelectSeq(@, LAMBDA n : n.id \notin nodeIds),
            !.edges = SelectSeq(@, LAMBDA e : e.id \notin edgeIds /\ {e.from, e.to} \intersect nodeIds = {})])

-----------------------------------------------------------------------------
Dangling(canvas) == {e \in ToSet(canvas.edges) : ~({e.from, e.to} \subseteq Ids(canvas.nodes))}
Twice(items) == {items[k].id : k \in {k \in DOMAIN items : \E j \in DOMAIN items : j # k /\ items[j].id = items[k].id}}

Patches == SUBSET (TypeSpecific \union Common \union {"id", "type"})
Results(canvas, ids) ==
  {AddNode(canvas, BoardNode(i, t)) : i \in ids, t \in DOMAIN Fields}
    \union {AddEdge(canvas, BoardEdge(i, f, t)) : i \in ids, f \in ids, t \in ids}
    \union {UpdateNode(canvas, i, patch) : i \in ids, patch \in Patches}
    \union {RemoveNodesAndEdges(canvas, ns, es) : ns \in SUBSET ids, es \in SUBSET ids}

\* What is added goes behind what is there, all of which stays.
AddKeeps(canvas, r) == IsPrefix(canvas.nodes, r.canvas.nodes) /\ IsPrefix(canvas.edges, r.canvas.edges)

\* An update leaves the edges and every node of another id as they are, and the
\* places and ids of all nodes.  A node it changes loses no field, gains none but
\* the patch's, all of its type, and keeps its type; unless another node has its
\* id too: updateNode puts the first of them, type included, in the place of both.
UpdateKeeps(canvas, id, patch) ==
  LET r == UpdateNode(canvas, id, patch).canvas
  IN /\ r.edges = canvas.edges /\ Len(r.nodes) = Len(canvas.nodes)
     /\ \A k \in DOMAIN canvas.nodes :
          LET old == canvas.nodes[k]  new == r.nodes[k]
          IN /\ new.id = old.id /\ new.set \subseteq Common \union Fields[new.type] /\ (old.id # id => new = old)
             /\ old.id \notin Twice(canvas.nodes) =>
                  new.type = old.type /\ old.set \subseteq new.set /\ new.set \ old.set \subseteq Taken(patch)

\* A removal leaves exactly what was not asked for and hangs on no removed node,
\* in its order.
RemovalKeeps(canvas, ns, es) ==
  LET r == RemoveNodesAndEdges(canvas, ns, es).canvas
      Left(old, new, Stays(_)) ==
        LET kept == {k \in DOMAIN old : Stays(old[k])}
        IN Len(new) = Cardinality(kept) /\ \A k \in kept : new[Cardinality({j \in kept : j <= k})] = old[k]
  IN /\ Left(canvas.nodes, r.nodes, LAMBDA n : n.id \notin ns)
     /\ Left(canvas.edges, r.edges, LAMBDA e : e.id \notin es /\ e.from \notin ns /\ e.to \notin ns)

\* No operation leaves an edge without its nodes or an id taken twice where there
\* was none, nor changes a refused canvas; and each keeps what it should (addNode,
\* addEdge, updateNode, removeNodesAndEdges).
BoardStaysWhole(canvas, ids) ==
  /\ \A r \in Results(canvas, ids) : /\ Dangling(r.canvas) \subseteq Dangling(canvas)
                                    /\ Twice(r.canvas.nodes) \subseteq Twice(canvas.nodes)
                                    /\ Twice(r.canvas.edges) \subseteq Twice(canvas.edges)
                                    /\ ~r.ok => r.canvas = canvas
  /\ \A i \in ids, t \in DOMAIN Fields : AddKeeps(canvas, AddNode(canvas, BoardNode(i, t)))
  /\ \A i, f, t \in ids : AddKeeps(canvas, AddEdge(canvas, BoardEdge(i, f, t)))
  /\ \A i \in ids, patch \in Patches : UpdateKeeps(canvas, i, patch)
  /\ \A ns \in SUBSET ids, es \in SUBSET ids : RemovalKeeps(canvas, ns, es)
=============================================================================
